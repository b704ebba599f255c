------------------------------ MODULE OracleProofs ------------------------------
(***************************************************************************)
(* Proofs about OracleLab: what the build leaves in its manifest, what a   *)
(* server run leaves behind, and what the evidence of a smoke rests on,    *)
(* for every host, fixture, simulator run and class of error.              *)
(***************************************************************************)
EXTENDS OracleLab, WellFoundedInduction, TLAPS

-----------------------------------------------------------------------------
(***************************************************************************)
(* A chain of checks is passed if and only if every check holds, and what  *)
(* it gives otherwise is the class of one of them.                         *)
(***************************************************************************)
LEMMA Least ==
    ASSUME NEW T, T \subseteq Nat, T # {}
    PROVE  \E n \in T : \A m \in T : n <= m
<1> DEFINE R == {ss \in Nat \X Nat : ss[1] < ss[2]}
<1>1. IsWellFoundedOn(R, Nat)
  BY NatLessThanWellFounded DEF OpToRel
<1>2. PICK n \in T : \A m \in T : ~ (<<m, n>> \in R)
  BY <1>1, WFMin
<1>3. ASSUME NEW m \in T PROVE n <= m
  <2>1. ~(<<m, n>> \in R)
    BY <1>2
  <2>2. m \in Nat /\ n \in Nat
    OBVIOUS
  <2>3. <<m, n>> \in Nat \X Nat /\ <<m, n>>[1] = m /\ <<m, n>>[2] = n
    BY <2>2
  <2>4. ~(m < n)
    BY <2>1, <2>3
  <2> QED
    BY <2>2, <2>4
<1> QED
  BY <1>3

LEMMA FailureOfACheck ==
    ASSUME NEW N \in Nat, NEW checks, DOMAIN checks = 1..N
    PROVE  \/ FirstFailure(checks) = "ok" /\ \A i \in 1..N : checks[i][1]
           \/ \E i \in 1..N : ~checks[i][1] /\ FirstFailure(checks) = checks[i][2]
<1> DEFINE failing == {i \in DOMAIN checks : ~checks[i][1]}
           first == CHOOSE i \in failing : \A j \in failing : i <= j
<1>1. CASE failing = {}
  BY <1>1 DEF FirstFailure, FirstReport
<1>2. CASE failing # {}
  <2>1. \E i \in failing : \A j \in failing : i <= j
    BY <1>2, Least, failing \subseteq Nat
  <2>2. first \in failing
    BY <2>1
  <2>3. FirstFailure(checks) = checks[first][2]
    BY <1>2 DEF FirstFailure, FirstReport
  <2> QED
    BY <2>2, <2>3
<1> QED
  BY <1>1, <1>2

LEMMA FirstOfTheChecks ==
    ASSUME NEW N \in Nat, NEW checks, DOMAIN checks = 1..N
    PROVE  /\ (\A i \in 1..N : checks[i][1]) => FirstFailure(checks) = "ok"
           /\ \A n \in 1..N : ~checks[n][1] /\ (\A i \in 1..N : i < n => checks[i][1]) =>
                 FirstFailure(checks) = checks[n][2]
<1> DEFINE failing == {i \in DOMAIN checks : ~checks[i][1]}
           first == CHOOSE i \in failing : \A j \in failing : i <= j
<1>1. FirstFailure(checks) = IF failing = {} THEN "ok" ELSE checks[first][2]
  BY DEF FirstFailure, FirstReport
<1>2. ASSUME NEW n \in 1..N, ~checks[n][1], \A i \in 1..N : i < n => checks[i][1]
      PROVE  FirstFailure(checks) = checks[n][2]
  <2>1. n \in failing /\ \A j \in failing : n <= j
    BY <1>2
  <2>2. first \in failing /\ \A j \in failing : first <= j
    BY <2>1
  <2>3. first = n
    BY <2>1, <2>2, failing \subseteq Nat
  <2> QED
    BY <1>1, <2>1, <2>3
<1>3. (\A i \in 1..N : checks[i][1]) => FirstFailure(checks) = "ok"
  BY <1>1
<1> QED
  BY <1>2, <1>3

LEMMA ThreeChecks ==
    ASSUME NEW a, NEW x, NEW b, NEW y, NEW c, NEW z
    PROVE  FirstFailure(<<<<a, x>>, <<b, y>>, <<c, z>>>>) =
               IF ~a THEN x ELSE IF ~b THEN y ELSE IF ~c THEN z ELSE "ok"
<1> DEFINE checks == <<<<a, x>>, <<b, y>>, <<c, z>>>>
<1>1. /\ DOMAIN checks = 1..3
      /\ checks[1][2] = x /\ checks[2][2] = y /\ checks[3][2] = z
  OBVIOUS
<1>2. checks[1][1] = a /\ checks[2][1] = b /\ checks[3][1] = c
  OBVIOUS
<1> HIDE DEF checks
<1>3. /\ (\A i \in 1..3 : checks[i][1]) => FirstFailure(checks) = "ok"
      /\ \A n \in 1..3 : ~checks[n][1] /\ (\A i \in 1..3 : i < n => checks[i][1]) =>
            FirstFailure(checks) = checks[n][2]
  BY <1>1, FirstOfTheChecks
<1>4. FirstFailure(checks) = IF ~a THEN x ELSE IF ~b THEN y ELSE IF ~c THEN z ELSE "ok"
  BY <1>1, <1>2, <1>3
<1> QED
  BY <1>4 DEF checks

LEMMA FourChecks ==
    ASSUME NEW a, NEW x, NEW b, NEW y, NEW c, NEW z, NEW d, NEW w
    PROVE  FirstFailure(<<<<a, x>>, <<b, y>>, <<c, z>>, <<d, w>>>>) =
               IF ~a THEN x ELSE IF ~b THEN y ELSE IF ~c THEN z ELSE IF ~d THEN w ELSE "ok"
<1> DEFINE checks == <<<<a, x>>, <<b, y>>, <<c, z>>, <<d, w>>>>
<1>1. /\ DOMAIN checks = 1..4
      /\ checks[1][2] = x /\ checks[2][2] = y /\ checks[3][2] = z /\ checks[4][2] = w
  OBVIOUS
<1>2. checks[1][1] = a /\ checks[2][1] = b /\ checks[3][1] = c /\ checks[4][1] = d
  OBVIOUS
<1> HIDE DEF checks
<1>3. /\ (\A i \in 1..4 : checks[i][1]) => FirstFailure(checks) = "ok"
      /\ \A n \in 1..4 : ~checks[n][1] /\ (\A i \in 1..4 : i < n => checks[i][1]) =>
            FirstFailure(checks) = checks[n][2]
  BY <1>1, FirstOfTheChecks
<1>4. FirstFailure(checks) =
         IF ~a THEN x ELSE IF ~b THEN y ELSE IF ~c THEN z ELSE IF ~d THEN w ELSE "ok"
  BY <1>1, <1>2, <1>3
<1> QED
  BY <1>4 DEF checks

\* What the source of a verified build looks like.
LEMMA SourceVerified ==
    ASSUME NEW c, NEW at
    PROVE  /\ VerifySource(c, at) \in {"ok", "source_missing", "source_commit_mismatch", "source_dirty"}
           /\ VerifySource(c, at) = "ok" =>
                /\ c.git \in {"pinned", "rotten"} /\ HistoricalBlobs(c, at)
                /\ c.tracked \notin {"dirty", "hidden", "staged"}
                /\ GeneratedPaths(c) \subseteq AllowedPaths(at)
<1> DEFINE checks ==
      <<<<c.git # "none", "source_missing">>,
        <<c.git \in {"pinned", "rotten"}, "source_commit_mismatch">>,
        <<c.tracked # "dirty", "source_dirty">>,
        <<IndexFlags(c), "source_dirty">>,
        <<c.tracked # "staged", "source_commit_mismatch">>,
        <<HistoricalBlobs(c, at), "source_commit_mismatch">>,
        <<GeneratedPaths(c) \subseteq AllowedPaths(at), "source_dirty">>>>
<1>1. VerifySource(c, at) = FirstFailure(checks)
  BY DEF VerifySource
<1>2. DOMAIN checks = 1..7
  OBVIOUS
<1>3. \A i \in 1..7 : checks[i][2] \in {"source_missing", "source_commit_mismatch", "source_dirty"}
  OBVIOUS
<1>4. (\A i \in 1..7 : checks[i][1]) =>
         /\ c.git \in {"pinned", "rotten"} /\ HistoricalBlobs(c, at)
         /\ c.tracked # "dirty" /\ IndexFlags(c) /\ c.tracked # "staged"
         /\ GeneratedPaths(c) \subseteq AllowedPaths(at)
  <2>1. /\ checks[1][1] = (c.git # "none") /\ checks[2][1] = (c.git \in {"pinned", "rotten"})
        /\ checks[3][1] = (c.tracked # "dirty") /\ checks[4][1] = IndexFlags(c)
        /\ checks[5][1] = (c.tracked # "staged") /\ checks[6][1] = HistoricalBlobs(c, at)
        /\ checks[7][1] = (GeneratedPaths(c) \subseteq AllowedPaths(at))
    OBVIOUS
  <2>2. 1 \in 1..7 /\ 2 \in 1..7 /\ 3 \in 1..7 /\ 4 \in 1..7 /\ 5 \in 1..7 /\ 6 \in 1..7 /\ 7 \in 1..7
    OBVIOUS
  <2> HIDE DEF checks
  <2> QED
    BY <2>1, <2>2, Zenon
<1> HIDE DEF checks
<1>5. \/ FirstFailure(checks) = "ok" /\ \A i \in 1..7 : checks[i][1]
      \/ \E i \in 1..7 : ~checks[i][1] /\ FirstFailure(checks) = checks[i][2]
  BY <1>2, FailureOfACheck
<1> QED
  BY <1>1, <1>3, <1>4, <1>5 DEF IndexFlags

\* What is verified before a simulator is started, and a server run is judged.
Matches(c, h, m) ==
    /\ c.git = "pinned" /\ c.tracked = "clean"
    /\ c.dist = m.dist /\ c.modules = m.modules
    /\ c.config = "none" /\ c.index = "none"
    /\ h.node = m.node /\ h.npm = m.npm

Checkouts ==
    [git : {"none", "started", "pinned", "rotten", "other"},
     tracked : {"clean", "dirty", "hidden", "staged"},
     modules : {"none", "lock", "altered", "other"}, dist : SUBSET {"ci", "build", "edit"},
     config : {"none", "example", "controlled", "other"}, index : {"none", "regular", "odd"},
     stray : BOOLEAN]

LEMMA VersionsVerified ==
    ASSUME NEW h, NEW node, NEW npm
    PROVE  /\ VersionFailure(h, {node}, {npm}) \in {"ok", "node_version_not_approved", "npm_version_mismatch"}
           /\ VersionFailure(h, {node}, {npm}) = "ok" => h.node = node /\ h.npm = npm
<1> DEFINE checks ==
      <<<<h.node # "unreadable" /\ h.node \in {node}, "node_version_not_approved">>,
        <<h.npm # "unreadable" /\ h.npm \in {npm}, "npm_version_mismatch">>>>
<1>1. VersionFailure(h, {node}, {npm}) = FirstFailure(checks)
  BY DEF VersionFailure
<1>2. DOMAIN checks = 1..2
  OBVIOUS
<1>3. \A i \in 1..2 : checks[i][2] \in {"node_version_not_approved", "npm_version_mismatch"}
  OBVIOUS
<1>4. /\ checks[1][1] = (h.node # "unreadable" /\ h.node \in {node})
      /\ checks[2][1] = (h.npm # "unreadable" /\ h.npm \in {npm})
  OBVIOUS
<1>5. 1 \in 1..2 /\ 2 \in 1..2
  OBVIOUS
<1> HIDE DEF checks
<1>6. \/ FirstFailure(checks) = "ok" /\ \A i \in 1..2 : checks[i][1]
      \/ \E i \in 1..2 : ~checks[i][1] /\ FirstFailure(checks) = checks[i][2]
  BY <1>2, FailureOfACheck
<1>7. (\A i \in 1..2 : checks[i][1]) => h.node = node /\ h.npm = npm
  BY <1>4, <1>5, Zenon
<1> QED
  BY <1>1, <1>3, <1>6, <1>7

LEMMA BuildVerified ==
    ASSUME NEW c \in Checkouts, NEW h, NEW m
    PROVE  /\ VerifyBuild(c, h, m) # "summary"
           /\ VerifyBuild(c, h, m) = "ok" => Matches(c, h, m)
<1> DEFINE source == VerifySource(c, "verify")
           version == VersionFailure(h, {m.node}, {m.npm})
           platform == PlatformFailure(h, {m.platform})
           checks ==
      <<<<m.source = "pinned", "source_commit_mismatch">>,
        <<source = "ok", source>>,
        <<version = "ok", version>>,
        <<platform = "ok", "build_failed">>,
        <<InstalledTree(c), "lockfile_mismatch">>,
        <<DependencyRecords(c) = m.modules, "build_output_missing">>,
        <<DistRecords(c) = m.dist /\ c.dist # {}, "build_output_missing">>,
        <<Ruleset(c) = m.ruleset, "build_output_missing">>>>
<1>1. VerifyBuild(c, h, m) = FirstFailure(checks)
  BY DEF VerifyBuild
<1> HIDE DEF source, version, platform
<1>2. DOMAIN checks = 1..8
  OBVIOUS
<1>3. source # "summary" /\ version # "summary"
  BY SourceVerified, VersionsVerified DEF source, version
<1>4. \A i \in 1..8 : checks[i][2] # "summary"
  BY <1>3
<1>11. /\ checks[2][2] = source /\ checks[3][2] = version
       /\ \A i \in 1..8 : i \notin {2, 3} => checks[i][2] # "ok"
  OBVIOUS
<1>5. /\ checks[2][1] = (source = "ok") /\ checks[3][1] = (version = "ok")
      /\ checks[6][1] = (DependencyRecords(c) = m.modules)
      /\ checks[7][1] = (DistRecords(c) = m.dist /\ c.dist # {})
  OBVIOUS
<1>6. 2 \in 1..8 /\ 3 \in 1..8 /\ 6 \in 1..8 /\ 7 \in 1..8
  OBVIOUS
<1> HIDE DEF checks
<1>7. \/ FirstFailure(checks) = "ok" /\ \A i \in 1..8 : checks[i][1]
      \/ \E i \in 1..8 : ~checks[i][1] /\ FirstFailure(checks) = checks[i][2]
  BY <1>2, FailureOfACheck
<1>12. \A i \in 1..8 : ~checks[i][1] => checks[i][2] # "ok"
  BY <1>5, <1>11, Zenon
<1>13. FirstFailure(checks) = "ok" => \A i \in 1..8 : checks[i][1]
  BY <1>7, <1>12, Zenon
<1>8. (\A i \in 1..8 : checks[i][1]) =>
         /\ source = "ok" /\ version = "ok" /\ DependencyRecords(c) = m.modules
         /\ DistRecords(c) = m.dist
  BY <1>5, <1>6, Zenon
<1>9. source = "ok" => /\ c.git = "pinned" /\ c.tracked = "clean"
                       /\ c.config = "none" /\ c.index = "none"
  <2>1. ASSUME source = "ok"
        PROVE  /\ c.git \in {"pinned", "rotten"} /\ HistoricalBlobs(c, "verify")
               /\ c.tracked \notin {"dirty", "hidden", "staged"}
               /\ GeneratedPaths(c) \subseteq AllowedPaths("verify")
    BY <2>1, SourceVerified DEF source
  <2>2. AllowedPaths("verify") = {"node_modules", "dist"}
    BY DEF AllowedPaths
  <2>3. c.config # "none" => "config" \in GeneratedPaths(c)
    BY DEF GeneratedPaths
  <2>4. c.index # "none" => "index" \in GeneratedPaths(c)
    BY DEF GeneratedPaths
  <2>5. "config" \notin {"node_modules", "dist"} /\ "index" \notin {"node_modules", "dist"}
    OBVIOUS
  <2>6. c.tracked \in {"clean", "dirty", "hidden", "staged"}
    BY DEF Checkouts
  <2> QED
    BY <2>1, <2>2, <2>3, <2>4, <2>5, <2>6 DEF HistoricalBlobs
<1>10. version = "ok" => h.node = m.node /\ h.npm = m.npm
  BY VersionsVerified DEF version
<1> QED
  BY <1>1, <1>4, <1>7, <1>8, <1>9, <1>10, <1>13 DEF Matches, DependencyRecords, DistRecords

LEMMA SealFails ==
    ASSUME NEW c, NEW h
    PROVE  /\ SealFailure(c, h) # "summary"
           /\ SealFailure(c, h) = "ok" => c.dist # {}
<1> DEFINE config == GeneratedConfigFailure(c)
           source == VerifySource(WithoutGeneratedConfig(c), "post_build")
           output == DependencyRecords(c) # "none" /\ DistRecords(c) # {}
           platform == PlatformFailure(h, SupportedPlatforms) = "ok"
           ours == config = "ok"
           clean == source = "ok"
           failure == FirstFailure(<<<<ours, config>>, <<clean, source>>,
                                     <<output, "build_output_missing">>,
                                     <<platform, "build_failed">>>>)
<1>1. SealFailure(c, h) = failure
  BY DEF SealFailure
<1>2. config \in {"ok", "source_dirty"}
  BY DEF GeneratedConfigFailure
<1>3. source \in {"ok", "source_missing", "source_commit_mismatch", "source_dirty"}
  BY SourceVerified
<1>4. output => c.dist # {}
  BY DEF DistRecords
<1> HIDE DEF config, source, ours, clean, output, platform
<1>5. failure =
        IF ~ours THEN config
        ELSE IF ~clean THEN source
        ELSE IF ~output THEN "build_output_missing"
        ELSE IF ~platform THEN "build_failed" ELSE "ok"
  BY FourChecks
<1> QED
  BY <1>1, <1>2, <1>3, <1>4, <1>5 DEF ours, clean

LEMMA AfterCiFails ==
    ASSUME NEW c
    PROVE  /\ AfterCiFailure(c) # "summary"
           /\ AfterCiFailure(c) = "ok" => InstalledTree(c)
<1> DEFINE config == GeneratedConfigFailure(c)
           source == VerifySource(WithoutGeneratedConfig(c), "post_npm")
           ours == config = "ok"
           clean == source = "ok"
           tree == InstalledTree(c)
           failure == FirstFailure(<<<<ours, config>>, <<clean, source>>,
                                     <<tree, "lockfile_mismatch">>>>)
<1>1. AfterCiFailure(c) = failure
  BY DEF AfterCiFailure
<1>2. config \in {"ok", "source_dirty"}
  BY DEF GeneratedConfigFailure
<1>3. source \in {"ok", "source_missing", "source_commit_mismatch", "source_dirty"}
  BY SourceVerified
<1> HIDE DEF config, source, ours, clean, tree
<1>4. failure =
        IF ~ours THEN config
        ELSE IF ~clean THEN source
        ELSE IF ~tree THEN "lockfile_mismatch" ELSE "ok"
  BY ThreeChecks
<1> QED
  BY <1>1, <1>2, <1>3, <1>4 DEF ours, clean, tree

LEMMA PreconditionsFail ==
    ASSUME NEW c, NEW h, NEW role
    PROVE  BuildPreconditions(c, h, role) # "summary"
<1> DEFINE source == VerifySource(c, "acquisition")
           version == VersionFailure(h, {h.node}, {h.npm})
<1> DEFINE clean == source = "ok"
           known == version = "ok"
           approved == <<role, h.node, h.npm>> \in ApprovedVersions
           failure == FirstFailure(<<<<clean, source>>, <<known, version>>,
                                     <<approved, "node_version_not_approved">>>>)
<1>1. BuildPreconditions(c, h, role) = failure
  BY DEF BuildPreconditions
<1>2. source # "summary" /\ version # "summary"
  BY SourceVerified, VersionsVerified
<1> HIDE DEF source, version, clean, known, approved
<1>3. failure =
        IF ~clean THEN source
        ELSE IF ~known THEN version
        ELSE IF ~approved THEN "node_version_not_approved"
        ELSE "ok"
  BY ThreeChecks
<1> QED
  BY <1>1, <1>2, <1>3 DEF clean, known

-----------------------------------------------------------------------------
(***************************************************************************)
(* The result of a run is accepted: the requests that its transcript keeps *)
(* and its identities correspond, one to one and in order.  By induction   *)
(* over the messages, for the set of the numbers for which it holds.       *)
(***************************************************************************)
LEMMA Induction ==
    ASSUME NEW T, NEW N \in Nat, 0 \in T, \A n \in 0..N : n \in T /\ n < N => n + 1 \in T
    PROVE  0..N \subseteq T
<1> DEFINE B == {n \in 0..N : n \notin T}
<1>1. SUFFICES ASSUME B # {} PROVE FALSE
  OBVIOUS
<1>2. PICK n \in B : \A m \in B : n <= m
  BY <1>1, Least, B \subseteq Nat
<1>3. n \in 0..N /\ n # 0 /\ n \notin T
  OBVIOUS
<1>4. n - 1 \in 0..N /\ n - 1 \notin B
  BY <1>2, <1>3
<1> QED
  BY <1>3, <1>4

Picked(g, s, kind, i) ==
    IF i = 0 THEN << >>
    ELSE IF s[i].kind = kind THEN Append(g[i - 1], s[i]) ELSE g[i - 1]
IsPicked(g, s, kind) == g = [i \in 0..Len(s) |-> Picked(g, s, kind, i)]
Picks(g, s, kind) == g[0] = << >> /\ \A i \in 1..Len(s) : g[i] = Picked(g, s, kind, i)

LEMMA OfKindDef ==
    ASSUME NEW s, NEW kind
    PROVE  OfKind(s, kind) = (CHOOSE g : IsPicked(g, s, kind))[Len(s)]
BY DEF OfKind, IsPicked, Picked

LEMMA PickedExists ==
    ASSUME NEW S, NEW s \in Seq(S), NEW kind
    PROVE  \E g : IsPicked(g, s, kind)
<1> DEFINE N == Len(s)
           UpTo(g, n) == g = [i \in 0..n |-> Picked(g, s, kind, i)]
           T == {n \in 0..N : \E g : UpTo(g, n)}
<1>0. N \in Nat
  OBVIOUS
<1>1. 0 \in T
  <2> DEFINE g == [i \in 0..0 |-> << >>]
  <2>1. UpTo(g, 0)
    BY DEF Picked
  <2> QED
    BY <2>1, <1>0
<1>2. ASSUME NEW n \in 0..N, n \in T, n < N
      PROVE  n + 1 \in T
  <2>1. PICK g : UpTo(g, n)
    BY <1>2
  <2> DEFINE h == [i \in 0..(n + 1) |-> IF i <= n THEN g[i] ELSE Picked(g, s, kind, n + 1)]
  <2>2. ASSUME NEW i \in 0..(n + 1) PROVE h[i] = Picked(h, s, kind, i)
    <3>1. i > 0 => i - 1 \in 0..(n + 1) /\ i - 1 <= n
      BY <1>0
    <3>2. i > 0 => h[i - 1] = g[i - 1]
      BY <3>1
    <3>3. Picked(h, s, kind, i) = Picked(g, s, kind, i)
      BY <3>2 DEF Picked
    <3>4. i <= n => g[i] = Picked(g, s, kind, i)
      BY <2>1, <1>0
    <3> QED
      BY <3>3, <3>4, <1>0
  <2>3. UpTo(h, n + 1)
    BY <2>2
  <2>4. n + 1 \in 0..N
    BY <1>0, <1>2
  <2> QED
    BY <2>3, <2>4
<1>3. 0..N \subseteq T
  <2> HIDE DEF T, N
  <2> QED
    BY <1>0, <1>1, <1>2, Induction
<1>4. N \in T
  BY <1>0, <1>3
<1> QED
  BY <1>4 DEF IsPicked

LEMMA OfKindFact ==
    ASSUME NEW S, NEW s \in Seq(S), NEW kind
    PROVE  \E g : OfKind(s, kind) = g[Len(s)] /\ Picks(g, s, kind)
<1> DEFINE g == CHOOSE f : IsPicked(f, s, kind)
<1>1. IsPicked(g, s, kind)
  BY PickedExists
<1>2. OfKind(s, kind) = g[Len(s)]
  BY OfKindDef
<1> HIDE DEF g
<1>3. Len(s) \in Nat
  OBVIOUS
<1>4. \A i \in 0..Len(s) : g[i] = Picked(g, s, kind, i)
  BY <1>1 DEF IsPicked
<1>5. Picks(g, s, kind)
  BY <1>3, <1>4 DEF Picks, Picked
<1> QED
  BY <1>2, <1>5

\* A kept request and a request correspond.
Corresponds(kept, request) == kept.side = request.side /\ kept.request = request.body
CorrespondAll(U, S, q, r) ==
    /\ q \in Seq(U) /\ r \in Seq(S) /\ Len(q) = Len(r)
    /\ \A i \in 1..Len(r) : Corresponds(q[i], r[i])

LEMMA OneMore ==
    ASSUME NEW U, NEW S, NEW q, NEW r, CorrespondAll(U, S, q, r),
           NEW k \in U, NEW m \in S, Corresponds(k, m)
    PROVE  CorrespondAll(U, S, Append(q, k), Append(r, m))
<1>1. q \in Seq(U) /\ r \in Seq(S) /\ Len(q) = Len(r)
  BY DEF CorrespondAll
<1>2. /\ Append(q, k) \in Seq(U) /\ Len(Append(q, k)) = Len(q) + 1
      /\ Append(q, k)[Len(q) + 1] = k /\ \A i \in 1..Len(q) : Append(q, k)[i] = q[i]
  BY <1>1
<1>3. /\ Append(r, m) \in Seq(S) /\ Len(Append(r, m)) = Len(r) + 1
      /\ Append(r, m)[Len(r) + 1] = m /\ \A i \in 1..Len(r) : Append(r, m)[i] = r[i]
  BY <1>1
<1>4. Len(r) \in Nat
  BY <1>1
<1>5. ASSUME NEW i \in 1..(Len(r) + 1) PROVE Corresponds(Append(q, k)[i], Append(r, m)[i])
  <2>1. CASE i = Len(r) + 1
    BY <1>1, <1>2, <1>3, <2>1
  <2>2. CASE i # Len(r) + 1
    <3>1. i \in 1..Len(r)
      BY <1>4, <2>2
    <3>2. Append(q, k)[i] = q[i] /\ Append(r, m)[i] = r[i]
      BY <1>1, <1>2, <1>3, <3>1
    <3> QED
      BY <3>1, <3>2 DEF CorrespondAll
  <2> QED
    BY <2>1, <2>2
<1> QED
  BY <1>1, <1>2, <1>3, <1>5 DEF CorrespondAll

\* A message and what the transcript keeps of it.
Kept(entry, message) ==
    /\ entry.kind = "side_request" <=> message.kind = "request"
    /\ message.kind = "request" => Corresponds(entry, message)

LEMMA TranscriptSteps ==
    ASSUME NEW S, NEW s \in Seq(S), \A m \in S : m.kind # "side_request"
    PROVE  /\ \E U : TranscriptDocument(s) \in Seq(U)
           /\ Len(TranscriptDocument(s)) = Len(s)
           /\ \A i \in 1..Len(s) : Kept(TranscriptDocument(s)[i], s[i])
<1> DEFINE kept == TranscriptDocument(s)
           Entry(i) == IF s[i].kind # "request" THEN s[i]
                       ELSE [kind |-> "side_request", side |-> s[i].side, request |-> s[i].body]
           U == {Entry(i) : i \in 1..Len(s)}
<1>1. DOMAIN s = 1..Len(s) /\ Len(s) \in Nat
  OBVIOUS
<1>2. kept = [i \in 1..Len(s) |-> Entry(i)]
  BY <1>1 DEF TranscriptDocument
<1>3. kept \in [1..Len(s) -> U]
  BY <1>2
<1>4. kept \in Seq(U) /\ Len(kept) = Len(s)
  <2> HIDE DEF kept, U
  <2> QED
    BY <1>1, <1>3
<1>5. ASSUME NEW i \in 1..Len(s) PROVE Kept(kept[i], s[i])
  <2>1. kept[i] = Entry(i)
    BY <1>2
  <2>2. s[i] \in S
    OBVIOUS
  <2>3. CASE s[i].kind = "request"
    <3>1. kept[i] = [kind |-> "side_request", side |-> s[i].side, request |-> s[i].body]
      BY <2>1, <2>3
    <3> HIDE DEF kept
    <3> QED
      BY <2>3, <3>1 DEF Corresponds, Kept
  <2>4. CASE s[i].kind # "request"
    <3>1. kept[i] = s[i]
      BY <2>1, <2>4
    <3> HIDE DEF kept
    <3> QED
      BY <2>2, <2>4, <3>1 DEF Kept
  <2> QED
    BY <2>3, <2>4
<1> HIDE DEF kept
<1> QED
  BY <1>4, <1>5 DEF kept

LEMMA RequestsCorrespond ==
    ASSUME NEW S, NEW s \in Seq(S), \A m \in S : m.kind # "side_request"
    PROVE  \E U : CorrespondAll(U, S, OfKind(TranscriptDocument(s), "side_request"),
                                  OfKind(s, "request"))
<1> DEFINE kept == TranscriptDocument(s)
           N == Len(s)
<1>1. /\ \E U : kept \in Seq(U)
      /\ Len(kept) = N
      /\ \A i \in 1..N : Kept(kept[i], s[i])
  BY TranscriptSteps
<1> HIDE DEF kept
<1>2. PICK U : kept \in Seq(U)
  BY <1>1
<1>3. PICK f : OfKind(kept, "side_request") = f[Len(kept)] /\ Picks(f, kept, "side_request")
  BY <1>2, OfKindFact
<1>4. PICK g : OfKind(s, "request") = g[Len(s)] /\ Picks(g, s, "request")
  BY OfKindFact
<1> DEFINE T == {n \in 0..N : CorrespondAll(U, S, f[n], g[n])}
<1>5. N \in Nat
  OBVIOUS
<1>6. 0 \in T
  <2>1. f[0] = << >> /\ g[0] = << >>
    BY <1>3, <1>4 DEF Picks
  <2>2. CorrespondAll(U, S, << >>, << >>)
    BY DEF CorrespondAll
  <2> QED
    BY <1>5, <2>1, <2>2
<1>7. ASSUME NEW n \in 0..N, n \in T, n < N
      PROVE  n + 1 \in T
  <2>1. /\ n + 1 \in 1..N /\ n + 1 \in 0..N /\ n + 1 # 0 /\ (n + 1) - 1 = n
        /\ CorrespondAll(U, S, f[n], g[n])
    BY <1>5, <1>7
  <2>2. s[n + 1] \in S /\ kept[n + 1] \in U
    BY <1>1, <1>2, <2>1
  <2>3. /\ f[n + 1] = Picked(f, kept, "side_request", n + 1)
        /\ g[n + 1] = Picked(g, s, "request", n + 1)
    BY <1>1, <1>3, <1>4, <2>1 DEF Picks
  <2>4. (kept[n + 1].kind = "side_request" <=> s[n + 1].kind = "request")
        /\ (s[n + 1].kind = "request" => Corresponds(kept[n + 1], s[n + 1]))
    BY <1>1, <2>1 DEF Kept
  <2>5. CASE s[n + 1].kind = "request"
    <3>1. f[n + 1] = Append(f[n], kept[n + 1]) /\ g[n + 1] = Append(g[n], s[n + 1])
      BY <2>1, <2>3, <2>4, <2>5 DEF Picked
    <3>2. Corresponds(kept[n + 1], s[n + 1])
      BY <2>4, <2>5
    <3>3. CorrespondAll(U, S, f[n + 1], g[n + 1])
      BY <2>1, <2>2, <3>1, <3>2, OneMore
    <3> QED
      BY <2>1, <3>3
  <2>6. CASE s[n + 1].kind # "request"
    <3>1. f[n + 1] = f[n] /\ g[n + 1] = g[n]
      BY <2>1, <2>3, <2>4, <2>6 DEF Picked
    <3> QED
      BY <2>1, <3>1
  <2> QED
    BY <2>5, <2>6
<1>8. N \in T
  <2>1. 0..N \subseteq T
    <3> HIDE DEF T, N
    <3> QED
      BY <1>5, <1>6, <1>7, Induction
  <2> QED
    BY <1>5, <2>1
<1>9. CorrespondAll(U, S, f[N], g[N])
  BY <1>8
<1> QED
  BY <1>1, <1>3, <1>4, <1>9 DEF kept

\* What a run of the process may be, an unstarted one included.
RunSeen(run) ==
    LET said == {run.messages[i] : i \in DOMAIN run.messages}
    IN  /\ run.error # "summary"
        /\ run.messages \in Seq(said)
        /\ \A m \in said : m.kind \in {"update", "request", "side_error", "end"}

LEMMA RunsAreSeen ==
    /\ \A run \in ProcessRuns : RunSeen(run)
    /\ \A class : class # "summary" => RunSeen(Unstarted(class))
<1>1. \A run \in ProcessRuns : RunSeen(run)
  BY RunsAssumption DEF RunSeen
<1>2. ASSUME NEW class, class # "summary" PROVE RunSeen(Unstarted(class))
  <2> DEFINE run == Unstarted(class)
  <2>1. run.error = class /\ run.messages = << >>
    BY DEF Unstarted
  <2> HIDE DEF run
  <2>2. {run.messages[i] : i \in DOMAIN run.messages} = {}
    BY <2>1
  <2>3. RunSeen(run)
    BY <1>2, <2>1, <2>2 DEF RunSeen
  <2> QED
    BY <2>3 DEF run
<1> QED
  BY <1>1, <1>2

LEMMA ResultsAreAccepted ==
    ASSUME NEW fixture, NEW m, NEW run, RunSeen(run)
    PROVE  ResultAccepted(ResultOf(fixture, m, run))
<1> DEFINE messages == IF run.error = "none" THEN run.messages ELSE << >>
           all == {run.messages[i] : i \in DOMAIN run.messages}
           asked == OfKind(messages, "request")
           kept == OfKind(TranscriptDocument(messages), "side_request")
           outcomeOf == ResultOf(fixture, m, run)
<1>1. messages \in Seq(all) /\ \A x \in all : x.kind # "side_request"
  <2>1. run.messages \in Seq(all)
        /\ \A x \in all : x.kind \in {"update", "request", "side_error", "end"}
    BY DEF RunSeen
  <2> HIDE DEF all
  <2> QED
    BY <2>1
<1>2. /\ outcomeOf.fixture = fixture.id
      /\ outcomeOf.transcript = TranscriptDocument(messages)
      /\ outcomeOf.identities = Identities(fixture, messages)
  BY DEF ResultOf
<1> HIDE DEF messages, all, outcomeOf
<1>3. PICK U : CorrespondAll(U, all, kept, asked)
  BY <1>1, RequestsCorrespond
<1> HIDE DEF kept
<1>4. DOMAIN asked = 1..Len(asked) /\ DOMAIN kept = 1..Len(kept) /\ Len(kept) = Len(asked)
      /\ Len(asked) \in Nat
  BY <1>3 DEF CorrespondAll
<1>5. Identities(fixture, messages) =
        [i \in 1..Len(asked) |->
            [fixture |-> fixture.id, sequence |-> i - 1, side |-> asked[i].side,
             request |-> asked[i].body]]
  BY <1>4 DEF Identities
<1> HIDE DEF asked
<1>6. Len(Identities(fixture, messages)) = Len(kept)
  BY <1>4, <1>5
<1>7. ASSUME NEW i \in DOMAIN kept
      PROVE  LET identity == outcomeOf.identities[i]
             IN  /\ identity.sequence = i - 1 /\ identity.fixture = outcomeOf.fixture
                 /\ identity.side = kept[i].side /\ identity.request = kept[i].request
  <2>1. i \in 1..Len(asked) /\ Corresponds(kept[i], asked[i])
    BY <1>3, <1>4 DEF CorrespondAll
  <2> QED
    BY <1>2, <1>5, <2>1 DEF Corresponds
<1> QED
  BY <1>2, <1>6, <1>7 DEF ResultAccepted, kept, outcomeOf
-----------------------------------------------------------------------------
(***************************************************************************)
(* The server run.  A run without an error knows that the server and its   *)
(* descendants are gone by the time it gathers the drains, and by then     *)
(* nobody is left to write to the checkout.                                *)
(***************************************************************************)
Phases ==
    {"off", "starting", "waiting", "closing", "leaving", "asking", "yielding", "killing",
     "reaping", "verifying", "containing", "reverifying", "gathering", "ended"}

ServerTypes ==
    /\ checkout \in Checkouts /\ phase \in Phases /\ kin \in BOOLEAN
    /\ watcher \in {"none", "watching", "done", "failed"}
    /\ pending # None => pending \notin {"ok", "result", "summary"}

ServerKnown ==
    /\ watcher = "done" => server \in Exited
    /\ phase \in {"off", "starting"} => watcher = "none"
    /\ phase = "waiting" => watcher # "none"
    /\ phase \in {"verifying", "containing", "reverifying"} => watcher = "done"
    /\ phase = "gathering" /\ pending = None => watcher = "done" /\ ~kin

RunJudged ==
    /\ phase # "ended" => result = None
    /\ phase = "ended" => result \notin {"ok", "summary"}
    /\ result = "result" => errDrain # "reading"
    /\ ServerLeavesNothing

ServerInv == ServerTypes /\ ServerKnown /\ RunJudged

\* run has not ended, or its end is of no interest.
LEMMA NoResult ==
    ASSUME RunJudged, result' # "result", result' \notin {"ok", "summary"} \/ phase' # "ended",
           phase' # "ended" => result' = None
    PROVE  RunJudged'
BY DEF RunJudged, ServerLeavesNothing

LEMMA WhileRunning ==
    ASSUME RunJudged, phase # "ended", phase' # "ended", result' = result
    PROVE  RunJudged'
BY NoClassAssumption DEF RunJudged, ServerLeavesNothing

LEMMA OutsideServer ==
    ASSUME ServerInv, Outside
    PROVE  ServerInv'
<1>1. /\ phase' = phase /\ pending' = pending /\ result' = result
  BY DEF Outside, ServerExits, KinChanges, ServerWrites, WatcherReturns, DrainStdout, DrainStderr,
         serverVars, tasks
<1>2. ServerTypes /\ ServerKnown /\ RunJudged
  BY DEF ServerInv
<1>3. CASE ServerExits
  <2>1. /\ server = "running" /\ server' \in Exited
        /\ UNCHANGED <<checkout, kin, watcher, errDrain, read>>
    BY <1>3 DEF ServerExits, tasks
  <2>2. watcher # "done"
    BY <1>2, <2>1 DEF ServerKnown, Exited
  <2>3. result # "result"
    BY <1>2, <2>1 DEF RunJudged, ServerLeavesNothing, Alive
  <2> QED
    BY <1>1, <1>2, <2>1, <2>2, <2>3
       DEF ServerInv, ServerTypes, ServerKnown, RunJudged, ServerLeavesNothing
<1>4. CASE KinChanges
  <2>1. /\ Alive /\ kin' = ~kin /\ UNCHANGED <<checkout, server, watcher, errDrain, read>>
    BY <1>4 DEF KinChanges, tasks
  <2>2. result # "result"
    BY <1>2, <2>1 DEF RunJudged, ServerLeavesNothing
  <2>3. ~(phase = "gathering" /\ pending = None)
    BY <1>2, <2>1 DEF ServerKnown, Alive, Exited
  <2>4. kin' \in BOOLEAN
    BY <2>1
  <2> QED
    BY <1>1, <1>2, <2>1, <2>2, <2>3, <2>4
       DEF ServerInv, ServerTypes, ServerKnown, RunJudged, ServerLeavesNothing
<1>5. CASE ServerWrites
  <2>1. /\ Alive /\ UNCHANGED <<kin, server, watcher, errDrain, read>>
        /\ checkout' \in {[checkout EXCEPT !.index = "regular"], [checkout EXCEPT !.index = "odd"],
                          [checkout EXCEPT !.config = "other"], [checkout EXCEPT !.stray = TRUE]}
    BY <1>5 DEF ServerWrites, serverVars, tasks, externals
  <2>2. result # "result"
    BY <1>2, <2>1 DEF RunJudged, ServerLeavesNothing
  <2>3. checkout' \in Checkouts
    BY <1>2, <2>1 DEF ServerTypes, Checkouts
  <2> QED
    BY <1>1, <1>2, <2>1, <2>2, <2>3
       DEF ServerInv, ServerTypes, ServerKnown, RunJudged, ServerLeavesNothing
<1>6. CASE WatcherReturns
  <2>1. /\ watcher = "watching" /\ UNCHANGED <<checkout, kin, server, errDrain, read>>
        /\ watcher' \in {"failed", "done"} /\ (watcher' = "done" => server \in Exited)
    BY <1>6 DEF WatcherReturns, externals
  <2> QED
    BY <1>1, <1>2, <2>1
       DEF ServerInv, ServerTypes, ServerKnown, RunJudged, ServerLeavesNothing, Alive
<1>7. CASE DrainStdout
  <2>1. UNCHANGED <<checkout, kin, server, watcher, errDrain, read>>
    BY <1>7 DEF DrainStdout, externals
  <2> QED
    BY <1>1, <1>2, <2>1
       DEF ServerInv, ServerTypes, ServerKnown, RunJudged, ServerLeavesNothing, Alive
<1>8. CASE DrainStderr
  <2>1. /\ errDrain = "reading" /\ UNCHANGED <<checkout, kin, server, watcher>>
    BY <1>8 DEF DrainStderr, externals
  <2>2. result # "result"
    BY <1>2, <2>1 DEF RunJudged
  <2> QED
    BY <1>1, <1>2, <2>1, <2>2
       DEF ServerInv, ServerTypes, ServerKnown, RunJudged, ServerLeavesNothing, Alive
<1> QED
  BY <1>3, <1>4, <1>5, <1>6, <1>7, <1>8 DEF Outside

LEMMA CleanedCheckout ==
    ASSUME NEW c \in Checkouts
    PROVE  LET d == [c EXCEPT !.config = IF @ = "controlled" THEN "none" ELSE @,
                              !.index = IF @ = "regular" THEN "none" ELSE @]
           IN  /\ d \in Checkouts
               /\ c.config = "controlled" /\ c.index # "odd" => d.config = "none" /\ d.index = "none"
BY DEF Checkouts

\* The end of run: a result only if there is no error and nothing is left.
LEMMA ConcludeInv ==
    ASSUME ServerInv, phase # "ended", NEW error, NEW cancelled \in BOOLEAN,
           Conclude(error, cancelled), UNCHANGED <<kin, watcher, read>>,
           error # None => error \notin {"ok", "result", "summary"},
           error = None /\ ~cancelled => watcher = "done" /\ ~kin /\ server' = server,
           watcher = "done" => server' = server
    PROVE  ServerInv'
<1>1. ServerTypes /\ ServerKnown /\ RunJudged
  BY DEF ServerInv
<1>2. /\ phase' = "ended" /\ checkout' = Cleaned /\ errDrain' # "reading"
      /\ result' = Verdict(pending', cancelled)
      /\ pending' = IF checkout.config = "controlled" /\ checkout.index # "odd" THEN error
                    ELSE OrElse(error, "source_dirty")
  BY DEF Conclude, CancelDrain
<1>3. /\ checkout' \in Checkouts
      /\ checkout.config = "controlled" /\ checkout.index # "odd" =>
            checkout'.config = "none" /\ checkout'.index = "none"
  BY <1>1, <1>2, CleanedCheckout DEF Cleaned, ServerTypes
<1>4. /\ pending' # None => pending' \notin {"ok", "result", "summary"}
      /\ error # None => pending' # None
      /\ pending' = None => checkout.config = "controlled" /\ checkout.index # "odd"
  BY <1>2, NoClassAssumption DEF OrElse
<1>5. result' \notin {"ok", "summary"}
  BY <1>2, <1>4 DEF Verdict
<1>6. result' = "result" =>
        /\ "ready" \in read /\ "network" \notin read
        /\ pending' = None /\ ~cancelled
  BY <1>2, <1>4 DEF Verdict
<1>7. RunJudged'
  <2>1. CASE result' = "result"
    <3>1. /\ watcher = "done" /\ ~kin /\ server' = server
          /\ checkout'.config = "none" /\ checkout'.index = "none"
      BY <1>3, <1>4, <1>6, <2>1
    <3>2. server \in Exited
      BY <1>1, <3>1 DEF ServerKnown
    <3> QED
      BY <1>2, <1>5, <1>6, <2>1, <3>1, <3>2
         DEF RunJudged, ServerLeavesNothing, Alive, Exited
  <2>2. CASE result' # "result"
    BY <1>2, <1>5, <2>2 DEF RunJudged, ServerLeavesNothing
  <2> QED
    BY <2>1, <2>2
<1>8. ServerTypes'
  BY <1>1, <1>2, <1>3, <1>4 DEF ServerTypes, Phases
<1>9. ServerKnown'
  BY <1>1, <1>2 DEF ServerKnown
<1> QED
  BY <1>7, <1>8, <1>9 DEF ServerInv

\* The steps of run in which it goes on.
LEMMA GoesOn ==
    ASSUME ServerInv, phase # "ended", phase' # "ended",
           UNCHANGED <<kin, result>>, checkout' \in Checkouts,
           ServerTypes', ServerKnown'
    PROVE  ServerInv'
BY WhileRunning DEF ServerInv

LEMMA StartsInv ==
    ASSUME ServerInv, StartFails \/ Start \/ LaunchFails \/ LaunchReturns
    PROVE  ServerInv'
<1>1. ServerTypes /\ ServerKnown /\ RunJudged
  BY DEF ServerInv
<1>2. CASE StartFails
  <2>1. /\ phase = "off" /\ phase' = "ended" /\ pending' = result'
        /\ result' \in {"source_dirty", "process_crash"}
        /\ checkout' \in {checkout, [checkout EXCEPT !.config = "other"]}
        /\ UNCHANGED <<server, kin, watcher>>
    BY <1>2 DEF StartFails, externals, tasks
  <2>2. checkout' \in Checkouts
    BY <1>1, <2>1 DEF ServerTypes, Checkouts
  <2> QED
    BY <1>1, <2>1, <2>2
       DEF ServerInv, ServerTypes, ServerKnown, RunJudged, ServerLeavesNothing, Phases
<1>3. CASE Start
  <2>1. /\ phase = "off" /\ phase' = "starting"
        /\ checkout' = [checkout EXCEPT !.config = "controlled"]
        /\ UNCHANGED <<server, kin, watcher, pending, result>>
    BY <1>3 DEF Start, externals, tasks
  <2>2. checkout' \in Checkouts
    BY <1>1, <2>1 DEF ServerTypes, Checkouts
  <2>3. ServerTypes' /\ ServerKnown'
    BY <1>1, <2>1, <2>2 DEF ServerTypes, ServerKnown, Phases
  <2> QED
    BY <2>1, <2>2, <2>3, GoesOn
<1>4. CASE LaunchFails
  <2>1. PICK class \in {"node_not_found", "start_timeout", "process_crash"} : Conclude(class, FALSE)
    BY <1>4 DEF LaunchFails
  <2>2. phase # "ended" /\ UNCHANGED <<server, kin, watcher, read>>
    BY <1>4 DEF LaunchFails, externals
  <2> QED
    BY <2>1, <2>2, ConcludeInv, NoClassAssumption
<1>5. CASE LaunchReturns
  <2>1. phase = "starting" /\ UNCHANGED <<kin, read>>
    BY <1>5 DEF LaunchReturns
  <2>2. CASE phase' = "waiting"
    <3>1. /\ watcher' = "watching" /\ UNCHANGED <<checkout, pending, result>>
      BY <1>5, <2>2 DEF LaunchReturns, Conclude
    <3>2. ServerTypes' /\ ServerKnown'
      BY <1>1, <2>1, <2>2, <3>1 DEF ServerTypes, ServerKnown, Phases
    <3> QED
      BY <1>1, <2>1, <2>2, <3>1, <3>2, GoesOn DEF ServerTypes
  <2>3. CASE phase' # "waiting"
    <3>1. Conclude("protocol_desynchronization", FALSE) /\ UNCHANGED watcher
      BY <1>5, <2>3 DEF LaunchReturns
    <3>2. watcher # "done"
      BY <1>1, <2>1 DEF ServerKnown
    <3> QED
      BY <2>1, <3>1, <3>2, ConcludeInv, NoClassAssumption
  <2> QED
    BY <2>2, <2>3
<1> QED
  BY <1>2, <1>3, <1>4, <1>5

LEMMA ReadinessInv ==
    ASSUME ServerInv, WakeUp \/ ReadinessTimeout
    PROVE  ServerInv'
<1>1. ServerTypes /\ ServerKnown /\ RunJudged
  BY DEF ServerInv
<1>2. /\ phase = "waiting" /\ UNCHANGED <<checkout, server, kin, watcher, result>>
  BY DEF WakeUp, ReadinessTimeout, waitFrame, externals
<1>3. phase' \in {"waiting", "closing"}
  BY DEF WakeUp, ReadinessTimeout, CheckReady
<1>4. pending' # None => pending' \notin {"ok", "result", "summary"}
  <2>1. CASE WakeUp
    <3>1. EarlyExit # None => EarlyExit \in {"process_crash", "unexpected_exit_code"}
      BY <1>1, <1>2 DEF EarlyExit, ServerTypes, ServerKnown
    <3>2. ReaderFailure # None => ReaderFailure \in StreamErrors
      BY DEF ReaderFailure
    <3>3. pending' \in {"external_network_attempt", None, ReaderFailure, EarlyExit}
      BY <2>1 DEF WakeUp, CheckReady
    <3> QED
      BY <3>1, <3>2, <3>3, StreamErrorsAssumption
  <2>2. CASE ReadinessTimeout
    BY <2>2 DEF ReadinessTimeout
  <2> QED
    BY <2>1, <2>2
<1>5. ServerTypes' /\ ServerKnown'
  BY <1>1, <1>2, <1>3, <1>4 DEF ServerTypes, ServerKnown, Phases
<1> QED
  BY <1>1, <1>2, <1>3, <1>5, GoesOn DEF ServerTypes

LEMMA ShutdownInv ==
    ASSUME ServerInv, StdinClosed \/ ExitSeen \/ ExitDeadline \/ Terminate \/ Verify
    PROVE  ServerInv'
<1>1. ServerTypes /\ ServerKnown /\ RunJudged
  BY DEF ServerInv
<1>2. UNCHANGED <<checkout, server, kin, watcher, result>>
  BY DEF StdinClosed, ExitSeen, ExitDeadline, Terminate, Verify, shutdownFrame, externals, tasks
<1>3. phase \notin {"off", "starting", "waiting", "ended"}
  BY DEF StdinClosed, ExitSeen, ExitDeadline, Terminate, Verify
<1>4. ASSUME NEW error \in {"shutdown_failed", "orphaned_child_process"}, ShutdownRaises(error)
      PROVE  /\ phase' = "gathering" /\ pending' # None
             /\ pending' \notin {"ok", "result", "summary"}
  BY <1>1, <1>4, NoClassAssumption DEF ShutdownRaises, OrElse, ServerTypes
<1>5. /\ phase' \in Phases \ {"off", "starting", "waiting", "ended"}
      /\ pending' # None => pending' \notin {"ok", "result", "summary"}
      /\ phase' \in {"verifying", "containing", "reverifying"} => watcher = "done"
      /\ phase' = "gathering" /\ pending' = None => watcher = "done" /\ ~kin
  <2>1. CASE StdinClosed
    BY <1>1, <2>1 DEF StdinClosed, Phases, ServerTypes, ServerKnown
  <2>2. CASE ExitSeen
    BY <1>1, <2>2 DEF ExitSeen, Phases, ServerTypes, ServerKnown
  <2>3. CASE ExitDeadline
    BY <1>1, <1>4, <2>3 DEF ExitDeadline, Phases, ServerTypes, ServerKnown
  <2>4. CASE Terminate
    <3>1. CASE ShutdownRaises("shutdown_failed")
      BY <1>4, <3>1 DEF Phases
    <3>2. CASE ~ShutdownRaises("shutdown_failed")
      <4>1. /\ phase \in {"asking", "killing", "containing"} /\ pending' = pending
            /\ phase' = [asking |-> "yielding", killing |-> "reaping",
                         containing |-> "reverifying"][phase]
        BY <2>4, <3>2 DEF Terminate
      <4>2. /\ phase' \in {"yielding", "reaping", "reverifying"}
            /\ phase' = "reverifying" => phase = "containing"
        BY <4>1
      <4> QED
        BY <1>1, <4>1, <4>2 DEF Phases, ServerTypes, ServerKnown
    <3> QED
      BY <3>1, <3>2
  <2>5. CASE Verify
    <3>1. watcher = "done"
      BY <1>1, <2>5 DEF Verify, ServerKnown
    <3>2. CASE ShutdownRaises("shutdown_failed") \/ ShutdownRaises("orphaned_child_process")
      BY <1>4, <3>2 DEF Phases
    <3>3. CASE ~(ShutdownRaises("shutdown_failed") \/ ShutdownRaises("orphaned_child_process"))
      BY <1>1, <2>5, <3>1, <3>3 DEF Verify, Phases, ServerTypes
    <3> QED
      BY <3>2, <3>3
  <2> QED
    BY <2>1, <2>2, <2>3, <2>4, <2>5
<1>6. ServerTypes' /\ ServerKnown'
  BY <1>1, <1>2, <1>3, <1>5 DEF ServerTypes, ServerKnown
<1> QED
  BY <1>1, <1>2, <1>3, <1>5, <1>6, GoesOn DEF ServerTypes

LEMMA EndsInv ==
    ASSUME ServerInv, ExitUnknown \/ Finish \/ Cancel, leaving \in BOOLEAN
    PROVE  ServerInv'
<1>1. ServerTypes /\ ServerKnown /\ RunJudged
  BY DEF ServerInv
<1>2. CASE ExitUnknown
  <2>1. /\ phase' = "ended" /\ result' = "raised"
        /\ UNCHANGED <<checkout, server, kin, watcher, pending>>
    BY <1>2 DEF ExitUnknown, externals, tasks
  <2> QED
    BY <1>1, <2>1 DEF ServerInv, ServerTypes, ServerKnown, RunJudged, ServerLeavesNothing, Phases
<1>3. CASE Finish
  <2>1. /\ phase = "gathering" /\ Conclude(pending, leaving)
        /\ UNCHANGED <<server, kin, watcher, read>>
    BY <1>3 DEF Finish, externals
  <2> QED
    BY <1>1, <2>1, ConcludeInv DEF ServerTypes, ServerKnown
<1>4. CASE Cancel
  <2>1. UNCHANGED <<server, kin, watcher, read>>
    BY <1>4 DEF Cancel, externals
  <2>2. CASE phase = "starting" /\ Conclude(None, TRUE)
    BY <2>1, <2>2, ConcludeInv
  <2>3. CASE phase = "waiting" /\ phase' = "closing" /\ UNCHANGED <<checkout, pending, result>>
    <3>1. ServerTypes' /\ ServerKnown'
      BY <1>1, <2>1, <2>3 DEF ServerTypes, ServerKnown, Phases
    <3> QED
      BY <1>1, <2>1, <2>3, <3>1, GoesOn DEF ServerTypes
  <2>4. CASE phase' = "ended" /\ result' = "cancelled" /\ UNCHANGED <<checkout, pending>>
    BY <1>1, <2>1, <2>4
       DEF ServerInv, ServerTypes, ServerKnown, RunJudged, ServerLeavesNothing, Phases
  <2> QED
    BY <1>4, <2>2, <2>3, <2>4 DEF Cancel
<1> QED
  BY <1>2, <1>3, <1>4

LEMMA RunInv ==
    ASSUME ServerInv, leaving \in BOOLEAN, Run \/ Cancel
    PROVE  ServerInv'
BY StartsInv, ReadinessInv, ShutdownInv, EndsInv DEF Run
-----------------------------------------------------------------------------
(***************************************************************************)
(* The smoke.  Once the server is gone and the build was verified again,   *)
(* nothing but the simulators touches the checkout; the results so far are *)
(* of the manifest on disk, and all but an odd last one have been judged.  *)
(***************************************************************************)
Progress ==
    LET n == Len(results)
    IN  /\ n < RunsOf(job.fixtures)
        /\ \A i \in 1..n : results[i].manifest = manifest /\ results[i].failure # "summary"
        /\ \A l \in launched : Matches(l.checkout, l.host, manifest)
        /\ ~Candidate => \A i \in 1..n : results[i].failure = "ok"
        /\ Candidate =>
              /\ \A l \in launched : VerifyBuild(l.checkout, l.host, manifest) = "ok"
              /\ \A i \in 1..n : ResultAccepted(results[i])
              /\ n >= 2 => /\ results[1] = results[2]
                           /\ results[1].failure = "ok" /\ results[2].failure = "ok"

SmokeInv ==
    /\ leaving \in BOOLEAN
    /\ phase # "off" => pc = "server"
    /\ pc # "idle" => outcome # "summary"
    /\ pc \in {"server", "fixtures", "verified", "simulating"} => Len(job.fixtures) = 2
    /\ pc = "server" => results = << >> /\ launched = {}
    /\ pc \in {"fixtures", "verified", "simulating"} =>
          /\ ~Alive /\ Matches(checkout, host, manifest)
          /\ \E S : results \in Seq(S)
          /\ Progress
    /\ pc = "verified" => SessionVerification = "ok"
    /\ EvidenceIsSound

LabInv == ServerInv /\ SmokeInv

LEMMA InitLab == Init => LabInv
<1> SUFFICES ASSUME Init PROVE LabInv
  OBVIOUS
<1>1. checkout \in Checkouts
  BY DEF Init, Untouched, Checkouts
<1>2. ServerInv
  BY <1>1, NoClassAssumption
     DEF Init, ServerInit, ServerInv, ServerTypes, ServerKnown, RunJudged, ServerLeavesNothing,
         Phases
<1>3. SmokeInv
  BY NoClassAssumption DEF Init, ServerInit, SmokeInv, EvidenceIsSound
<1> QED
  BY <1>2, <1>3 DEF LabInv

\* No server runs while the checkout is changed by someone else.
LEMMA NoServer ==
    ASSUME ServerInv, phase = "off", UNCHANGED <<phase, kin, watcher, pending, result>>,
           checkout' \in Checkouts
    PROVE  ServerInv'
BY NoClassAssumption
   DEF ServerInv, ServerTypes, ServerKnown, RunJudged, ServerLeavesNothing, Phases

\* The smoke is not running, or it stops without a summary.
LEMMA NoSmoke ==
    ASSUME SmokeInv, phase' = "off", leaving' \in BOOLEAN,
           pc' \notin {"server", "fixtures", "verified", "simulating"}, outcome' # "summary"
    PROVE  SmokeInv'
BY DEF SmokeInv, EvidenceIsSound

LEMMA Forgotten ==
    ASSUME ServerInv, ForgetRun, checkout' = checkout
    PROVE  ServerInv'
BY NoClassAssumption
   DEF ServerInv, ServerTypes, ServerKnown, RunJudged, ServerLeavesNothing, Phases, ForgetRun

LEMMA WorldInv ==
    ASSUME LabInv, World
    PROVE  LabInv'
<1>1. ServerInv /\ SmokeInv /\ Outside /\ UNCHANGED labVars
  BY DEF LabInv, World
<1>2. ServerInv'
  BY <1>1, OutsideServer
<1>3. phase' = phase /\ leaving' = leaving
  BY <1>1 DEF Outside, ServerExits, KinChanges, ServerWrites, WatcherReturns, DrainStdout,
              DrainStderr, serverVars
<1>4. ~Alive => ~Alive' /\ checkout' = checkout
  BY <1>1 DEF Outside, ServerExits, KinChanges, ServerWrites, WatcherReturns, DrainStdout,
              DrainStderr, serverVars, externals, Alive
<1>5. Progress => Progress'
  BY <1>1 DEF Progress, RunsOf, Candidate, labVars
<1>6. SmokeInv'
  BY <1>1, <1>3, <1>4, <1>5 DEF SmokeInv, EvidenceIsSound, labVars, SessionVerification, Candidate
<1> QED
  BY <1>2, <1>6 DEF LabInv

LEMMA ServerStepInv ==
    ASSUME LabInv, ServerStep \/ CancelSmoke
    PROVE  LabInv'
<1>1. /\ ServerInv /\ SmokeInv /\ (Run \/ Cancel)
      /\ pc = "server" /\ UNCHANGED labVars
  BY DEF LabInv, ServerStep, CancelSmoke
<1>2. ServerInv'
  BY <1>1, RunInv DEF SmokeInv
<1>3. leaving' \in BOOLEAN
  BY <1>1 DEF SmokeInv, Run, Cancel, StartFails, Start, LaunchFails, LaunchReturns, WakeUp,
              ReadinessTimeout, waitFrame, StdinClosed, ExitSeen, ExitDeadline, ExitUnknown,
              Terminate, Verify, Finish, shutdownFrame
<1>4. UNCHANGED <<pc, job, results, launched, outcome>>
  BY <1>1 DEF labVars
<1>5. SmokeInv'
  BY <1>1, <1>3, <1>4 DEF SmokeInv, EvidenceIsSound
<1> QED
  BY <1>2, <1>5 DEF LabInv

\* The steps of the build tool, and those of nobody's tool.
LEMMA ToolInv ==
    ASSUME LabInv, phase = "off", UNCHANGED serverVars, checkout' \in Checkouts,
           pc' \notin {"server", "fixtures", "verified", "simulating"}, outcome' # "summary"
    PROVE  LabInv'
<1>1. /\ ServerInv /\ SmokeInv
      /\ UNCHANGED <<phase, kin, watcher, pending, result, leaving>>
  BY DEF LabInv, serverVars, externals, tasks
<1>2. ServerInv'
  BY <1>1, NoServer
<1>3. SmokeInv'
  BY <1>1, NoSmoke DEF SmokeInv
<1> QED
  BY <1>2, <1>3 DEF LabInv

LEMMA VerifyOnlyInv ==
    ASSUME LabInv, VerifyOnly
    PROVE  LabInv'
<1>1. ServerInv /\ SmokeInv /\ pc = "idle"
  BY DEF LabInv, VerifyOnly, Begin
<1>2. phase = "off" /\ checkout \in Checkouts
  BY <1>1 DEF SmokeInv, ServerInv, ServerTypes
<1> DEFINE verified == VerifyBuild(checkout, host, manifest)
<1>3. verified # "summary"
  BY <1>2, BuildVerified
<1> HIDE DEF verified
<1>4. outcome' \in {"raised", "build_failed", "pass", verified} /\ pc' = "idle"
  BY DEF VerifyOnly, Stop, verified
<1>5. UNCHANGED serverVars /\ checkout' = checkout
  BY DEF VerifyOnly
<1> QED
  BY <1>2, <1>3, <1>4, <1>5, ToolInv

LEMMA BuildStartsInv ==
    ASSUME LabInv, BuildStarts
    PROVE  LabInv'
<1>1. ServerInv /\ SmokeInv /\ pc = "idle"
  BY DEF LabInv, BuildStarts, Begin
<1>2. phase = "off" /\ checkout \in Checkouts
  BY <1>1 DEF SmokeInv, ServerInv, ServerTypes
<1>3. checkout' \in Checkouts
  BY <1>2 DEF BuildStarts, Checkouts
<1>4. UNCHANGED serverVars /\ pc' \in {"idle", "acquiring"} /\ outcome' # "summary"
  BY NoClassAssumption DEF BuildStarts, Stop
<1> QED
  BY <1>2, <1>3, <1>4, ToolInv

\* The tool that builds runs; it fails with a class, or it goes on.
LEMMA BuildRuns ==
    ASSUME LabInv, pc \in {"acquiring", "installing", "building", "writing"}
    PROVE  phase = "off" /\ checkout \in Checkouts /\ outcome # "summary"
BY DEF LabInv, SmokeInv, ServerInv, ServerTypes

LEMMA AcquireInv ==
    ASSUME LabInv, Acquire
    PROVE  LabInv'
<1>1. phase = "off" /\ checkout \in Checkouts /\ outcome # "summary"
  BY BuildRuns DEF Acquire
<1>2. UNCHANGED serverVars
  BY DEF Acquire, buildFrame
<1>3. CASE \E class \in CommandFailures("source_commit_mismatch") : Stop(class) /\ UNCHANGED checkout
  BY <1>1, <1>2, <1>3, ToolInv DEF Stop, CommandFailures
<1>4. ASSUME NEW git \in {"pinned", "rotten"},
             LET fetched == [checkout EXCEPT !.git = git]
                 failure == BuildPreconditions(fetched, host, job.role)
             IN  /\ checkout' = IF failure = "ok" THEN ClearDist(fetched) ELSE fetched
                 /\ IF failure = "ok" THEN pc' = "installing" /\ UNCHANGED <<outcome, job>>
                    ELSE Stop(failure)
      PROVE  LabInv'
  <2> DEFINE fetched == [checkout EXCEPT !.git = git]
             failure == BuildPreconditions(fetched, host, job.role)
  <2>1. failure # "summary"
    BY PreconditionsFail
  <2>2. fetched \in Checkouts
    BY <1>1 DEF Checkouts
  <2>3. checkout' \in {fetched, ClearDist(fetched)}
    BY <1>4
  <2>4. checkout' \in Checkouts
    BY <2>2, <2>3 DEF Checkouts, ClearDist
  <2>5. pc' \in {"installing", "idle"} /\ outcome' \in {outcome, failure}
    BY <1>4 DEF Stop
  <2> QED
    BY <1>1, <1>2, <2>1, <2>4, <2>5, ToolInv
<1> QED
  BY <1>3, <1>4 DEF Acquire

LEMMA NpmCiInv ==
    ASSUME LabInv, NpmCi
    PROVE  LabInv'
<1>1. phase = "off" /\ checkout \in Checkouts /\ outcome # "summary"
  BY BuildRuns DEF NpmCi
<1>2. UNCHANGED serverVars
  BY DEF NpmCi, buildFrame
<1>3. CASE \E class \in CommandFailures("build_failed") : Stop(class) /\ UNCHANGED checkout
  BY <1>1, <1>2, <1>3, ToolInv DEF Stop, CommandFailures
<1>4. ASSUME ~(\E class \in CommandFailures("build_failed") : Stop(class) /\ UNCHANGED checkout)
      PROVE  LabInv'
  <2>0. PICK modules \in {"lock", "other"}, config \in {"none", "example", "other"},
             dist \in {{}, {"ci"}}, stray \in BOOLEAN :
          LET installed == [checkout EXCEPT !.modules = modules, !.config = config, !.dist = dist,
                                            !.stray = stray]
              failure == AfterCiFailure(installed)
          IN  /\ checkout' = IF failure = "ok" THEN AfterCi(installed)
                             ELSE WithoutGeneratedConfig(installed)
              /\ IF failure = "ok" THEN pc' = "building" /\ UNCHANGED <<outcome, job>>
                 ELSE Stop(failure)
    BY <1>4, ZenonT(60) DEF NpmCi
  <2> DEFINE installed == [checkout EXCEPT !.modules = modules, !.config = config,
                                           !.dist = dist, !.stray = stray]
             failure == AfterCiFailure(installed)
  <2>1. failure # "summary"
    BY AfterCiFails
  <2>2. installed \in Checkouts
    BY <1>1 DEF Checkouts
  <2>3. checkout' \in {AfterCi(installed), WithoutGeneratedConfig(installed)}
    BY <2>0
  <2>4. pc' \in {"building", "idle"} /\ outcome' \in {outcome, failure}
    BY <2>0 DEF Stop
  <2> HIDE DEF installed, failure
  <2>5. checkout' \in Checkouts
    BY <2>2, <2>3 DEF Checkouts, AfterCi, ClearDist, WithoutGeneratedConfig
  <2> QED
    BY <1>1, <1>2, <2>1, <2>4, <2>5, ToolInv
<1> QED
  BY <1>3, <1>4

LEMMA NpmBuildInv ==
    ASSUME LabInv, NpmBuild
    PROVE  LabInv'
<1>1. phase = "off" /\ checkout \in Checkouts /\ outcome # "summary"
  BY BuildRuns DEF NpmBuild
<1>2. UNCHANGED serverVars
  BY DEF NpmBuild, buildFrame
<1>3. CASE \E class \in CommandFailures("build_failed") : Stop(class) /\ UNCHANGED <<checkout, manifest>>
  BY <1>1, <1>2, <1>3, ToolInv DEF Stop, CommandFailures
<1>4. ASSUME NEW output \in {{}, {"build"}}, NEW config \in {"example", "other"},
             LET built == [checkout EXCEPT !.dist = @ \cup output, !.config = config]
                 failure == SealFailure(built, host)
             IN  /\ checkout' = WithoutGeneratedConfig(built)
                 /\ IF failure = "ok"
                    THEN /\ pc' = "writing" /\ manifest' = Partial
                         /\ job' = [role |-> job.role, document |-> ManifestOf(built, host, job.role)]
                         /\ UNCHANGED outcome
                    ELSE Stop(failure) /\ UNCHANGED manifest
      PROVE  LabInv'
  <2> DEFINE built == [checkout EXCEPT !.dist = @ \cup output, !.config = config]
             failure == SealFailure(built, host)
  <2>1. failure # "summary"
    BY SealFails
  <2>2. built \in Checkouts
    BY <1>1 DEF Checkouts
  <2>3. checkout' = WithoutGeneratedConfig(built)
    BY <1>4
  <2>4. pc' \in {"writing", "idle"} /\ outcome' \in {outcome, failure}
    BY <1>4 DEF Stop
  <2> HIDE DEF built, failure
  <2>5. checkout' \in Checkouts
    BY <2>2, <2>3 DEF Checkouts, WithoutGeneratedConfig
  <2> QED
    BY <1>1, <1>2, <2>1, <2>4, <2>5, ToolInv
<1> QED
  BY <1>3, <1>4 DEF NpmBuild

LEMMA WriteManifestInv ==
    ASSUME LabInv, WriteManifest
    PROVE  LabInv'
<1>1. phase = "off" /\ checkout \in Checkouts
  BY BuildRuns DEF WriteManifest
<1> QED
  BY <1>1, ToolInv DEF WriteManifest, Stop, buildFrame

LEMMA CrashInv ==
    ASSUME LabInv, Crash
    PROVE  LabInv'
<1>1. ServerInv /\ SmokeInv /\ ForgetRun /\ checkout' = checkout
  BY DEF LabInv, Crash
<1>2. ServerInv'
  BY <1>1, Forgotten
<1>3. SmokeInv'
  BY <1>1, NoSmoke, NoClassAssumption DEF Crash, Stop, ForgetRun
<1> QED
  BY <1>2, <1>3 DEF LabInv

LEMMA CleanInv ==
    ASSUME LabInv, Clean
    PROVE  LabInv'
<1>1. /\ ServerInv /\ SmokeInv /\ pc = "idle"
      /\ UNCHANGED <<pc, results, launched, outcome>>
  BY DEF LabInv, Clean
<1>2. /\ phase = "off" /\ phase' = "off" /\ UNCHANGED <<watcher, pending, result, leaving>>
      /\ checkout' \in {Untouched, checkout} /\ kin' \in {FALSE, kin}
  BY <1>1 DEF Clean, SmokeInv, serverVars, externals, tasks
<1>3. checkout' \in Checkouts /\ kin' \in BOOLEAN
  <2>1. Untouched \in Checkouts
    BY DEF Untouched, Checkouts
  <2> QED
    BY <1>1, <1>2, <2>1 DEF ServerInv, ServerTypes
<1>4. ServerInv'
  BY <1>1, <1>2, <1>3, NoClassAssumption
     DEF ServerInv, ServerTypes, ServerKnown, RunJudged, ServerLeavesNothing
<1>5. SmokeInv'
  BY <1>1, <1>2 DEF SmokeInv, EvidenceIsSound
<1> QED
  BY <1>4, <1>5 DEF LabInv

LEMMA AlteredCheckout ==
    ASSUME NEW c \in Checkouts, NEW d \in Altered(c)
    PROVE  d \in Checkouts
<1>1. \/ d \in {[c EXCEPT !.git = "other"], [c EXCEPT !.git = "rotten"],
              [c EXCEPT !.modules = "altered"], [c EXCEPT !.stray = TRUE]}
      \/ d = [c EXCEPT !.dist = @ \cup {"edit"}]
      \/ \E t \in {"dirty", "hidden", "staged"} : d = [c EXCEPT !.tracked = t]
  BY DEF Altered
<1>2. [c EXCEPT !.dist = @ \cup {"edit"}] \in Checkouts
  BY DEF Checkouts
<1>3. \A t \in {"dirty", "hidden", "staged"} : [c EXCEPT !.tracked = t] \in Checkouts
  BY DEF Checkouts
<1>4. /\ [c EXCEPT !.git = "other"] \in Checkouts /\ [c EXCEPT !.git = "rotten"] \in Checkouts
      /\ [c EXCEPT !.modules = "altered"] \in Checkouts /\ [c EXCEPT !.stray = TRUE] \in Checkouts
  BY DEF Checkouts
<1> QED
  BY <1>1, <1>2, <1>3, <1>4

LEMMA ChangeInv ==
    ASSUME LabInv, Change
    PROVE  LabInv'
<1>1. /\ ServerInv /\ SmokeInv /\ pc = "idle"
      /\ UNCHANGED <<pc, results, launched, outcome, serverVars>>
  BY DEF LabInv, Change
<1>2. /\ phase = "off" /\ checkout \in Checkouts
      /\ UNCHANGED <<phase, kin, watcher, pending, result, leaving>>
  BY <1>1 DEF SmokeInv, ServerInv, ServerTypes, serverVars, externals, tasks
<1>3. checkout' \in {checkout} \cup Altered(checkout)
  BY DEF Change
<1>4. checkout' \in Checkouts
  BY <1>2, <1>3, AlteredCheckout
<1>5. ServerInv'
  BY <1>1, <1>2, <1>4, NoServer
<1>6. SmokeInv'
  BY <1>1, <1>2 DEF SmokeInv, EvidenceIsSound
<1> QED
  BY <1>5, <1>6 DEF LabInv

LEMMA SmokeStartsInv ==
    ASSUME LabInv, SmokeStarts
    PROVE  LabInv'
<1>1. ServerInv /\ SmokeInv /\ pc = "idle" /\ UNCHANGED <<checkout, serverVars>>
  BY DEF LabInv, SmokeStarts, Begin
<1>2. phase = "off" /\ checkout \in Checkouts /\ leaving \in BOOLEAN
  BY <1>1 DEF SmokeInv, ServerInv, ServerTypes
<1>3. UNCHANGED <<phase, kin, watcher, pending, result, leaving>>
  BY <1>1 DEF serverVars, externals, tasks
<1>4. ServerInv'
  BY <1>1, <1>2, <1>3, NoServer
<1>5. /\ results' = << >> /\ launched' = {}
      /\ \/ pc' = "server" /\ Len(job'.fixtures) = 2 /\ outcome' = None
         \/ pc' = "idle" /\ outcome' # "summary"
  <2>1. PICK fixtures \in FixtureSets :
         LET failure == FirstFailure(<<<<Loaded, "tool_input_invalid">>,
                                       <<FixturePaths(fixtures), "tool_input_invalid">>,
                                       <<Loaded => VerifyBuild(checkout, host, manifest) = "ok",
                                         IF Loaded THEN VerifyBuild(checkout, host, manifest) ELSE "ok">>>>)
         IN  IF failure = "ok"
             THEN pc' = "server" /\ outcome' = None /\ job' = [fixtures |-> fixtures]
             ELSE Stop(failure)
    BY DEF SmokeStarts
  <2> DEFINE loaded == Loaded
             paths == FixturePaths(fixtures)
             verified == Loaded => VerifyBuild(checkout, host, manifest) = "ok"
             class == IF Loaded THEN VerifyBuild(checkout, host, manifest) ELSE "ok"
             failure == FirstFailure(<<<<loaded, "tool_input_invalid">>,
                                       <<paths, "tool_input_invalid">>, <<verified, class>>>>)
  <2>2. /\ failure = "ok" => /\ pc' = "server" /\ outcome' = None
                             /\ job' = [fixtures |-> fixtures]
        /\ failure # "ok" => Stop(failure)
    BY <2>1
  <2>3. class # "summary" /\ (~verified => class # "ok")
    BY <1>2, BuildVerified
  <2> HIDE DEF loaded, paths, verified, class
  <2>4. failure = IF ~loaded THEN "tool_input_invalid" ELSE IF ~paths THEN "tool_input_invalid"
                  ELSE IF ~verified THEN class ELSE "ok"
    BY ThreeChecks
  <2> HIDE DEF failure
  <2>5. failure # "summary" /\ (failure = "ok" => paths)
    BY <2>3, <2>4
  <2>6. failure = "ok" => Len(job'.fixtures) = 2
    BY <2>2, <2>5 DEF paths, FixturePaths
  <2> QED
    BY <2>2, <2>5, <2>6 DEF SmokeStarts, Stop
<1>6. SmokeInv'
  BY <1>2, <1>3, <1>5, NoClassAssumption DEF SmokeInv, EvidenceIsSound
<1> QED
  BY <1>4, <1>6 DEF LabInv

LEMMA ServerReturnsInv ==
    ASSUME LabInv, ServerReturns
    PROVE  LabInv'
<1>1. /\ ServerInv /\ SmokeInv /\ ForgetRun /\ pc = "server" /\ phase = "ended"
      /\ UNCHANGED <<checkout, host, manifest, results, launched>>
  BY DEF LabInv, ServerReturns, smokeFrame
<1>2. ServerInv'
  BY <1>1, Forgotten
<1> DEFINE failure == IF result = "result" THEN VerifyBuild(checkout, host, manifest) ELSE result
<1>3. failure # "summary" /\ (failure = "ok" => result = "result")
  BY <1>1, BuildVerified DEF ServerInv, ServerTypes, RunJudged
<1>4. CASE failure # "ok"
  <2>1. pc' = "idle" /\ outcome' = failure
    BY <1>4 DEF ServerReturns, Stop
  <2> QED
    BY <1>1, <1>2, <1>3, <2>1, NoSmoke DEF LabInv, ForgetRun
<1>5. CASE failure = "ok"
  <2>1. pc' = "fixtures" /\ UNCHANGED <<outcome, job>>
    BY <1>5 DEF ServerReturns
  <2>2. VerifyBuild(checkout, host, manifest) = "ok" /\ result = "result"
    BY <1>3, <1>5
  <2>3. Matches(checkout, host, manifest)
    BY <1>1, <2>2, BuildVerified DEF ServerInv, ServerTypes
  <2>4. ~Alive'
    BY <1>1, <2>2 DEF ServerInv, RunJudged, ServerLeavesNothing, Alive, ForgetRun
  <2>5. /\ Len(job'.fixtures) = 2 /\ results' = << >> /\ launched' = {}
        /\ outcome' # "summary" /\ phase' = "off" /\ leaving' = FALSE
    BY <1>1, <2>1 DEF SmokeInv, ForgetRun
  <2>6. Len(results') = 0 /\ results' \in Seq({})
    BY <2>5
  <2>7. Progress'
    BY <2>5, <2>6 DEF Progress, RunsOf
  <2>8. Matches(checkout, host, manifest)'
    BY <1>1, <2>3 DEF Matches
  <2>9. SmokeInv'
    BY <2>1, <2>4, <2>5, <2>6, <2>7, <2>8 DEF SmokeInv, EvidenceIsSound
  <2> QED
    BY <1>2, <2>9 DEF LabInv
<1> QED
  BY <1>4, <1>5

LEMMA LaunchSimulatorInv ==
    ASSUME LabInv, LaunchSimulator
    PROVE  LabInv'
<1>1. /\ ServerInv /\ SmokeInv /\ pc = "verified" /\ pc' = "simulating"
      /\ UNCHANGED <<host, manifest, outcome, job, results, checkout, serverVars>>
      /\ launched' = launched \cup {[checkout |-> checkout, host |-> host]}
  BY DEF LabInv, LaunchSimulator, smokeFrame
<1>2. /\ phase = "off" /\ checkout \in Checkouts /\ leaving \in BOOLEAN
      /\ ~Alive /\ Matches(checkout, host, manifest) /\ Progress
      /\ outcome # "summary" /\ Len(job.fixtures) = 2
      /\ \E S : results \in Seq(S)
  BY <1>1 DEF SmokeInv, ServerInv, ServerTypes
<1>3. UNCHANGED <<phase, server, kin, watcher, pending, result, leaving>>
  BY <1>1 DEF serverVars, externals, tasks
<1>4. ServerInv'
  BY <1>1, <1>2, <1>3, NoServer
<1>5. Candidate => VerifyBuild(checkout, host, manifest) = "ok"
  BY <1>1 DEF SmokeInv, SessionVerification
<1>6. \A l \in launched' : l \in launched \/ (l.checkout = checkout /\ l.host = host)
  BY <1>1
<1>7. \A l \in launched' : Matches(l.checkout, l.host, manifest)
  BY <1>2, <1>6 DEF Progress
<1>8. Candidate => \A l \in launched' : VerifyBuild(l.checkout, l.host, manifest) = "ok"
  BY <1>2, <1>5, <1>6 DEF Progress
<1>9. Candidate' = Candidate /\ RunsOf(job.fixtures)' = RunsOf(job.fixtures)
  BY <1>1 DEF Candidate, RunsOf
<1>10. Progress'
  BY <1>1, <1>2, <1>7, <1>8, <1>9 DEF Progress
<1>11. Matches(checkout, host, manifest)' /\ ~Alive'
  BY <1>1, <1>2, <1>3 DEF Matches, Alive
<1>12. SmokeInv'
  BY <1>1, <1>2, <1>3, <1>10, <1>11 DEF SmokeInv, EvidenceIsSound
<1> QED
  BY <1>4, <1>12 DEF LabInv

\* One more result at the end of a sequence.
LEMMA OneMoreResult ==
    ASSUME NEW S, NEW s \in Seq(S), NEW x
    PROVE  /\ \E R : Append(s, x) \in Seq(R)
           /\ Len(s) \in Nat /\ Len(Append(s, x)) = Len(s) + 1
           /\ DOMAIN Append(s, x) = 1..(Len(s) + 1)
           /\ Append(s, x)[Len(s) + 1] = x
           /\ \A i \in 1..Len(s) : Append(s, x)[i] = s[i]
<1>1. s \in Seq(S \cup {x})
  OBVIOUS
<1>2. Append(s, x) \in Seq(S \cup {x})
  BY <1>1
<1> QED
  BY <1>1, <1>2

LEMMA SessionsDoNotSum ==
    ASSUME NEW fixture, NEW m, NEW run, RunSeen(run)
    PROVE  /\ ResultOf(fixture, m, run).failure # "summary"
           /\ ComparisonOf(fixture, m, run).failure # "summary"
<1>1. run.error # "summary"
  BY DEF RunSeen
<1>2. SessionFailure(fixture, run) # "summary"
  <2> DEFINE checks ==
      <<<<run.error # "guard_missing", "build_output_missing">>,
        <<run.error = "none", run.error>>,
        <<~run.sideError, "ruleset_rejected">>,
        <<run.barriers, "protocol_desynchronization">>,
        <<Ended(run), "protocol_desynchronization">>,
        <<fixture.tera => TeraSeen(run), "ruleset_rejected">>>>
  <2>1. SessionFailure(fixture, run) = FirstFailure(checks)
    BY DEF SessionFailure
  <2>2. DOMAIN checks = 1..6 /\ \A i \in 1..6 : checks[i][2] # "summary"
    BY <1>1
  <2> HIDE DEF checks
  <2>3. \/ FirstFailure(checks) = "ok" /\ \A i \in 1..6 : checks[i][1]
        \/ \E i \in 1..6 : ~checks[i][1] /\ FirstFailure(checks) = checks[i][2]
    BY <2>2, FailureOfACheck
  <2> QED
    BY <2>1, <2>2, <2>3
<1>3. ComparisonFailure(fixture, run) # "summary"
  <2> DEFINE checks ==
      <<<<run.error # "guard_missing", "raised">>,
        <<run.error = "none", run.error>>,
        <<~run.sideError /\ run.barriers /\ Ended(run), "protocol_desynchronization">>,
        <<fixture.tera => TeraSeen(run), "ruleset_rejected">>>>
  <2>1. ComparisonFailure(fixture, run) = FirstFailure(checks)
    BY DEF ComparisonFailure
  <2>2. DOMAIN checks = 1..4 /\ \A i \in 1..4 : checks[i][2] # "summary"
    BY <1>1
  <2> HIDE DEF checks
  <2>3. \/ FirstFailure(checks) = "ok" /\ \A i \in 1..4 : checks[i][1]
        \/ \E i \in 1..4 : ~checks[i][1] /\ FirstFailure(checks) = checks[i][2]
    BY <2>2, FailureOfACheck
  <2> QED
    BY <2>1, <2>2, <2>3
<1> QED
  BY <1>2, <1>3 DEF ResultOf, ComparisonOf

\* What Judged finds good: a comparison's last result, or a candidate's pair.
LEMMA JudgedGood ==
    ASSUME NEW all, NEW n, n = Len(all), n \in Nat \ {0},
           all[n].failure # "summary", n >= 2 => all[n - 1].failure # "summary"
    PROVE  /\ Judged(all) # "summary"
           /\ Judged(all) = "ok" /\ ~Candidate => all[n].failure = "ok"
           /\ Judged(all) = "ok" /\ Candidate /\ n % 2 = 0 =>
                 /\ all[n - 1].failure = "ok" /\ all[n].failure = "ok"
                 /\ all[n - 1] = all[n]
           /\ Candidate /\ n % 2 = 1 => Judged(all) = "ok"
<1> DEFINE before == all[n - 1].failure = "ok"
           after == all[n].failure = "ok"
           alike == all[n - 1] = all[n]
           one == all[n - 1].failure
           two == all[n].failure
           failure == FirstFailure(<<<<before, one>>, <<after, two>>,
                                     <<alike, "protocol_desynchronization">>>>)
<1>1. Judged(all) = IF ~Candidate THEN all[n].failure ELSE IF n % 2 = 1 THEN "ok" ELSE failure
  BY DEF Judged
<1>2. (~before => one # "ok") /\ (~after => two # "ok")
  OBVIOUS
<1>3. /\ before => all[n - 1].failure = "ok"
      /\ after => all[n].failure = "ok"
      /\ alike => all[n - 1] = all[n]
  OBVIOUS
<1>4. two # "summary" /\ (n >= 2 => one # "summary")
  OBVIOUS
<1> HIDE DEF before, after, alike, one, two
<1>5. failure = IF ~before THEN one ELSE IF ~after THEN two
                ELSE IF ~alike THEN "protocol_desynchronization" ELSE "ok"
  BY ThreeChecks
<1> HIDE DEF failure
<1>6. failure = "ok" => before /\ after /\ alike
  BY <1>2, <1>5
<1>7. n >= 2 => failure # "summary"
  BY <1>4, <1>5
<1>8. n % 2 = 1 \/ (n >= 2 /\ n % 2 = 0)
  OBVIOUS
<1>9. Judged(all) # "summary"
  BY <1>1, <1>4, <1>7, <1>8 DEF two
<1> QED
  BY <1>1, <1>3, <1>6, <1>8, <1>9

\* A result of the current fixture, judged.
LEMMA AddResultInv ==
    ASSUME LabInv, pc \in {"fixtures", "simulating"}, NEW run, RunSeen(run),
           NEW new \in ResultsOf({run}), AddResult(new),
           UNCHANGED <<host, manifest, launched, serverVars>>,
           checkout' \in Checkouts, Matches(checkout', host, manifest)
    PROVE  LabInv'
<1>1. ServerInv /\ SmokeInv
  BY DEF LabInv
<1>2. /\ phase = "off" /\ leaving \in BOOLEAN
      /\ ~Alive /\ Progress
      /\ outcome # "summary" /\ Len(job.fixtures) = 2
      /\ \E S : results \in Seq(S)
  BY <1>1 DEF SmokeInv, ServerInv, ServerTypes
<1>3. UNCHANGED <<phase, server, kin, watcher, pending, result, leaving>>
  BY DEF serverVars, externals, tasks
<1>4. checkout' \in Checkouts /\ Matches(checkout', host, manifest)
  OBVIOUS
<1>5. ServerInv'
  BY <1>1, <1>2, <1>3, <1>4, NoServer
<1> DEFINE all == Append(results, new)
           n == Len(results)
           m == n + 1
<1>7. /\ new.failure # "summary" /\ new.manifest = manifest
      /\ Candidate => ResultAccepted(new)
  <2>1. /\ ResultOf(Current, manifest, run).manifest = manifest
        /\ ComparisonOf(Current, manifest, run).manifest = manifest
    BY DEF ResultOf, ComparisonOf
  <2>2. new = IF Candidate THEN ResultOf(Current, manifest, run)
              ELSE ComparisonOf(Current, manifest, run)
    BY DEF ResultsOf
  <2> QED
    BY <2>1, <2>2, SessionsDoNotSum, ResultsAreAccepted
<1>8. /\ Judged(all) # "ok" => Stop(Judged(all)) /\ results' = << >>
      /\ Judged(all) = "ok" /\ Len(all) = RunsOf(job.fixtures) => results' = all /\ Stop("summary")
      /\ Judged(all) = "ok" /\ Len(all) # RunsOf(job.fixtures) =>
            results' = all /\ pc' = "fixtures" /\ UNCHANGED <<outcome, job>>
  BY DEF AddResult
<1>9. /\ \E R : all \in Seq(R)
      /\ n \in Nat /\ Len(all) = m /\ DOMAIN all = 1..m /\ all[m] = new
      /\ \A i \in 1..n : all[i] = results[i]
  <2>1. PICK S : results \in Seq(S)
    BY <1>2
  <2> QED
    BY <2>1, OneMoreResult
<1> HIDE DEF all
<1>10. RunsOf(job.fixtures) = IF Candidate THEN 4 ELSE 2
  BY <1>2 DEF RunsOf
<1>11. /\ n < RunsOf(job.fixtures)
       /\ \A i \in 1..n : results[i].manifest = manifest /\ results[i].failure # "summary"
       /\ \A l \in launched : Matches(l.checkout, l.host, manifest)
       /\ ~Candidate => \A i \in 1..n : results[i].failure = "ok"
       /\ Candidate =>
             /\ \A l \in launched : VerifyBuild(l.checkout, l.host, manifest) = "ok"
             /\ \A i \in 1..n : ResultAccepted(results[i])
             /\ n >= 2 => /\ results[1] = results[2]
                          /\ results[1].failure = "ok" /\ results[2].failure = "ok"
  BY <1>2 DEF Progress
<1>12. \A i \in 1..m : all[i].manifest = manifest /\ all[i].failure # "summary"
  BY <1>7, <1>9, <1>11
<1>13. /\ Judged(all) # "summary"
       /\ Judged(all) = "ok" /\ ~Candidate => all[m].failure = "ok"
       /\ Judged(all) = "ok" /\ Candidate /\ m % 2 = 0 =>
             all[m - 1].failure = "ok" /\ all[m].failure = "ok" /\ all[m - 1] = all[m]
  <2>1. m \in Nat \ {0} /\ m = Len(all) /\ m \in 1..m /\ (m >= 2 => m - 1 \in 1..m)
    BY <1>9
  <2>2. all[m].failure # "summary" /\ (m >= 2 => all[m - 1].failure # "summary")
    BY <1>12, <2>1
  <2> HIDE DEF m
  <2> QED
    BY <2>1, <2>2, JudgedGood
<1>14. Judged(all) = "ok" /\ ~Candidate => \A i \in 1..m : all[i].failure = "ok"
  BY <1>9, <1>11, <1>13
<1>15. Judged(all) = "ok" /\ Candidate =>
          /\ \A i \in 1..m : ResultAccepted(all[i])
          /\ m >= 2 => all[1] = all[2] /\ all[1].failure = "ok" /\ all[2].failure = "ok"
          /\ m = 4 => all[3] = all[4] /\ all[3].failure = "ok" /\ all[4].failure = "ok"
  <2> SUFFICES ASSUME Judged(all) = "ok", Candidate
               PROVE  /\ \A i \in 1..m : ResultAccepted(all[i])
                      /\ m >= 2 => all[1] = all[2] /\ all[1].failure = "ok" /\ all[2].failure = "ok"
                      /\ m = 4 => all[3] = all[4] /\ all[3].failure = "ok" /\ all[4].failure = "ok"
    OBVIOUS
  <2>1. \A i \in 1..m : ResultAccepted(all[i])
    BY <1>7, <1>9, <1>11
  <2>2. m \in {1, 2, 3, 4}
    BY <1>9, <1>10, <1>11
  <2>3. m = 2 \/ m = 4 => all[m - 1].failure = "ok" /\ all[m].failure = "ok" /\ all[m - 1] = all[m]
    BY <1>13, <2>2
  <2>4. m \in {3, 4} => all[1] = all[2] /\ all[1].failure = "ok" /\ all[2].failure = "ok"
    BY <1>9, <1>11
  <2> QED
    BY <2>1, <2>2, <2>3, <2>4
<1>16. CASE Judged(all) # "ok"
  BY <1>1, <1>2, <1>3, <1>5, <1>8, <1>13, <1>16, NoSmoke DEF LabInv, Stop
<1>17. CASE Judged(all) = "ok" /\ Len(all) = RunsOf(job.fixtures)
  <2>1. results' = all /\ pc' = "idle" /\ launched' = launched
    BY <1>1, <1>8, <1>17 DEF Stop
  <2>2. m = IF Candidate THEN 4 ELSE 2
    BY <1>9, <1>10, <1>17
  <2>3. 1 \in 1..m /\ all[1].manifest = manifest
    BY <1>12, <2>2
  <2>4. \A i \in DOMAIN all : all[i].manifest = all[1].manifest /\ all[i].failure = "ok"
    <3>1. ASSUME NEW i \in 1..m PROVE all[i].failure = "ok"
      <4>1. CASE Candidate
        <5>1. i \in {1, 2, 3, 4} /\ m = 4
          BY <2>2, <4>1
        <5> QED
          BY <1>15, <1>17, <4>1, <5>1
      <4>2. CASE ~Candidate
        BY <1>14, <1>17, <4>2
      <4> QED
        BY <4>1, <4>2
    <3> QED
      BY <1>9, <1>12, <2>3, <3>1
  <2>5. \A l \in launched : Matches(l.checkout, l.host, all[1].manifest)
    BY <1>11, <2>3
  <2>6. all[1].manifest.role = "candidate" =>
          /\ \A l \in launched : VerifyBuild(l.checkout, l.host, all[1].manifest) = "ok"
          /\ all[1] = all[2] /\ all[3] = all[4]
          /\ \A i \in DOMAIN all : ResultAccepted(all[i])
    <3>1. all[1].manifest.role = "candidate" => Candidate
      BY <2>3 DEF Candidate
    <3> QED
      BY <1>9, <1>11, <1>15, <1>17, <2>2, <2>3, <3>1
  <2>7. EvidenceIsSound'
    BY <2>1, <2>4, <2>5, <2>6 DEF EvidenceIsSound, Matches
  <2>8. SmokeInv'
    BY <1>2, <1>3, <2>1, <2>7 DEF SmokeInv
  <2> QED
    BY <1>5, <2>8 DEF LabInv
<1>18. CASE Judged(all) = "ok" /\ Len(all) # RunsOf(job.fixtures)
  <2>1. results' = all /\ pc' = "fixtures" /\ UNCHANGED <<outcome, job, launched, host, manifest>>
    BY <1>1, <1>8, <1>18
  <2>2. Candidate' = Candidate /\ RunsOf(job.fixtures)' = RunsOf(job.fixtures)
    BY <2>1 DEF Candidate, RunsOf
  <2>3. m < RunsOf(job.fixtures)
    BY <1>9, <1>10, <1>11, <1>18
  <2>4. Progress'
    BY <1>9, <1>11, <1>12, <1>14, <1>15, <1>18, <2>1, <2>2, <2>3 DEF Progress
  <2>5. Matches(checkout, host, manifest)' /\ ~Alive'
    BY <1>2, <1>3, <1>4, <2>1 DEF Matches, Alive
  <2>6. SmokeInv'
    BY <1>2, <1>3, <1>9, <2>1, <2>4, <2>5 DEF SmokeInv, EvidenceIsSound
  <2> QED
    BY <1>5, <2>6 DEF LabInv
<1> QED
  BY <1>16, <1>17, <1>18

LEMMA SimulatorReturnsInv ==
    ASSUME LabInv, SimulatorReturns
    PROVE  LabInv'
<1>1. /\ ServerInv /\ SmokeInv /\ pc = "simulating"
      /\ UNCHANGED <<host, manifest, launched, serverVars>>
      /\ \E stray \in {checkout.stray, TRUE} : checkout' = [checkout EXCEPT !.stray = stray]
  BY DEF LabInv, SimulatorReturns, smokeFrame
<1>2. checkout \in Checkouts /\ Matches(checkout, host, manifest)
  BY <1>1 DEF SmokeInv, ServerInv, ServerTypes
<1>3. checkout' \in Checkouts /\ Matches(checkout', host, manifest)
  BY <1>1, <1>2 DEF Checkouts, Matches
<1>4. PICK run \in ProcessRuns : \E new \in ResultsOf({run}) : AddResult(new)
  BY DEF SimulatorReturns, ResultsOf
<1> QED
  BY <1>1, <1>3, <1>4, RunsAreSeen, AddResultInv

LEMMA VerifySessionInv ==
    ASSUME LabInv, VerifySession
    PROVE  LabInv'
<1>1. /\ ServerInv /\ SmokeInv /\ pc = "fixtures"
      /\ UNCHANGED <<host, manifest, launched, checkout, serverVars>>
  BY DEF LabInv, VerifySession, smokeFrame
<1>2. /\ phase = "off" /\ checkout \in Checkouts /\ leaving \in BOOLEAN
      /\ ~Alive /\ Matches(checkout, host, manifest) /\ Progress
      /\ outcome # "summary" /\ Len(job.fixtures) = 2
      /\ \E S : results \in Seq(S)
  BY <1>1 DEF SmokeInv, ServerInv, ServerTypes
<1>3. UNCHANGED <<phase, server, kin, watcher, pending, result, leaving>>
  BY <1>1 DEF serverVars, externals, tasks
<1>4. ServerInv'
  BY <1>1, <1>2, <1>3, NoServer
<1> DEFINE refused == FixtureFailure
           failure == SessionVerification
<1>5. failure # "summary"
  BY <1>2, BuildVerified DEF SessionVerification
<1>6. refused # "summary"
  <2> DEFINE config == Candidate => ConfigAccepted(manifest)
             valid == FixtureValid(Current)
             ruleset == Current.ruleset = manifest.rulesetDigest
             other == IF Candidate THEN "tool_input_invalid" ELSE "ruleset_rejected"
  <2>1. refused = FirstFailure(<<<<config, "tool_input_invalid">>, <<valid, "tool_input_invalid">>,
                                 <<ruleset, other>>>>)
    BY DEF FixtureFailure
  <2>2. other # "summary"
    OBVIOUS
  <2> HIDE DEF refused, config, valid, ruleset, other
  <2> QED
    BY <2>1, <2>2, ThreeChecks
<1>7. /\ refused # "ok" => Stop(refused)
      /\ refused = "ok" /\ failure = "ok" =>
            pc' = "verified" /\ UNCHANGED <<results, outcome, job>>
      /\ refused = "ok" /\ failure # "ok" =>
            \E new \in ResultsOf({Unstarted(failure)}) : AddResult(new)
  BY DEF VerifySession
<1>8. SessionVerification' = SessionVerification
  BY <1>1 DEF SessionVerification, Candidate
<1> HIDE DEF refused, failure
<1>9. CASE refused # "ok"
  BY <1>1, <1>2, <1>3, <1>4, <1>6, <1>7, <1>9, NoSmoke DEF LabInv, Stop
<1>10. CASE refused = "ok" /\ failure = "ok"
  <2>1. pc' = "verified" /\ UNCHANGED <<results, outcome, job>> /\ SessionVerification' = "ok"
    BY <1>7, <1>8, <1>10 DEF failure
  <2>2. Candidate' = Candidate /\ RunsOf(job.fixtures)' = RunsOf(job.fixtures)
    BY <1>1, <2>1 DEF Candidate, RunsOf
  <2>3. Progress'
    BY <1>1, <1>2, <2>1, <2>2 DEF Progress
  <2>4. Matches(checkout, host, manifest)' /\ ~Alive'
    BY <1>1, <1>2, <1>3 DEF Matches, Alive
  <2>5. SmokeInv'
    BY <1>1, <1>2, <1>3, <2>1, <2>3, <2>4 DEF SmokeInv, EvidenceIsSound
  <2> QED
    BY <1>4, <2>5 DEF LabInv
<1>11. CASE refused = "ok" /\ failure # "ok"
  <2>1. RunSeen(Unstarted(failure))
    BY <1>5, RunsAreSeen
  <2>2. checkout' \in Checkouts /\ Matches(checkout', host, manifest)
    BY <1>1, <1>2
  <2> QED
    BY <1>1, <1>7, <1>11, <2>1, <2>2, AddResultInv
<1> QED
  BY <1>9, <1>10, <1>11

LEMMA LabStep == LabInv /\ [Next]_vars => LabInv'
<1> SUFFICES ASSUME LabInv, [Next]_vars PROVE LabInv'
  OBVIOUS
<1>1. CASE Next
  BY <1>1, VerifyOnlyInv, BuildStartsInv, AcquireInv, NpmCiInv, NpmBuildInv, WriteManifestInv,
     SmokeStartsInv, ServerReturnsInv, VerifySessionInv, LaunchSimulatorInv, SimulatorReturnsInv, ServerStepInv,
     WorldInv, CrashInv, CleanInv, ChangeInv DEF Next, Build, Smoke
<1>2. CASE UNCHANGED vars
  <2>1. /\ UNCHANGED <<pc, host, manifest, job, results, launched, outcome>>
        /\ UNCHANGED <<checkout, phase, server, kin, watcher, errDrain, read, pending, leaving, result>>
    BY <1>2 DEF vars, labVars, serverVars, externals, tasks
  <2>2. ServerInv'
    BY <2>1 DEF LabInv, ServerInv, ServerTypes, ServerKnown, RunJudged, ServerLeavesNothing, Alive
  <2>3. Progress => Progress'
    BY <2>1 DEF Progress, Candidate, RunsOf
  <2>4. SmokeInv'
    BY <2>1, <2>3 DEF LabInv, SmokeInv, EvidenceIsSound, Alive, SessionVerification, Candidate
  <2> QED
    BY <2>2, <2>4 DEF LabInv
<1> QED
  BY <1>1, <1>2

LEMMA LabIsSound == Spec => []LabInv
BY InitLab, LabStep, PTL DEF Spec

(***************************************************************************)
(* A server that was ready and is reported as such is gone with its        *)
(* descendants, and of its files none is left, in whatever order           *)
(* LoopbackServerSmoke.run, its tasks and the server interleave.           *)
(***************************************************************************)
THEOREM NothingIsLeft == Spec => []ServerLeavesNothing
<1>1. LabInv => ServerLeavesNothing
  BY DEF LabInv, ServerInv, RunJudged
<1> QED
  BY <1>1, LabIsSound, PTL

(***************************************************************************)
(* A summary of the smoke tool rests on runs of the build its manifest     *)
(* describes, and a candidate's on pairs of equal evidence that an         *)
(* OracleResult accepts, for every fixture and simulator run.              *)
(***************************************************************************)
THEOREM SummariesAreSound == Spec => []EvidenceIsSound
<1>1. LabInv => EvidenceIsSound
  BY DEF LabInv, SmokeInv
<1> QED
  BY <1>1, LabIsSound, PTL

-----------------------------------------------------------------------------
(***************************************************************************)
(* The manifest.  What NpmBuild seals has each record with its digest, so  *)
(* a change of one field is either refused or changes nothing that         *)
(* describes the build.                                                    *)
(***************************************************************************)
Sealed(m) ==
    \E h, role : m = ManifestOf([Untouched EXCEPT !.modules = "lock", !.dist = {"build"}], h, role)

ManifestOnDisk ==
    \/ manifest \in {None, Partial} \/ Sealed(manifest)
    \/ mishaps > 0 /\ \E m : Sealed(m) /\ manifest \in Edited(m)

ManifestInv ==
    /\ mishaps \in 0..MaxMishaps
    /\ pc = "building" => checkout.modules = "lock" /\ checkout.dist = {}
    /\ pc = "writing" => Sealed(job.document)
    /\ ManifestOnDisk

Describes(m) ==
    /\ m.dist = {"build"} /\ m.ruleset = {"build"} /\ m.modules = "lock"
    /\ <<m.role, m.node, m.npm>> \in ApprovedVersions /\ m.platform # "unsupported"

LEMMA SealedFields ==
    ASSUME NEW m, Sealed(m)
    PROVE  \E role, node, npm, platform :
             m = [role |-> role, node |-> node, npm |-> npm, platform |-> platform,
                  source |-> "pinned", modules |-> "lock", modulesDigest |-> "lock",
                  dist |-> {"build"}, distDigest |-> {"build"},
                  ruleset |-> {"build"}, rulesetDigest |-> {"build"}]
<1>1. PICK h, role : m = ManifestOf([Untouched EXCEPT !.modules = "lock", !.dist = {"build"}], h, role)
  BY DEF Sealed
<1> DEFINE c == [Untouched EXCEPT !.modules = "lock", !.dist = {"build"}]
<1>2. c.modules = "lock" /\ c.dist = {"build"}
  BY DEF Untouched
<1> HIDE DEF c
<1>3. m = ManifestOf(c, h, role)
  BY <1>1 DEF c
<1> QED
  BY <1>2, <1>3 DEF ManifestOf, DependencyRecords, DistRecords, Ruleset

LEMMA SealedDescribes ==
    ASSUME NEW m, Sealed(m), ManifestAccepted(m)
    PROVE  Describes(m)
<1>1. PICK role, node, npm, platform :
        m = [role |-> role, node |-> node, npm |-> npm, platform |-> platform,
             source |-> "pinned", modules |-> "lock", modulesDigest |-> "lock",
             dist |-> {"build"}, distDigest |-> {"build"},
             ruleset |-> {"build"}, rulesetDigest |-> {"build"}]
  BY SealedFields
<1> QED
  BY <1>1 DEF Describes, ManifestAccepted, SupportedPlatforms

LEMMA EditedDescribes ==
    ASSUME NEW m, Sealed(m), NEW d \in Edited(m), ManifestAccepted(d)
    PROVE  Describes(d)
<1>1. PICK role, node, npm, platform :
        m = [role |-> role, node |-> node, npm |-> npm, platform |-> platform,
             source |-> "pinned", modules |-> "lock", modulesDigest |-> "lock",
             dist |-> {"build"}, distDigest |-> {"build"},
             ruleset |-> {"build"}, rulesetDigest |-> {"build"}]
  BY SealedFields
<1>2. /\ <<d.role, d.node, d.npm>> \in ApprovedVersions /\ d.platform # "unsupported"
      /\ d.modulesDigest = d.modules /\ d.distDigest = d.dist /\ d.rulesetDigest = d.ruleset
  BY DEF ManifestAccepted, SupportedPlatforms, DependencyFilesAccepted, DistFilesAccepted
<1>3. "edit" \notin {"build"} /\ {"other"} # {"build"}
  OBVIOUS
<1>4. d.modules = "lock" /\ d.dist = {"build"} /\ d.ruleset = {"build"}
  <2>1. CASE d = [m EXCEPT !.dist = @ \cup {"edit"}]
    <3>1. d.dist = {"build"} \cup {"edit"} /\ d.distDigest = {"build"}
      BY <1>1, <2>1
    <3>2. "edit" \in d.dist
      BY <3>1
    <3> QED
      BY <1>2, <1>3, <3>1, <3>2
  <2>2. CASE d \in {[m EXCEPT !.ruleset = {"other"}], [m EXCEPT !.rulesetDigest = {"other"}]}
    <3>1. \/ d.ruleset = {"other"} /\ d.rulesetDigest = {"build"}
          \/ d.ruleset = {"build"} /\ d.rulesetDigest = {"other"}
      BY <1>1, <2>2
    <3> QED
      BY <1>2, <1>3, <3>1
  <2>3. CASE d = [m EXCEPT !.modules = "altered"]
    BY <1>1, <1>2, <2>3
  <2>4. CASE \/ d = [m EXCEPT !.role = IF @ = "candidate" THEN "comparison" ELSE "candidate"]
             \/ d \in {[m EXCEPT !.node = "node18"], [m EXCEPT !.npm = "npm9"],
                       [m EXCEPT !.platform = "windows"], [m EXCEPT !.platform = "unsupported"],
                       [m EXCEPT !.source = "other"]}
    BY <1>1, <2>4
  <2> QED
    BY <2>1, <2>2, <2>3, <2>4 DEF Edited
<1> QED
  BY <1>2, <1>4 DEF Describes

LEMMA InitManifest == Init => ManifestInv
BY MishapsAssumption DEF Init, ManifestInv, ManifestOnDisk

\* The manifest on disk is left alone or removed.
LEMMA ManifestKept ==
    ASSUME ManifestInv, manifest' \in {manifest, None}, mishaps' \in Nat, mishaps' >= mishaps
    PROVE  ManifestOnDisk'
<1> USE DEF ManifestOnDisk, ManifestInv
<1>1. CASE manifest' \in {None, Partial}
  BY <1>1
<1>2. CASE manifest' = manifest /\ Sealed(manifest)
  BY <1>2
<1>3. CASE manifest' = manifest /\ mishaps > 0 /\ \E m : Sealed(m) /\ manifest \in Edited(m)
  <2>1. mishaps' > 0 /\ \E m : Sealed(m) /\ manifest' \in Edited(m)
    BY <1>3
  <2> QED
    BY <2>1
<1> QED
  BY <1>1, <1>2, <1>3

\* A step after which the build tool is at none of its last steps.
LEMMA BuildElsewhere ==
    ASSUME ManifestInv, manifest' \in {manifest, None}, mishaps' \in 0..MaxMishaps,
           mishaps' >= mishaps, pc' \notin {"building", "writing"}
    PROVE  ManifestInv'
BY MishapsAssumption, ManifestKept DEF ManifestInv

LEMMA WorldManifest ==
    ASSUME LabInv, ManifestInv, World
    PROVE  ManifestInv'
<1>1. checkout \in Checkouts /\ UNCHANGED <<pc, job, manifest, mishaps>>
  BY DEF LabInv, ServerInv, ServerTypes, World, labVars
<1>2. checkout' \in {checkout, [checkout EXCEPT !.index = "regular"],
                     [checkout EXCEPT !.index = "odd"], [checkout EXCEPT !.config = "other"],
                     [checkout EXCEPT !.stray = TRUE]}
  BY DEF World, Outside, ServerExits, KinChanges, ServerWrites, WatcherReturns, DrainStdout,
         DrainStderr
<1>3. checkout'.modules = checkout.modules /\ checkout'.dist = checkout.dist
  BY <1>1, <1>2 DEF Checkouts
<1>4. ManifestOnDisk'
  BY <1>1, MishapsAssumption, ManifestKept DEF ManifestInv
<1> QED
  BY <1>1, <1>3, <1>4 DEF ManifestInv

LEMMA NpmCiManifest ==
    ASSUME LabInv, ManifestInv, NpmCi
    PROVE  ManifestInv'
<1>1. checkout \in Checkouts /\ UNCHANGED <<manifest, mishaps>>
  BY BuildRuns DEF NpmCi, buildFrame
<1>2. ManifestOnDisk' /\ mishaps' \in 0..MaxMishaps
  BY <1>1, MishapsAssumption, ManifestKept DEF ManifestInv
<1>3. CASE \E class \in CommandFailures("build_failed") : Stop(class) /\ UNCHANGED checkout
  BY <1>2, <1>3 DEF Stop, ManifestInv
<1>4. ASSUME ~(\E class \in CommandFailures("build_failed") : Stop(class) /\ UNCHANGED checkout)
      PROVE  ManifestInv'
  <2>0. PICK modules \in {"lock", "other"}, config \in {"none", "example", "other"},
             dist \in {{}, {"ci"}}, stray \in BOOLEAN :
          LET installed == [checkout EXCEPT !.modules = modules, !.config = config, !.dist = dist,
                                            !.stray = stray]
              failure == AfterCiFailure(installed)
          IN  /\ checkout' = IF failure = "ok" THEN AfterCi(installed)
                             ELSE WithoutGeneratedConfig(installed)
              /\ IF failure = "ok" THEN pc' = "building" /\ UNCHANGED <<outcome, job>>
                 ELSE Stop(failure)
    BY <1>4, ZenonT(60) DEF NpmCi
  <2> DEFINE installed == [checkout EXCEPT !.modules = modules, !.config = config,
                                           !.dist = dist, !.stray = stray]
             failure == AfterCiFailure(installed)
  <2>1. failure = "ok" => InstalledTree(installed)
    BY AfterCiFails
  <2>2. installed \in Checkouts /\ installed.modules = modules
    BY <1>1 DEF Checkouts
  <2>3. /\ checkout' = IF failure = "ok" THEN AfterCi(installed)
                       ELSE WithoutGeneratedConfig(installed)
        /\ pc' = IF failure = "ok" THEN "building" ELSE "idle"
    BY <2>0 DEF Stop
  <2> HIDE DEF installed, failure
  <2>4. AfterCi(installed).modules = installed.modules /\ AfterCi(installed).dist = {}
    BY <2>2 DEF Checkouts, AfterCi, ClearDist, WithoutGeneratedConfig
  <2>5. pc' = "building" => checkout'.modules = "lock" /\ checkout'.dist = {}
    BY <2>1, <2>2, <2>3, <2>4 DEF InstalledTree
  <2> QED
    BY <1>2, <2>3, <2>5 DEF ManifestInv
<1> QED
  BY <1>3, <1>4

LEMMA NpmBuildManifest ==
    ASSUME LabInv, ManifestInv, NpmBuild
    PROVE  ManifestInv'
<1>1. /\ checkout \in Checkouts /\ mishaps' = mishaps
      /\ checkout.modules = "lock" /\ checkout.dist = {}
  BY BuildRuns DEF NpmBuild, buildFrame, ManifestInv
<1>2. CASE manifest' = manifest /\ pc' = "idle"
  BY <1>1, <1>2, MishapsAssumption, BuildElsewhere DEF ManifestInv
<1>3. ASSUME NEW output \in {{}, {"build"}}, NEW config \in {"example", "other"},
             LET built == [checkout EXCEPT !.dist = @ \cup output, !.config = config]
                 failure == SealFailure(built, host)
             IN  /\ checkout' = WithoutGeneratedConfig(built)
                 /\ IF failure = "ok"
                    THEN /\ pc' = "writing" /\ manifest' = Partial
                         /\ job' = [role |-> job.role, document |-> ManifestOf(built, host, job.role)]
                         /\ UNCHANGED outcome
                    ELSE Stop(failure) /\ UNCHANGED manifest
      PROVE  ManifestInv'
  <2> DEFINE built == [checkout EXCEPT !.dist = @ \cup output, !.config = config]
             failure == SealFailure(built, host)
  <2>1. failure = "ok" => built.dist # {}
    BY SealFails
  <2>2. built.modules = "lock" /\ built.dist = output
    BY <1>1 DEF Checkouts
  <2>3. \/ pc' = "idle" /\ manifest' = manifest
        \/ /\ failure = "ok" /\ pc' = "writing" /\ manifest' = Partial
           /\ job'.document = ManifestOf(built, host, job.role)
    BY <1>3 DEF Stop
  <2> HIDE DEF built, failure
  <2>4. CASE failure = "ok" /\ pc' = "writing" /\ manifest' = Partial
             /\ job'.document = ManifestOf(built, host, job.role)
    <3> DEFINE c == [Untouched EXCEPT !.modules = "lock", !.dist = {"build"}]
    <3>1. c.modules = "lock" /\ c.dist = {"build"}
      BY DEF Untouched
    <3>2. built.dist = {"build"}
      BY <2>1, <2>2, <2>4
    <3> HIDE DEF c
    <3>3. job'.document = ManifestOf(c, host, job.role)
      BY <2>2, <2>4, <3>1, <3>2 DEF ManifestOf, DependencyRecords, DistRecords, Ruleset
    <3>4. Sealed(job'.document)
      BY <3>3 DEF Sealed, c
    <3> QED
      BY <1>1, <2>4, <3>4 DEF ManifestInv, ManifestOnDisk
  <2> QED
    BY <1>2, <2>3, <2>4
<1> QED
  BY <1>2, <1>3 DEF NpmBuild, Stop

LEMMA WriteManifestManifest ==
    ASSUME ManifestInv, WriteManifest
    PROVE  ManifestInv'
<1>1. Sealed(manifest') /\ pc' = "idle" /\ mishaps' = mishaps
  BY DEF ManifestInv, WriteManifest, Stop, buildFrame
<1> QED
  BY <1>1 DEF ManifestInv, ManifestOnDisk

LEMMA ChangeManifest ==
    ASSUME ManifestInv, Change, MaxMishaps \in {0, 1}
    PROVE  ManifestInv'
<1>1. mishaps = 0 /\ mishaps' = 1 /\ 1 \in 0..MaxMishaps /\ pc' = "idle"
  BY DEF ManifestInv, Change
<1>2. CASE manifest' = manifest
  BY <1>1, <1>2, BuildElsewhere
<1>3. CASE manifest \notin {None, Partial} /\ manifest' \in Edited(manifest)
  <2>1. Sealed(manifest)
    BY <1>1, <1>3 DEF ManifestInv, ManifestOnDisk
  <2>2. ManifestOnDisk'
    BY <1>1, <1>3, <2>1 DEF ManifestOnDisk
  <2> QED
    BY <1>1, <2>2 DEF ManifestInv
<1> QED
  BY <1>2, <1>3 DEF Change

LEMMA ManifestStep ==
    ASSUME LabInv, ManifestInv, [Next]_vars, MaxMishaps \in {0, 1}
    PROVE  ManifestInv'
<1>1. CASE VerifyOnly \/ BuildStarts \/ Acquire \/ SmokeStarts
  <2>1. manifest' = manifest /\ mishaps' = mishaps /\ pc' \notin {"building", "writing"}
    BY <1>1 DEF VerifyOnly, BuildStarts, Acquire, SmokeStarts, Stop, buildFrame
  <2> QED
    BY <2>1, BuildElsewhere DEF ManifestInv
<1>2. CASE ServerStep \/ CancelSmoke \/ Smoke
  <2>1. manifest' = manifest /\ mishaps' = mishaps /\ pc' \notin {"building", "writing"}
    BY <1>2 DEF ServerStep, CancelSmoke, Smoke, labVars, ServerReturns, VerifySession, AddResult,
                LaunchSimulator, SimulatorReturns, Stop, smokeFrame, counters
  <2> QED
    BY <2>1, BuildElsewhere DEF ManifestInv
<1>3. CASE Crash
  <2>1. manifest' = manifest /\ mishaps' = mishaps + 1 /\ mishaps < MaxMishaps /\ pc' = "idle"
    BY <1>3 DEF Crash, Stop
  <2> QED
    BY <2>1, MishapsAssumption, BuildElsewhere DEF ManifestInv
<1>4. CASE Clean
  <2>1. manifest' \in {manifest, None} /\ mishaps' = mishaps /\ pc' = "idle"
    BY <1>4 DEF Clean, counters
  <2> QED
    BY <2>1, BuildElsewhere DEF ManifestInv
<1>5. CASE UNCHANGED vars
  <2>1. UNCHANGED <<pc, job, manifest, mishaps, checkout>>
    BY <1>5 DEF vars, labVars
  <2> QED
    BY <2>1 DEF ManifestInv, ManifestOnDisk
<1> QED
  BY <1>1, <1>2, <1>3, <1>4, <1>5, WorldManifest, NpmCiManifest, NpmBuildManifest,
     WriteManifestManifest, ChangeManifest DEF Next, Build

(***************************************************************************)
(* A manifest that is on disk and accepted describes one build, wherever   *)
(* the build tool crashed and whatever one change from outside did to the  *)
(* checkout, the host or a field of the manifest.  Two changes could alter *)
(* records and their digest together, which nothing in the manifest tells: *)
(* hence the hypothesis.                                                   *)
(***************************************************************************)
THEOREM ManifestsDescribeTheBuild ==
    ASSUME MaxMishaps \in {0, 1}
    PROVE  Spec => []ManifestDescribesTheBuild
<1>1. Init => LabInv /\ ManifestInv
  BY InitLab, InitManifest
<1>2. LabInv /\ ManifestInv /\ [Next]_vars => LabInv' /\ ManifestInv'
  BY LabStep, ManifestStep
<1>3. ManifestInv => ManifestDescribesTheBuild
  <2> SUFFICES ASSUME ManifestInv, Loaded PROVE Describes(manifest)
    BY DEF ManifestDescribesTheBuild, Describes
  <2>1. ManifestAccepted(manifest) /\ manifest \notin {None, Partial}
    BY DEF Loaded
  <2>2. CASE Sealed(manifest)
    BY <2>1, <2>2, SealedDescribes
  <2>3. CASE \E m : Sealed(m) /\ manifest \in Edited(m)
    BY <2>1, <2>3, EditedDescribes
  <2> QED
    BY <2>1, <2>2, <2>3 DEF ManifestInv, ManifestOnDisk
<1> QED
  BY <1>1, <1>2, <1>3, PTL DEF Spec
=============================================================================
