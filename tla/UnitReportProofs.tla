-------------------------- MODULE UnitReportProofs --------------------------
(***************************************************************************)
(* UnitReport proved for any number of runs, edits and faults and for any  *)
(* compile and link commands: what is published is about one commit and    *)
(* one build, and what the gate says is durable.                           *)
(***************************************************************************)
EXTENDS UnitReport, TLAPS

\* Where the gate may be: while the run is recorded, ...
Recording == {"archive", "build", "test", "after"}
\* ... while its directory is writable, ...
Writing == Recording \cup {"assemble", "manifest", "verify", "freeze"}
\* ... and anywhere.
Places == Writing \cup {"verify2", "rename", "sync", "commit", "restore", "cleanup", "idle"}

Snapshots == [head : Nat, dirty : BOOLEAN]
FileSets == [Files -> 0..MaxRuns]
Reports == [files : FileSets, status : {"none", "passed", "failed"}]
Manifests == [files : FileSets, report : Reports]
Records == [commit : Nat, before : Snapshots, after : Snapshots, argv : Seq(STRING),
            links : Links \cup {<<>>}, built : BOOLEAN, passed : BOOLEAN, bounded : BOOLEAN,
            pinned : BOOLEAN, checked : BOOLEAN, made : Manifests]

TypeOK ==
    /\ repo \in [head : Nat \ {0}, dirty : BOOLEAN]
    /\ runs \in [Runs -> Records] /\ art \in [Runs -> FileSets] /\ report \in [Runs -> Reports]
    /\ sums \in [Runs -> Manifests]
    /\ at \in [Runs -> {"none", "partial", "final"}] /\ disk \in [Runs -> {"none", "partial", "final"}]
    /\ frozen \in [Runs -> BOOLEAN] /\ squat \in [Runs -> BOOLEAN] /\ kept \in [Runs -> BOOLEAN]
    /\ gate \in [pc : Places, r : 0..MaxRuns, anchor : Manifests, begun : BOOLEAN]
    /\ said \in [Runs -> {"none", "passed", "staged", "indeterminate", "incomplete", "killed"}]
    /\ trusted \subseteq Runs \X Nat
    /\ edits \in 0..MaxEdits /\ faults \in 0..MaxFaults
    /\ ~At("idle") => R \in Runs

\* A run that has not begun has left nothing.
Fresh == \A r \in Runs : r > R => /\ art[r] = Empty /\ sums[r] = NoSums /\ at[r] = "none"
                                  /\ disk[r] = "none" /\ ~frozen[r] /\ said[r] = "none"

\* Which names the directory of the running gate has.
Named ==
    /\ ~At("idle") => said[R] = "none"
    /\ At("archive") => at[R] = "none" /\ disk[R] = "none"
    /\ gate.pc \in (Writing \ {"archive"}) \cup {"verify2", "rename"} => at[R] = "partial" /\ disk[R] = "partial"
    /\ At("sync") => at[R] = "final" /\ disk[R] = "partial"
    /\ At("commit") => at[R] = "final" /\ disk[R] = "final"
    /\ At("restore") => disk[R] = "partial"
    /\ \A r \in Runs : disk[r] = "final" => at[r] = "final"

\* How far its directory is.
Written ==
    /\ gate.pc \in Writing => ~frozen[R]
    /\ gate.pc \in Recording \cup {"assemble", "manifest"} => sums[R] = NoSums
    /\ At("manifest") => report[R].status # "none"
    /\ gate.pc \in {"verify", "freeze", "verify2"} => gate.anchor = runs[R].made /\ gate.anchor # NoSums

\* A file of the latest run is in no other directory yet.
Origins == \A r \in Runs, f \in Files : art[r][f] <= R /\ (r # R => art[r][f] = 0 \/ art[r][f] < R)

\* What is about to be published, or is, or was trusted.
Whole(r) == frozen[r] /\ Complete(art[r])
Sealed(r) ==
    /\ Whole(r) /\ runs[r].made = [files |-> art[r], report |-> report[r]]
    /\ \E c \in 1..repo.head : About(r, c)
Finals == \A r \in Runs : (At("rename") /\ r = R) \/ at[r] = "final" => Sealed(r)
Trusts == \A t \in trusted : t[1] \in Runs /\ Whole(t[1]) /\ About(t[1], t[2])

IInv == TypeOK /\ Fresh /\ Named /\ Written /\ Origins /\ Finals /\ Trusts /\ SaidIsDurable

-----------------------------------------------------------------------------
USE BoundAssumption, CommandAssumption

LEMMA NothingTyped == Empty \in FileSets /\ NoReport \in Reports /\ NoSums \in Manifests
<1>1. Empty \in FileSets
  BY DEF Empty, FileSets
<1> HIDE DEF Empty, FileSets
<1>2. NoReport \in Reports
  BY <1>1 DEF NoReport, Reports
<1>3. NoSums \in Manifests
  BY <1>1, <1>2 DEF NoSums, Manifests
<1> QED  BY <1>1, <1>2, <1>3

LEMMA NoRunTyped == NoRun \in Records
<1>1. NoSums \in Manifests
  BY NothingTyped
<1>2. <<>> \in Seq(STRING) /\ [head |-> 0, dirty |-> FALSE] \in Snapshots
  BY DEF Snapshots
<1> QED  BY <1>1, <1>2 DEF NoRun, Records

\* The gate goes to another place.
LEMMA GateMoves ==
    ASSUME TypeOK, NEW c \in Places, gate' = [gate EXCEPT !.pc = c]
    PROVE  /\ gate' \in [pc : Places, r : 0..MaxRuns, anchor : Manifests, begun : BOOLEAN]
           /\ gate'.pc = c /\ gate'.r = gate.r /\ gate'.anchor = gate.anchor /\ gate'.begun = gate.begun
BY DEF TypeOK

\* The gate is over.
LEMMA GateEnds ==
    ASSUME TypeOK, NEW a \in Manifests, gate' = [Idle EXCEPT !.r = R, !.anchor = a]
    PROVE  /\ gate' \in [pc : Places, r : 0..MaxRuns, anchor : Manifests, begun : BOOLEAN]
           /\ gate'.pc = "idle" /\ gate'.r = gate.r
BY DEF TypeOK, Idle, R, Places

LEMMA GateEndsPlain ==
    ASSUME TypeOK, gate' = [Idle EXCEPT !.r = R]
    PROVE  /\ gate' \in [pc : Places, r : 0..MaxRuns, anchor : Manifests, begun : BOOLEAN]
           /\ gate'.pc = "idle" /\ gate'.r = gate.r
BY NothingTyped DEF TypeOK, Idle, R, Places

\* The gate writes files of its own.
LEMMA WritesOwn ==
    ASSUME TypeOK, R \in Runs, NEW fs, Writes(fs)
    PROVE  /\ art' \in [Runs -> FileSets]
           /\ \A r \in Runs \ {R} : art'[r] = art[r]
           /\ \A f \in Files : art'[R][f] \in {R, art[R][f]}
<1> DEFINE w == [f \in Files |-> IF f \in fs THEN R ELSE art[R][f]]
<1>1. art \in [Runs -> FileSets] /\ R \in 0..MaxRuns
  BY DEF TypeOK, R
<1>2. art' = [art EXCEPT ![R] = w]
  BY <1>1 DEF Writes
<1>3. w \in FileSets /\ \A f \in Files : w[f] \in {R, art[R][f]}
  BY <1>1 DEF FileSets
<1> HIDE DEF w
<1> QED  BY <1>1, <1>2, <1>3

\* The record of one run changes.
LEMMA RunRecorded ==
    ASSUME TypeOK, NEW x \in Runs, NEW y \in Records, runs' = [runs EXCEPT ![x] = y]
    PROVE  runs' \in [Runs -> Records] /\ runs'[x] = y /\ \A q \in Runs \ {x} : runs'[q] = runs[q]
BY DEF TypeOK

-----------------------------------------------------------------------------
\* Types

LEMMA InitTyped == ASSUME Init PROVE TypeOK
<1>1. gate \in [pc : Places, r : 0..MaxRuns, anchor : Manifests, begun : BOOLEAN] /\ gate.pc = "idle"
  BY NothingTyped DEF Init, Idle, Places
<1>2. runs \in [Runs -> Records] /\ art \in [Runs -> FileSets] /\ report \in [Runs -> Reports]
      /\ sums \in [Runs -> Manifests]
  BY NothingTyped, NoRunTyped DEF Init
<1> QED  BY <1>1, <1>2 DEF Init, TypeOK, At

LEMMA EditTyped == ASSUME TypeOK, Edit PROVE TypeOK'
<1>1. repo' \in [head : Nat \ {0}, dirty : BOOLEAN] /\ edits' \in 0..MaxEdits
      /\ UNCHANGED <<runs, art, report, sums, frozen, at, disk, squat, kept, gate, said, trusted, faults>>
  <2>1. repo \in [head : Nat \ {0}, dirty : BOOLEAN]
    BY DEF TypeOK
  <2>2. repo' \in [head : Nat \ {0}, dirty : BOOLEAN]
    <3>1. CASE repo' = [head |-> repo.head + 1, dirty |-> FALSE]
      BY <2>1, <3>1
    <3>2. CASE repo' = [repo EXCEPT !.dirty = TRUE]
      BY <2>1, <3>2
    <3> QED  BY <3>1, <3>2 DEF Edit
  <2>3. edits' \in 0..MaxEdits
    BY DEF TypeOK, Edit, Changes
  <2> QED  BY <2>2, <2>3 DEF Edit, dirs, names
<1> QED  BY <1>1 DEF TypeOK, At, R

LEMMA MisplaceTyped == ASSUME TypeOK, Misplace PROVE TypeOK'
<1>1. art' \in [Runs -> FileSets] /\ report' \in [Runs -> Reports] /\ sums' \in [Runs -> Manifests]
  <2>1. art \in [Runs -> FileSets] /\ report \in [Runs -> Reports] /\ sums \in [Runs -> Manifests]
    BY DEF TypeOK
  <2>2. PICK r \in Runs, q \in Runs \ {gate.r} :
           \/ \E f \in Files : /\ art' = [art EXCEPT ![r][f] = art[q][f]]
                               /\ UNCHANGED <<report, sums>>
           \/ /\ art' = [art EXCEPT ![r] = art[q]]
              /\ report' = [report EXCEPT ![r] = report[q]]
              /\ sums' = [sums EXCEPT ![r] = sums[q]]
    BY DEF Misplace
  <2>3. ASSUME NEW f \in Files, art' = [art EXCEPT ![r][f] = art[q][f]]
        PROVE  art' \in [Runs -> FileSets]
    BY <2>1, <2>3 DEF FileSets
  <2> QED  BY <2>1, <2>2, <2>3
<1>2. edits' \in 0..MaxEdits /\ UNCHANGED <<repo, runs, frozen, at, disk, squat, kept, gate, said, trusted, faults>>
  BY DEF TypeOK, Misplace, Changes, names
<1> QED  BY <1>1, <1>2 DEF TypeOK, At, R

LEMMA SquatTyped == ASSUME TypeOK, Squat PROVE TypeOK'
<1>1. squat' \in [Runs -> BOOLEAN] /\ edits' \in 0..MaxEdits
      /\ UNCHANGED <<repo, runs, art, report, sums, frozen, at, disk, kept, gate, said, trusted, faults>>
  BY DEF TypeOK, Squat, Changes, dirs
<1> QED  BY <1>1 DEF TypeOK, At, R

\* Begin, and what the record of the new run is.
LEMMA BeginTyped ==
    ASSUME TypeOK, Begin
    PROVE  /\ TypeOK' /\ gate'.pc = "archive" /\ gate'.r = gate.r + 1 /\ gate'.r \in Runs
           /\ \A q \in Runs \ {R + 1} : runs'[q] = runs[q]
<1>1. R \in 0..MaxRuns /\ R < MaxRuns /\ R + 1 \in Runs
  BY DEF TypeOK, Begin, R, Runs
<1>2. /\ gate' \in [pc : Places, r : 0..MaxRuns, anchor : Manifests, begun : BOOLEAN]
      /\ gate'.pc = "archive" /\ gate'.r = R + 1
  <2>1. gate' = [pc |-> "archive", r |-> R + 1, anchor |-> NoSums, begun |-> FALSE]
    BY DEF Begin, Idle
  <2>2. NoSums \in Manifests /\ R + 1 \in 0..MaxRuns /\ "archive" \in Places
    BY <1>1, NothingTyped DEF Places, Writing, Recording
  <2> QED  BY <2>1, <2>2
<1> DEFINE y == [runs[R + 1] EXCEPT !.commit = repo.head, !.checked = TRUE]
<1>3. runs[R + 1] \in Records /\ repo.head \in Nat
  BY <1>1 DEF TypeOK
<1>4. y \in Records
  BY <1>3 DEF Records
<1>5. runs' = [runs EXCEPT ![R + 1] = y]
  BY <1>1 DEF Begin, TypeOK
<1> HIDE DEF y
<1>6. runs' \in [Runs -> Records] /\ \A q \in Runs \ {R + 1} : runs'[q] = runs[q]
  BY <1>1, <1>4, <1>5, RunRecorded
<1>7. kept' \in [Runs -> BOOLEAN]
      /\ UNCHANGED <<repo, art, report, sums, frozen, at, disk, squat, said, trusted, edits, faults>>
  BY DEF Begin, TypeOK, dirs, names
<1> QED  BY <1>1, <1>2, <1>6, <1>7 DEF TypeOK, At, R

\* The steps that record the run: what they may change.
LEMMA RecordingTyped ==
    ASSUME TypeOK, Archive \/ Build \/ Test \/ After
    PROVE  /\ TypeOK' /\ gate.pc \in Recording /\ R \in Runs /\ gate'.r = gate.r
           /\ gate'.pc \in (Recording \ {"archive"}) \cup {"assemble"}
           /\ \A q \in Runs \ {R} : runs'[q] = runs[q]
           /\ \A r \in Runs \ {R} : art'[r] = art[r]
           /\ \A f \in Files : art'[R][f] \in {R, art[R][f]}
           /\ UNCHANGED <<repo, report, sums, frozen, squat, kept, said, trusted>>
           /\ IF gate.pc = "archive"
                THEN at' = [at EXCEPT ![R] = "partial"] /\ disk' = [disk EXCEPT ![R] = "partial"]
                ELSE UNCHANGED <<at, disk>>
<1>1. gate.pc \in Recording /\ R \in Runs
  <2>1. gate.pc \in Recording /\ ~At("idle")
    BY DEF Archive, Build, Test, After, At, Recording
  <2> QED  BY <2>1 DEF TypeOK
<1>2. \E c \in (Recording \ {"archive"}) \cup {"assemble"} : gate' = [gate EXCEPT !.pc = c]
  BY DEF Archive, Build, Test, After, To, Recording
<1>3. /\ gate' \in [pc : Places, r : 0..MaxRuns, anchor : Manifests, begun : BOOLEAN]
      /\ gate'.pc \in (Recording \ {"archive"}) \cup {"assemble"} /\ gate'.r = gate.r
  BY <1>2, GateMoves DEF Places, Writing, Recording
<1>4. \E fs : Writes(fs)
  BY DEF Archive, Build, Test, After
<1>5. /\ art' \in [Runs -> FileSets] /\ \A r \in Runs \ {R} : art'[r] = art[r]
      /\ \A f \in Files : art'[R][f] \in {R, art[R][f]}
  BY <1>1, <1>4, WritesOwn
<1>6. \E y \in Records : runs' = [runs EXCEPT ![R] = y]
  <2>1. runs[R] \in Records /\ runs = [r \in Runs |-> runs[r]] /\ repo \in Snapshots
    BY <1>1 DEF TypeOK, Snapshots
  <2>2. CASE Archive
    <3>1. runs' = [runs EXCEPT ![R] = [runs[R] EXCEPT !.before = repo]]
      BY <1>1, <2>1, <2>2 DEF Archive
    <3>2. [runs[R] EXCEPT !.before = repo] \in Records
      BY <2>1 DEF Records
    <3> QED  BY <3>1, <3>2
  <2>3. CASE After
    <3>1. runs' = [runs EXCEPT ![R] = [runs[R] EXCEPT !.after = repo]]
      BY <1>1, <2>1, <2>3 DEF After
    <3>2. [runs[R] EXCEPT !.after = repo] \in Records
      BY <2>1 DEF Records
    <3> QED  BY <3>1, <3>2
  <2>4. CASE Build
    <3>1. PICK argv \in Argvs, links \in Links, flaw \in {"none", "build", "pins"} :
             runs' = [runs EXCEPT ![R].argv = argv, ![R].links = links,
                                  ![R].built = flaw # "build", ![R].pinned = flaw # "pins"]
      BY <2>4 DEF Build
    <3> DEFINE y == [runs[R] EXCEPT !.argv = argv, !.links = links, !.built = flaw # "build",
                                    !.pinned = flaw # "pins"]
    <3>2. runs' = [runs EXCEPT ![R] = y]
      BY <1>1, <2>1, <3>1
    <3>3. y \in Records
      <4>1. argv \in Seq(STRING)
        OBVIOUS
      <4> QED  BY <2>1, <4>1 DEF Records
    <3> QED  BY <3>2, <3>3
  <2>5. CASE Test
    <3>1. CASE runs' = [runs EXCEPT ![R].passed = TRUE, ![R].bounded = TRUE]
      <4>1. runs' = [runs EXCEPT ![R] = [runs[R] EXCEPT !.passed = TRUE, !.bounded = TRUE]]
        BY <1>1, <2>1, <3>1
      <4>2. [runs[R] EXCEPT !.passed = TRUE, !.bounded = TRUE] \in Records
        BY <2>1 DEF Records
      <4> QED  BY <4>1, <4>2
    <3>2. ASSUME NEW k \in {"passed", "bounded"}, runs' = [runs EXCEPT ![R][k] = TRUE]
          PROVE  \E y \in Records : runs' = [runs EXCEPT ![R] = y]
      <4>1. runs' = [runs EXCEPT ![R] = [runs[R] EXCEPT ![k] = TRUE]]
        BY <1>1, <2>1, <3>2
      <4>2. CASE k = "passed"
        <5>1. [runs[R] EXCEPT !.passed = TRUE] \in Records
          BY <2>1 DEF Records
        <5> QED  BY <4>1, <4>2, <5>1
      <4>3. CASE k = "bounded"
        <5>1. [runs[R] EXCEPT !.bounded = TRUE] \in Records
          BY <2>1 DEF Records
        <5> QED  BY <4>1, <4>3, <5>1
      <4> QED  BY <4>2, <4>3
    <3> QED  BY <2>5, <3>1, <3>2 DEF Test
  <2> QED  BY <2>2, <2>3, <2>4, <2>5
<1>7. runs' \in [Runs -> Records] /\ \A q \in Runs \ {R} : runs'[q] = runs[q]
  BY <1>1, <1>6, RunRecorded
<1>8. UNCHANGED <<repo, report, sums, frozen, squat, kept, said, trusted, edits>> /\ faults' \in 0..MaxFaults
  <2>1. UNCHANGED <<repo, report, sums, frozen, squat, kept, said, trusted, edits>>
    BY DEF Archive, Build, Test, After, names
  <2>2. UNCHANGED faults \/ Fails
    BY DEF Archive, Build, Test, After, Works
  <2>3. faults' \in 0..MaxFaults
    BY <2>2 DEF TypeOK, Fails
  <2> QED  BY <2>1, <2>3
<1>9. IF gate.pc = "archive"
        THEN at' = [at EXCEPT ![R] = "partial"] /\ disk' = [disk EXCEPT ![R] = "partial"]
        ELSE UNCHANGED <<at, disk>>
  BY DEF Archive, Build, Test, After, At, names
<1>10. at' \in [Runs -> {"none", "partial", "final"}] /\ disk' \in [Runs -> {"none", "partial", "final"}]
  BY <1>9 DEF TypeOK
<1> QED  BY <1>1, <1>3, <1>5, <1>7, <1>8, <1>9, <1>10 DEF TypeOK, At, R

LEMMA AssembleTyped ==
    ASSUME TypeOK, Assemble
    PROVE  /\ TypeOK' /\ gate.pc = "assemble" /\ R \in Runs /\ gate'.r = gate.r /\ gate'.pc = "manifest"
           /\ report'[R].status # "none" /\ \A r \in Runs \ {R} : report'[r] = report[r]
           /\ UNCHANGED <<repo, runs, art, sums, frozen, at, disk, said, trusted>>
<1>1. gate.pc = "assemble" /\ R \in Runs
  BY DEF Assemble, At, TypeOK
<1>2. /\ gate' \in [pc : Places, r : 0..MaxRuns, anchor : Manifests, begun : BOOLEAN]
      /\ gate'.pc = "manifest" /\ gate'.r = gate.r
  BY GateMoves DEF Assemble, To, Places, Writing
<1>3. \E st \in {"passed", "failed"} : report' = [report EXCEPT ![R] = [files |-> art[R], status |-> st]]
  BY DEF Assemble
<1>4. art[R] \in FileSets /\ report \in [Runs -> Reports]
  BY <1>1 DEF TypeOK
<1>5. PICK st \in {"passed", "failed"} : report' = [report EXCEPT ![R] = [files |-> art[R], status |-> st]]
  BY <1>3
<1>6. [files |-> art[R], status |-> st] \in Reports
  BY <1>4 DEF Reports
<1>7. report' \in [Runs -> Reports] /\ report'[R].status # "none" /\ \A r \in Runs \ {R} : report'[r] = report[r]
  BY <1>1, <1>4, <1>5, <1>6
<1>8. UNCHANGED <<repo, runs, art, sums, frozen, at, disk, squat, kept, said, trusted, edits, faults>>
  BY DEF Assemble, names
<1> QED  BY <1>1, <1>2, <1>7, <1>8 DEF TypeOK, At, R

LEMMA ManifestTyped ==
    ASSUME TypeOK, GenerateManifest
    PROVE  /\ TypeOK' /\ gate.pc = "manifest" /\ R \in Runs /\ gate'.r = gate.r /\ gate'.pc = "verify"
           /\ gate'.anchor = [files |-> art[R], report |-> report[R]]
           /\ runs'[R].made = gate'.anchor /\ \A q \in Runs \ {R} : runs'[q] = runs[q]
           /\ \A r \in Runs \ {R} : sums'[r] = sums[r]
           /\ UNCHANGED <<repo, art, report, frozen, at, disk, said, trusted>>
<1> DEFINE m == [files |-> art[R], report |-> report[R]]
<1>1. gate.pc = "manifest" /\ R \in Runs
  BY DEF GenerateManifest, At, TypeOK
<1>2. m \in Manifests
  BY <1>1 DEF TypeOK, Manifests
<1>3. /\ sums' = [sums EXCEPT ![R] = m] /\ runs' = [runs EXCEPT ![R].made = m]
      /\ gate' = [gate EXCEPT !.pc = "verify", !.anchor = m, !.begun = TRUE]
      /\ UNCHANGED <<repo, art, report, frozen, at, disk, squat, kept, said, trusted, edits, faults>>
  BY DEF GenerateManifest, names
<1> HIDE DEF m
<1>4. /\ gate' \in [pc : Places, r : 0..MaxRuns, anchor : Manifests, begun : BOOLEAN]
      /\ gate'.pc = "verify" /\ gate'.r = gate.r /\ gate'.anchor = m
  BY <1>2, <1>3 DEF TypeOK, Places, Writing
<1> DEFINE y == [runs[R] EXCEPT !.made = m]
<1>5. y \in Records /\ y.made = m
  <2>1. runs[R] \in Records
    BY <1>1 DEF TypeOK
  <2> QED  BY <1>2, <2>1 DEF Records
<1>6. runs' = [runs EXCEPT ![R] = y]
  BY <1>1, <1>3 DEF TypeOK
<1> HIDE DEF y
<1>7. runs' \in [Runs -> Records] /\ runs'[R] = y /\ \A q \in Runs \ {R} : runs'[q] = runs[q]
  BY <1>1, <1>5, <1>6, RunRecorded
<1>8. sums' \in [Runs -> Manifests] /\ \A r \in Runs \ {R} : sums'[r] = sums[r]
  BY <1>1, <1>2, <1>3 DEF TypeOK
<1>9. TypeOK'
  BY <1>1, <1>3, <1>4, <1>7, <1>8 DEF TypeOK, At, R
<1>10. gate'.anchor = [files |-> art[R], report |-> report[R]]
  BY <1>4 DEF m
<1> QED  BY <1>1, <1>3, <1>4, <1>5, <1>7, <1>8, <1>9, <1>10

-----------------------------------------------------------------------------
\* What the collectors accept is about one commit and one build.

\* A strict command does not relax.
LEMMA StrictIsNotRelaxed ==
    ASSUME NEW argv \in Seq(STRING), StrictFlags(argv)
    PROVE  ~Relaxed(argv)
<1>1. DOMAIN argv = 1..Len(argv) /\ Len(argv) \in Nat
  OBVIOUS
<1>2. PICK i \in DOMAIN argv : argv[i] = "strict" /\ \A j \in DOMAIN argv : j > i => argv[j] \notin {"strict", "relaxed"}
  BY DEF StrictFlags, LastIs
<1>3. PICK k \in DOMAIN argv :
         argv[k] = "define" /\ \A j \in DOMAIN argv : j > k => argv[j] \notin {"define", "undefine", "redefine"}
  BY DEF StrictFlags, RequiredMacro, LastIs
<1>4. ASSUME NEW n \in DOMAIN argv, argv[n] = "relaxed", \A j \in n + 1..Len(argv) : argv[j] # "strict" PROVE FALSE
  <2>1. n # i /\ ~(n > i)
    BY <1>2, <1>4
  <2>2. i \in n + 1..Len(argv)
    BY <1>1, <1>2, <1>4, <2>1
  <2> QED  BY <1>2, <1>4, <2>2
<1>5. ASSUME NEW n \in DOMAIN argv, argv[n] = "undefine", \A j \in n + 1..Len(argv) : argv[j] # "define" PROVE FALSE
  <2>1. n # k /\ ~(n > k)
    BY <1>3, <1>5
  <2>2. k \in n + 1..Len(argv)
    BY <1>1, <1>3, <1>5, <2>1
  <2> QED  BY <1>3, <1>5, <2>2
<1> QED  BY <1>4, <1>5 DEF Relaxed

LEMMA EvidenceIsAbout ==
    ASSUME TypeOK, NEW r \in Runs, NEW d \in BOOLEAN, Complete(art[r]), Evidence(art[r], d),
           Wrote(art[r], "tar").commit = Src(art[r]).head
    PROVE  About(r, Src(art[r]).head)
<1> DEFINE a == art[r]
           c == Src(a).head
<1>0. \A f \in Files : a[f] \in Runs
  <2>1. a \in [Files -> 0..MaxRuns]
    BY DEF TypeOK, FileSets
  <2> QED  BY <2>1 DEF Complete, Runs
<1>1. runs[a["after"]].after.head = c
  BY DEF Evidence, SourceSnapshots, Wrote
<1>2. runs[a["workspace"]].commit = c /\ runs[a["tar"]].commit = c
  BY DEF Evidence, WorkspaceRecord, Wrote
<1>3. runs[a["receipt"]].commit = c /\ runs[a["capsule"]].commit = c
  BY DEF Evidence, CapsuleReceipt, CapsuleProfiles, Wrote
<1>4. a["build"] = a["workspace"] /\ a["compile"] = a["workspace"] /\ a["depends"] = a["workspace"]
  BY DEF Evidence, BuildRecords, BuildArgv, CompileEntries, DependencyAbi, Workspace
<1>5. /\ a["inventory"] = a["workspace"] /\ a["libs"] = a["workspace"] /\ a["tests"] = a["workspace"]
      /\ a["status"] = a["workspace"]
  BY DEF Evidence, InventoryRecord, TestStatus, Workspace
<1>6. runs[a["results"]].commit = c
  BY <1>2, <1>5 DEF Evidence, Rerun, Wrote
<1>7. \A f \in Files \ {"self", "link", "before", "after"} : runs[a[f]].commit = c
  BY <1>2, <1>3, <1>4, <1>5, <1>6 DEF Files
<1>8. ~Relaxed(runs[a["compile"]].argv)
  <2>1. a["compile"] \in Runs
    BY <1>0 DEF Files
  <2>2. runs[a["compile"]].argv \in Seq(STRING)
    BY <2>1 DEF TypeOK, Records
  <2>3. StrictFlags(runs[a["compile"]].argv)
    BY DEF Evidence, CompileStrict, Commands, Wrote
  <2> QED  BY <2>2, <2>3, StrictIsNotRelaxed
<1>9. "fault_library" \notin runs[a["link"]].links["production_test"].refs
  <2>1. LibraryReferences(runs[a["link"]].links["production_test"], {"production_library"})
    BY DEF Evidence, LinkRecord, LinkIsolation, Wrote
  <2> QED  BY <2>1 DEF LibraryReferences
<1> QED  BY <1>1, <1>4, <1>5, <1>7, <1>8, <1>9 DEF About

-----------------------------------------------------------------------------
\* What is frozen and complete stays what it is: only a directory that is
\* writable changes, and only the record of a run whose files are nowhere else.
LEMMA Sustains ==
    ASSUME IInv, repo'.head \in Nat, repo'.head >= repo.head,
           \A r \in Runs : frozen[r] => frozen'[r] /\ art'[r] = art[r] /\ report'[r] = report[r],
           NEW x, \A q \in Runs \ {x} : runs'[q] = runs[q],
           x \in Runs => ~frozen[x] /\ x >= R
    PROVE  /\ \A r \in Runs : Sealed(r) => Sealed(r)'
           /\ \A r \in Runs : \A c : Whole(r) /\ About(r, c) => Whole(r)' /\ About(r, c)'
<1>1. ASSUME NEW r \in Runs, Whole(r)
      PROVE  /\ Whole(r)' /\ \A f \in Files : runs'[art[r][f]] = runs[art[r][f]]
             /\ runs'[r] = runs[r]
  <2>1. r # x
    BY <1>1 DEF Whole
  <2>2. ASSUME NEW f \in Files PROVE runs'[art[r][f]] = runs[art[r][f]]
    <3>1. art[r][f] \in 0..MaxRuns /\ art[r][f] # 0
      BY <1>1, <2>2 DEF IInv, TypeOK, FileSets, Whole, Complete
    <3>2. art[r][f] <= R /\ (r # R => art[r][f] = 0 \/ art[r][f] < R)
      BY <1>1, <2>2 DEF IInv, Origins
    <3>3. R \in 0..MaxRuns
      BY DEF IInv, TypeOK, R
    <3>4. art[r][f] # x
      BY <2>1, <3>1, <3>2, <3>3 DEF Runs
    <3> QED  BY <3>1, <3>4 DEF Runs
  <2>3. Whole(r)'
    BY <1>1 DEF Whole, Complete
  <2> QED  BY <2>1, <2>2, <2>3
<1>2. ASSUME NEW r \in Runs, NEW c, Whole(r), About(r, c) PROVE About(r, c)'
  <2>1. art'[r] = art[r] /\ \A f \in Files : runs'[art[r][f]] = runs[art[r][f]]
    BY <1>1, <1>2 DEF Whole
  <2>2. /\ "before" \in Files /\ "after" \in Files /\ "compile" \in Files /\ "link" \in Files
    BY DEF Files
  <2>3. Src(art[r])' = Src(art[r]) /\ runs'[art'[r]["after"]] = runs[art[r]["after"]]
        /\ runs'[art'[r]["compile"]] = runs[art[r]["compile"]] /\ runs'[art'[r]["link"]] = runs[art[r]["link"]]
    BY <2>1, <2>2 DEF Src
  <2>4. Src(art[r])'.head = c /\ runs'[art'[r]["after"]].after.head = c
    BY <1>2, <2>3 DEF About
  <2>5. \A f \in Files \ {"self", "link", "before", "after"} : runs'[art'[r][f]].commit = c
    BY <1>2, <2>1 DEF About
  <2>6. \A f \in {"build", "compile", "depends", "libs", "tests", "inventory", "status"} :
           art'[r][f] = art'[r]["workspace"]
    BY <1>2, <2>1 DEF About
  <2>7. ~Relaxed(runs'[art'[r]["compile"]].argv)
    BY <1>2, <2>3 DEF About
  <2>8. "fault_library" \notin runs'[art'[r]["link"]].links["production_test"].refs
    BY <1>2, <2>3 DEF About
  <2> QED  BY <2>4, <2>5, <2>6, <2>7, <2>8 DEF About
<1>3. ASSUME NEW r \in Runs, Sealed(r) PROVE Sealed(r)'
  <2>1. Whole(r)' /\ runs'[r] = runs[r] /\ art'[r] = art[r] /\ report'[r] = report[r]
    BY <1>1, <1>3 DEF Sealed, Whole
  <2>2. PICK c \in 1..repo.head : About(r, c)
    BY <1>3 DEF Sealed
  <2>3. About(r, c)' /\ c \in 1..repo'.head
    <3>1. About(r, c)'
      BY <1>2, <1>3, <2>2 DEF Sealed
    <3>2. repo.head \in Nat
      BY DEF IInv, TypeOK
    <3> QED  BY <2>2, <3>1, <3>2
  <2> QED  BY <1>3, <2>1, <2>3 DEF Sealed
<1> QED  BY <1>1, <1>2, <1>3

\* So does what is published and what is trusted, if nothing is added.
LEMMA StaysPublished ==
    ASSUME IInv, repo'.head \in Nat, repo'.head >= repo.head,
           \A r \in Runs : frozen[r] => frozen'[r] /\ art'[r] = art[r] /\ report'[r] = report[r],
           NEW x, \A q \in Runs \ {x} : runs'[q] = runs[q],
           x \in Runs => ~frozen[x] /\ x >= R,
           \A r \in Runs : at'[r] = "final" => at[r] = "final" \/ Sealed(r),
           trusted' = trusted
    PROVE  (\A r \in Runs : at'[r] = "final" => Sealed(r)') /\ Trusts'
<1>1. /\ \A r \in Runs : Sealed(r) => Sealed(r)'
      /\ \A r \in Runs : \A c : Whole(r) /\ About(r, c) => Whole(r)' /\ About(r, c)'
  BY Sustains
<1>2. \A r \in Runs : at'[r] = "final" => Sealed(r)'
  BY <1>1 DEF IInv, Finals
<1>3. Trusts'
  <2> SUFFICES ASSUME NEW t \in trusted PROVE t[1] \in Runs /\ Whole(t[1])' /\ About(t[1], t[2])'
    BY DEF Trusts
  <2>1. t[1] \in Runs /\ Whole(t[1]) /\ About(t[1], t[2])
    BY DEF IInv, Trusts
  <2> QED  BY <1>1, <2>1
<1> QED  BY <1>2, <1>3

\* What every step of a publication, or of its end, leaves as it was.
LEMMA Publishing ==
    ASSUME IInv, UNCHANGED <<repo, runs, art, sums, trusted>>, gate'.r = gate.r,
           \A r \in Runs : frozen[r] => frozen'[r] /\ report'[r] = report[r],
           \A r \in Runs : r # R => /\ frozen'[r] = frozen[r] /\ said'[r] = said[r]
                                    /\ at'[r] \in {at[r], disk[r]} /\ disk'[r] = disk[r],
           \A r \in Runs : at'[r] = "final" => at[r] = "final" \/ Sealed(r)
    PROVE  /\ Fresh' /\ Origins' /\ Trusts'
           /\ \A r \in Runs : Sealed(r) => Sealed(r)'
           /\ \A r \in Runs : at'[r] = "final" => Sealed(r)'
           /\ \A r \in Runs : r # R => /\ disk'[r] = "final" => at'[r] = "final"
                                       /\ said'[r] = "passed" => at'[r] = "final" /\ disk'[r] = "final"
                                       /\ said'[r] = "staged" => at'[r] = "partial" /\ disk'[r] = "partial" /\ frozen'[r]
<1>1. repo'.head \in Nat /\ repo'.head >= repo.head
  BY DEF IInv, TypeOK
<1>2. 0 \notin Runs /\ \A q \in Runs \ {0} : runs'[q] = runs[q]
  BY DEF Runs
<1>3. \A r \in Runs : frozen[r] => frozen'[r] /\ art'[r] = art[r] /\ report'[r] = report[r]
  OBVIOUS
<1>4. (\A r \in Runs : at'[r] = "final" => Sealed(r)') /\ Trusts'
  BY <1>1, <1>2, <1>3, StaysPublished
<1>5. \A r \in Runs : Sealed(r) => Sealed(r)'
  BY <1>1, <1>2, <1>3, Sustains
<1>6. Fresh'
  <2> SUFFICES ASSUME NEW r \in Runs, r > R
               PROVE  /\ art'[r] = Empty /\ sums'[r] = NoSums /\ at'[r] = "none"
                      /\ disk'[r] = "none" /\ ~frozen'[r] /\ said'[r] = "none"
    BY DEF Fresh, R
  <2>1. r # R
    BY DEF IInv, TypeOK, R, Runs
  <2> QED  BY <2>1 DEF IInv, Fresh
<1>7. Origins'
  BY DEF IInv, Origins, R
<1>8. ASSUME NEW r \in Runs, r # R
      PROVE  /\ disk'[r] = "final" => at'[r] = "final"
             /\ said'[r] = "passed" => at'[r] = "final" /\ disk'[r] = "final"
             /\ said'[r] = "staged" => at'[r] = "partial" /\ disk'[r] = "partial" /\ frozen'[r]
  BY <1>8 DEF IInv, Named, SaidIsDurable
<1> QED  BY <1>4, <1>5, <1>6, <1>7, <1>8

-----------------------------------------------------------------------------
\* The surroundings

LEMMA EditKeeps == ASSUME IInv, Edit PROVE IInv'
<1>1. UNCHANGED <<runs, art, report, sums, frozen, at, disk, squat, kept, gate, said, trusted, faults>>
  BY DEF Edit, dirs, names
<1>2. repo'.head \in Nat /\ repo'.head >= repo.head
  <2>1. repo \in [head : Nat \ {0}, dirty : BOOLEAN]
    BY DEF IInv, TypeOK
  <2>2. CASE repo' = [head |-> repo.head + 1, dirty |-> FALSE]
    BY <2>1, <2>2
  <2>3. CASE repo' = [repo EXCEPT !.dirty = TRUE]
    BY <2>1, <2>3
  <2> QED  BY <2>2, <2>3 DEF Edit
<1>3. 0 \notin Runs /\ \A q \in Runs \ {0} : runs'[q] = runs[q]
  BY <1>1 DEF Runs
<1>4. \A r \in Runs : frozen[r] => frozen'[r] /\ art'[r] = art[r] /\ report'[r] = report[r]
  BY <1>1
<1>5. (\A r \in Runs : at'[r] = "final" => Sealed(r)') /\ Trusts'
  BY <1>1, <1>2, <1>3, <1>4, StaysPublished
<1>6. \A r \in Runs : Sealed(r) => Sealed(r)'
  BY <1>1, <1>2, <1>3, <1>4, Sustains
<1>7. Finals'
  BY <1>1, <1>5, <1>6 DEF IInv, Finals, At, R
<1>8. TypeOK'
  BY EditTyped DEF IInv
<1>9. Fresh' /\ Named' /\ Written' /\ Origins' /\ SaidIsDurable'
  BY <1>1 DEF IInv, Fresh, Named, Written, Origins, SaidIsDurable, At, R
<1> QED  BY <1>5, <1>7, <1>8, <1>9 DEF IInv

LEMMA SquatKeeps == ASSUME IInv, Squat PROVE IInv'
<1>1. UNCHANGED <<repo, runs, art, report, sums, frozen, at, disk, kept, gate, said, trusted, faults>>
  BY DEF Squat, dirs
<1>2. /\ Fresh' /\ Origins' /\ Trusts' /\ \A r \in Runs : Sealed(r) => Sealed(r)'
      /\ \A r \in Runs : at'[r] = "final" => Sealed(r)'
  BY <1>1, Publishing
<1>3. TypeOK'
  BY SquatTyped DEF IInv
<1>4. Finals'
  BY <1>1, <1>2 DEF IInv, Finals, At, R
<1>5. Named' /\ Written' /\ SaidIsDurable'
  BY <1>1 DEF IInv, Named, Written, SaidIsDurable, At, R
<1> QED  BY <1>2, <1>3, <1>4, <1>5 DEF IInv

\* Only a directory that is writable and named changes, and what it gets
\* is not of the running gate.
LEMMA MisplaceKeeps == ASSUME IInv, Misplace PROVE IInv'
<1>1. UNCHANGED <<repo, runs, frozen, at, disk, squat, kept, gate, said, trusted, faults>>
  BY DEF Misplace, names
<1>2. PICK r \in Runs, q \in Runs \ {gate.r} :
         /\ q # r /\ at[r] = "partial" /\ ~frozen[r]
         /\ \/ \E f \in Files : /\ art[r][f] # 0 /\ art[q][f] # 0
                                /\ art' = [art EXCEPT ![r][f] = art[q][f]]
                                /\ UNCHANGED <<report, sums>>
            \/ /\ sums[r] # NoSums /\ sums[q] # NoSums
               /\ art' = [art EXCEPT ![r] = art[q]]
               /\ report' = [report EXCEPT ![r] = report[q]]
               /\ sums' = [sums EXCEPT ![r] = sums[q]]
  BY DEF Misplace
<1>3. TypeOK /\ TypeOK'
  BY MisplaceTyped DEF IInv
<1>4. /\ \A p \in Runs \ {r} : art'[p] = art[p] /\ report'[p] = report[p] /\ sums'[p] = sums[p]
      /\ \A f \in Files : art'[r][f] \in {art[r][f], art[q][f]}
      /\ sums[r] = NoSums => UNCHANGED <<report, sums>>
  <2>1. art \in [Runs -> FileSets] /\ report \in [Runs -> Reports] /\ sums \in [Runs -> Manifests]
    BY <1>3 DEF TypeOK
  <2>2. ASSUME NEW f \in Files, art' = [art EXCEPT ![r][f] = art[q][f]]
        PROVE  /\ \A p \in Runs \ {r} : art'[p] = art[p]
               /\ \A g \in Files : art'[r][g] \in {art[r][g], art[q][g]}
    BY <2>1, <2>2 DEF FileSets
  <2>3. CASE \E f \in Files : art' = [art EXCEPT ![r][f] = art[q][f]] /\ UNCHANGED <<report, sums>>
    BY <2>2, <2>3
  <2>4. CASE /\ sums[r] # NoSums /\ art' = [art EXCEPT ![r] = art[q]]
             /\ report' = [report EXCEPT ![r] = report[q]] /\ sums' = [sums EXCEPT ![r] = sums[q]]
    BY <2>1, <2>4
  <2> QED  BY <1>2, <2>3, <2>4
<1>5. r <= R
  BY <1>2 DEF IInv, Fresh, TypeOK, R, Runs
<1>6. Fresh'
  BY <1>1, <1>4, <1>5 DEF IInv, Fresh, R, TypeOK, Runs
<1>7. Origins'
  <2> SUFFICES ASSUME NEW p \in Runs, NEW f \in Files
               PROVE  art'[p][f] <= R /\ (p # R => art'[p][f] = 0 \/ art'[p][f] < R)
    BY <1>1 DEF Origins, R
  <2>1. CASE p # r
    BY <1>4, <2>1 DEF IInv, Origins
  <2>2. CASE p = r
    <3>1. q # R
      BY DEF R
    <3>2. art'[p][f] = art[r][f] \/ art'[p][f] = art[q][f]
      BY <1>4, <2>2
    <3>3. art[q][f] <= R /\ (art[q][f] = 0 \/ art[q][f] < R)
      BY <3>1 DEF IInv, Origins
    <3>4. art[r][f] <= R /\ (r # R => art[r][f] = 0 \/ art[r][f] < R)
      BY DEF IInv, Origins
    <3> QED  BY <2>2, <3>2, <3>3, <3>4
  <2> QED  BY <2>1, <2>2
<1>8. Named' /\ SaidIsDurable'
  BY <1>1 DEF IInv, Named, SaidIsDurable, At, R
<1>9. Written'
  <2>1. CASE r # R
    <3>1. CASE R \in Runs
      BY <1>1, <1>4, <2>1, <3>1 DEF IInv, Written, At, R
    <3>2. CASE R \notin Runs
      BY <1>1, <1>3, <3>2 DEF TypeOK, Written, At, R, Writing, Recording
    <3> QED  BY <3>1, <3>2
  <2>2. CASE r = R
    BY <1>1, <1>4, <2>2 DEF IInv, Written, At, R
  <2> QED  BY <2>1, <2>2
<1>10. (\A p \in Runs : Sealed(p) => Sealed(p)') /\ (\A p \in Runs : at'[p] = "final" => Sealed(p)') /\ Trusts'
  <2>1. repo'.head \in Nat /\ repo'.head >= repo.head
    BY <1>1, <1>3 DEF TypeOK
  <2>2. 0 \notin Runs /\ \A p \in Runs \ {0} : runs'[p] = runs[p]
    BY <1>1 DEF Runs
  <2>3. \A p \in Runs : frozen[p] => frozen'[p] /\ art'[p] = art[p] /\ report'[p] = report[p]
    BY <1>1, <1>2, <1>4
  <2>4. \A p \in Runs : Sealed(p) => Sealed(p)'
    BY <2>1, <2>2, <2>3, Sustains
  <2> QED  BY <1>1, <2>1, <2>2, <2>3, <2>4, StaysPublished
<1>11. Finals'
  BY <1>1, <1>10 DEF IInv, Finals, At, R
<1> QED  BY <1>3, <1>6, <1>7, <1>8, <1>9, <1>10, <1>11 DEF IInv

-----------------------------------------------------------------------------
\* run_unit_gate.sh

LEMMA BeginKeeps == ASSUME IInv, Begin PROVE IInv'
<1>1. /\ TypeOK /\ TypeOK' /\ gate'.pc = "archive" /\ gate'.r = gate.r + 1 /\ gate'.r \in Runs
      /\ \A q \in Runs \ {R + 1} : runs'[q] = runs[q]
  BY BeginTyped DEF IInv
<1>2. UNCHANGED <<repo, art, report, sums, frozen, at, disk, said, trusted>> /\ gate.pc = "idle"
  BY DEF Begin, dirs, names, At
<1>3. gate.r \in Nat /\ R + 1 > R /\ R + 1 \in Runs /\ R + 1 = gate'.r
  BY <1>1 DEF TypeOK, R
<1>4. art[R + 1] = Empty /\ sums[R + 1] = NoSums /\ at[R + 1] = "none" /\ disk[R + 1] = "none"
      /\ ~frozen[R + 1] /\ said[R + 1] = "none"
  BY <1>3 DEF IInv, Fresh
<1>5. Fresh'
  BY <1>1, <1>2, <1>3 DEF IInv, Fresh, R, Runs
<1>6. Named'
  BY <1>1, <1>2, <1>3, <1>4 DEF IInv, Named, R, At, Writing, Recording
<1>7. Written'
  BY <1>1, <1>2, <1>3, <1>4 DEF Written, R, At, Writing, Recording
<1>8. Origins'
  <2> SUFFICES ASSUME NEW p \in Runs, NEW f \in Files
               PROVE  art[p][f] <= gate.r + 1 /\ art[p][f] < gate.r + 1
    BY <1>1, <1>2 DEF Origins, R
  <2>1. art[p][f] <= gate.r /\ art[p][f] \in Nat
    BY <1>1 DEF IInv, Origins, R, TypeOK, FileSets
  <2> QED  BY <1>3, <2>1
<1>9. (\A r \in Runs : at'[r] = "final" => Sealed(r)') /\ Trusts'
  <2>1. repo'.head \in Nat /\ repo'.head >= repo.head
    BY <1>1, <1>2 DEF TypeOK
  <2>2. \A r \in Runs : frozen[r] => frozen'[r] /\ art'[r] = art[r] /\ report'[r] = report[r]
    BY <1>2
  <2>3. R + 1 >= R
    BY <1>3 DEF R
  <2>4. PICK x : x = R + 1
    OBVIOUS
  <2>5. (\A q \in Runs \ {x} : runs'[q] = runs[q]) /\ (x \in Runs => ~frozen[x] /\ x >= R)
    BY <1>1, <1>4, <2>3, <2>4
  <2>6. \A r \in Runs : at'[r] = "final" => at[r] = "final" \/ Sealed(r)
    BY <1>2
  <2> QED  BY <1>2, <2>1, <2>2, <2>5, <2>6, StaysPublished
<1>10. Finals'
  BY <1>1, <1>9 DEF Finals, At
<1>11. SaidIsDurable'
  BY <1>2 DEF IInv, SaidIsDurable
<1> QED  BY <1>1, <1>5, <1>6, <1>7, <1>8, <1>9, <1>10, <1>11 DEF IInv

\* The directory of the running gate is written while nothing depends on it.
LEMMA RecordingKeeps == ASSUME IInv, Archive \/ Build \/ Test \/ After PROVE IInv'
<1>1. /\ TypeOK /\ TypeOK' /\ gate.pc \in Recording /\ R \in Runs /\ gate'.r = gate.r
      /\ gate'.pc \in (Recording \ {"archive"}) \cup {"assemble"}
      /\ \A q \in Runs \ {R} : runs'[q] = runs[q]
      /\ \A r \in Runs \ {R} : art'[r] = art[r]
      /\ \A f \in Files : art'[R][f] \in {R, art[R][f]}
      /\ UNCHANGED <<repo, report, sums, frozen, squat, kept, said, trusted>>
  BY RecordingTyped DEF IInv
<1>2. /\ at'[R] = "partial" /\ disk'[R] = "partial"
      /\ \A r \in Runs \ {R} : at'[r] = at[r] /\ disk'[r] = disk[r]
  <2>1. IF gate.pc = "archive"
          THEN at' = [at EXCEPT ![R] = "partial"] /\ disk' = [disk EXCEPT ![R] = "partial"]
          ELSE UNCHANGED <<at, disk>>
    BY RecordingTyped DEF IInv
  <2>2. CASE gate.pc = "archive"
    BY <1>1, <2>1, <2>2 DEF TypeOK
  <2>3. CASE gate.pc # "archive"
    BY <1>1, <2>1, <2>3 DEF IInv, Named, Writing, Recording
  <2> QED  BY <2>2, <2>3
<1>3. ~frozen[R] /\ sums[R] = NoSums /\ said[R] = "none"
  BY <1>1 DEF IInv, Written, Named, Writing, Recording, At
<1>4. Fresh'
  BY <1>1, <1>2 DEF IInv, Fresh, R, TypeOK, Runs
<1>5. Named'
  BY <1>1, <1>2, <1>3 DEF IInv, Named, At, R, Recording, Writing
<1>6. Written'
  BY <1>1, <1>3 DEF Written, At, R, Recording, Writing
<1>7. Origins'
  <2> SUFFICES ASSUME NEW p \in Runs, NEW f \in Files
               PROVE  art'[p][f] <= R /\ (p # R => art'[p][f] = 0 \/ art'[p][f] < R)
    BY <1>1 DEF Origins, R
  <2>1. CASE p # R
    BY <1>1, <2>1 DEF IInv, Origins
  <2>2. CASE p = R
    <3>1. art'[p][f] = R \/ art'[p][f] = art[R][f]
      BY <1>1, <2>2
    <3>2. art[R][f] <= R /\ R <= R
      BY <1>1 DEF IInv, Origins, Runs
    <3> QED  BY <2>2, <3>1, <3>2
  <2> QED  BY <2>1, <2>2
<1>8. (\A r \in Runs : at'[r] = "final" => Sealed(r)') /\ Trusts'
  <2>1. repo'.head \in Nat /\ repo'.head >= repo.head
    BY <1>1 DEF TypeOK
  <2>2. \A r \in Runs : frozen[r] => frozen'[r] /\ art'[r] = art[r] /\ report'[r] = report[r]
    BY <1>1, <1>3
  <2>3. R >= R
    BY <1>1 DEF Runs
  <2>4. PICK x : x = R
    OBVIOUS
  <2>5. (\A q \in Runs \ {x} : runs'[q] = runs[q]) /\ (x \in Runs => ~frozen[x] /\ x >= R)
    BY <1>1, <1>3, <2>3, <2>4
  <2>6. \A r \in Runs : at'[r] = "final" => at[r] = "final" \/ Sealed(r)
    BY <1>2
  <2> QED  BY <1>1, <2>1, <2>2, <2>5, <2>6, StaysPublished
<1>9. Finals'
  BY <1>1, <1>8 DEF Finals, At, Recording
<1>10. SaidIsDurable'
  BY <1>1, <1>2, <1>3 DEF IInv, SaidIsDurable
<1> QED  BY <1>1, <1>4, <1>5, <1>6, <1>7, <1>8, <1>9, <1>10 DEF IInv

LEMMA AssembleKeeps == ASSUME IInv, Assemble PROVE IInv'
<1>1. /\ TypeOK' /\ gate.pc = "assemble" /\ R \in Runs /\ gate'.r = gate.r /\ gate'.pc = "manifest"
      /\ report'[R].status # "none" /\ \A r \in Runs \ {R} : report'[r] = report[r]
      /\ UNCHANGED <<repo, runs, art, sums, frozen, at, disk, said, trusted>>
  BY AssembleTyped DEF IInv
<1>2. ~frozen[R] /\ sums[R] = NoSums
  BY <1>1 DEF IInv, Written, Writing
<1>3. Fresh' /\ Origins' /\ Trusts' /\ \A r \in Runs : at'[r] = "final" => Sealed(r)'
  <2>1. \A r \in Runs : frozen[r] => frozen'[r] /\ report'[r] = report[r]
    BY <1>1, <1>2
  <2> QED  BY <1>1, <2>1, Publishing
<1>4. Named' /\ SaidIsDurable'
  BY <1>1 DEF IInv, Named, SaidIsDurable, At, R, Writing, Recording
<1>5. Written'
  BY <1>1, <1>2 DEF Written, At, R, Writing, Recording
<1>6. Finals'
  BY <1>1, <1>3 DEF Finals, At
<1> QED  BY <1>1, <1>3, <1>4, <1>5, <1>6 DEF IInv

\* The manifest is anchored; the report it lists is not the empty one.
LEMMA ManifestKeeps == ASSUME IInv, GenerateManifest PROVE IInv'
<1>1. /\ TypeOK /\ TypeOK' /\ gate.pc = "manifest" /\ R \in Runs /\ gate'.r = gate.r /\ gate'.pc = "verify"
      /\ gate'.anchor = [files |-> art[R], report |-> report[R]]
      /\ runs'[R].made = gate'.anchor /\ \A q \in Runs \ {R} : runs'[q] = runs[q]
      /\ \A r \in Runs \ {R} : sums'[r] = sums[r]
      /\ UNCHANGED <<repo, art, report, frozen, at, disk, said, trusted>>
  BY ManifestTyped DEF IInv
<1>2. ~frozen[R] /\ report[R].status # "none"
  BY <1>1 DEF IInv, Written, Writing, At
<1>3. gate'.anchor # NoSums
  BY <1>1, <1>2 DEF NoSums, NoReport
<1>4. Fresh' /\ Origins'
  BY <1>1 DEF IInv, Fresh, Origins, R, TypeOK, Runs
<1>5. Named' /\ SaidIsDurable'
  BY <1>1 DEF IInv, Named, SaidIsDurable, At, R, Writing, Recording
<1>6. Written'
  BY <1>1, <1>2, <1>3 DEF Written, At, R, Writing, Recording
<1>7. (\A r \in Runs : at'[r] = "final" => Sealed(r)') /\ Trusts'
  <2>1. repo'.head \in Nat /\ repo'.head >= repo.head
    BY <1>1 DEF TypeOK
  <2>2. \A r \in Runs : frozen[r] => frozen'[r] /\ art'[r] = art[r] /\ report'[r] = report[r]
    BY <1>1
  <2>3. R >= R
    BY <1>1 DEF Runs
  <2>4. PICK x : x = R
    OBVIOUS
  <2>5. (\A q \in Runs \ {x} : runs'[q] = runs[q]) /\ (x \in Runs => ~frozen[x] /\ x >= R)
    BY <1>1, <1>2, <2>3, <2>4
  <2>6. \A r \in Runs : at'[r] = "final" => at[r] = "final" \/ Sealed(r)
    BY <1>1
  <2> QED  BY <1>1, <2>1, <2>2, <2>5, <2>6, StaysPublished
<1>8. Finals'
  BY <1>1, <1>7 DEF Finals, At
<1> QED  BY <1>1, <1>4, <1>5, <1>6, <1>7, <1>8 DEF IInv

LEMMA WriteFailsKeeps == ASSUME IInv, WriteFails PROVE IInv'
<1>1. gate.pc \in {"assemble", "manifest"} /\ R \in Runs /\ TypeOK
  BY DEF IInv, TypeOK, WriteFails, At
<1>2. /\ gate' \in [pc : Places, r : 0..MaxRuns, anchor : Manifests, begun : BOOLEAN]
      /\ gate'.pc = "cleanup" /\ gate'.r = gate.r
  BY <1>1, GateMoves DEF WriteFails, To, Places
<1>3. UNCHANGED <<repo, runs, art, sums, frozen, at, disk, squat, kept, said, trusted, edits>> /\ faults' \in 0..MaxFaults
  BY <1>1 DEF WriteFails, Fails, names, TypeOK
<1>4. report' \in [Runs -> Reports] /\ \A r \in Runs \ {R} : report'[r] = report[r]
  <2>1. art[R] \in FileSets /\ report \in [Runs -> Reports]
    BY <1>1 DEF TypeOK
  <2>2. report' = report \/ report' = [report EXCEPT ![R] = [files |-> art[R], status |-> "failed"]]
    BY DEF WriteFails
  <2>3. [files |-> art[R], status |-> "failed"] \in Reports
    BY <2>1 DEF Reports
  <2> QED  BY <1>1, <2>1, <2>2, <2>3
<1>5. TypeOK'
  BY <1>1, <1>2, <1>3, <1>4 DEF TypeOK, At, R
<1>6. ~frozen[R]
  BY <1>1 DEF IInv, Written, Writing
<1>7. Fresh' /\ Origins' /\ Trusts' /\ \A r \in Runs : at'[r] = "final" => Sealed(r)'
  <2>1. \A r \in Runs : frozen[r] => frozen'[r] /\ report'[r] = report[r]
    BY <1>3, <1>4, <1>6
  <2> QED  BY <1>2, <1>3, <2>1, Publishing
<1>8. Named' /\ SaidIsDurable'
  BY <1>1, <1>2, <1>3 DEF IInv, Named, SaidIsDurable, At, R, Writing, Recording
<1>9. Written'
  BY <1>2 DEF Written, At, Writing, Recording
<1>10. Finals'
  BY <1>2, <1>7 DEF Finals, At
<1> QED  BY <1>5, <1>7, <1>8, <1>9, <1>10 DEF IInv

-----------------------------------------------------------------------------
\* finalize_staging_noreplace

\* What the verification of the frozen directory shows.
LEMMA VerifiedIsSealed ==
    ASSUME IInv, R \in Runs, gate.anchor = runs[R].made, gate.anchor # NoSums,
           VerifyUnit(R, gate.anchor, TRUE)
    PROVE  \A r \in Runs : r = R => Sealed(r)
<1> SUFFICES ASSUME NEW r \in Runs, r = R PROVE Sealed(r)
  OBVIOUS
<1>1. VerifyUnit(r, gate.anchor, TRUE) /\ TypeOK
  BY DEF IInv
<1>2. Whole(r)
  BY <1>1 DEF VerifyUnit, RegularFiles, Whole
<1>3. runs[r].made = [files |-> art[r], report |-> report[r]]
  BY <1>1 DEF VerifyUnit, ManifestHolds, AnchorHolds
<1>4. About(r, Src(art[r]).head)
  <2>1. Complete(art[r]) /\ Evidence(art[r], FALSE) /\ Wrote(art[r], "tar").commit = Src(art[r]).head
    BY <1>1 DEF VerifyUnit, SourceArchive
  <2> QED  BY <1>1, <2>1, EvidenceIsAbout
<1>5. Src(art[r]).head = repo.head
  BY <1>1 DEF VerifyUnit, LiveSource
<1>6. repo.head \in 1..repo.head
  BY <1>1 DEF TypeOK
<1> QED  BY <1>2, <1>3, <1>4, <1>5, <1>6 DEF Sealed

\* The gate goes to another place and nothing else happens.
LEMMA MoveKeeps ==
    ASSUME IInv, NEW c \in {"freeze", "rename", "restore", "cleanup"}, To(c), R \in Runs,
           UNCHANGED <<repo, runs, dirs, names, kept, said, trusted, edits>>, faults' \in 0..MaxFaults,
           c = "freeze" => gate.pc = "verify",
           c = "rename" => gate.pc = "verify2" /\ \A r \in Runs : r = R => Sealed(r),
           c = "restore" => disk[R] = "partial",
           ~At("idle")
    PROVE  IInv'
<1>1. /\ gate' \in [pc : Places, r : 0..MaxRuns, anchor : Manifests, begun : BOOLEAN]
      /\ gate'.pc = c /\ gate'.r = gate.r /\ gate'.anchor = gate.anchor
  BY GateMoves DEF IInv, To, Places, Writing
<1>2. UNCHANGED <<repo, runs, art, report, sums, frozen, at, disk, squat, kept, said, trusted, edits>>
  BY DEF dirs, names
<1>3. TypeOK'
  BY <1>1, <1>2 DEF IInv, TypeOK, At, R
<1>4. /\ Fresh' /\ Origins' /\ Trusts' /\ \A r \in Runs : Sealed(r) => Sealed(r)'
      /\ \A r \in Runs : at'[r] = "final" => Sealed(r)'
  BY <1>1, <1>2, Publishing
<1>5. Named'
  BY <1>1, <1>2 DEF IInv, Named, At, R, Writing, Recording
<1>6. Written'
  BY <1>1, <1>2 DEF IInv, Written, At, R, Writing, Recording
<1>7. Finals'
  BY <1>1, <1>2, <1>4 DEF Finals, At, R
<1>8. SaidIsDurable'
  BY <1>2 DEF IInv, SaidIsDurable
<1> QED  BY <1>3, <1>4, <1>5, <1>6, <1>7, <1>8 DEF IInv

LEMMA VerifyStagingKeeps == ASSUME IInv, VerifyStaging PROVE IInv'
<1>1. gate.pc = "verify" /\ R \in Runs /\ ~At("idle")
  BY DEF VerifyStaging, At, IInv, TypeOK
<1>2. faults' \in 0..MaxFaults /\ UNCHANGED <<repo, runs, dirs, names, kept, said, trusted, edits>>
  BY DEF VerifyStaging, IInv, TypeOK
<1>3. To("freeze") \/ To("cleanup")
  BY DEF VerifyStaging
<1> QED  BY <1>1, <1>2, <1>3, MoveKeeps

LEMMA VerifyFrozenKeeps == ASSUME IInv, VerifyFrozen PROVE IInv'
<1>1. gate.pc = "verify2" /\ R \in Runs /\ ~At("idle")
  BY DEF VerifyFrozen, At, IInv, TypeOK
<1>2. faults' \in 0..MaxFaults /\ UNCHANGED <<repo, runs, dirs, names, kept, said, trusted, edits>>
  BY DEF VerifyFrozen, IInv, TypeOK
<1>3. CASE VerifyUnit(R, gate.anchor, TRUE)
  <2>1. gate.anchor = runs[R].made /\ gate.anchor # NoSums
    BY <1>1 DEF IInv, Written
  <2>2. \A r \in Runs : r = R => Sealed(r)
    BY <1>1, <1>3, <2>1, VerifiedIsSealed
  <2>3. To("rename")
    BY <1>3 DEF VerifyFrozen
  <2> QED  BY <1>1, <1>2, <2>2, <2>3, MoveKeeps
<1>4. CASE ~VerifyUnit(R, gate.anchor, TRUE)
  <2>1. To("cleanup")
    BY <1>4 DEF VerifyFrozen
  <2> QED  BY <1>1, <1>2, <2>1, MoveKeeps
<1> QED  BY <1>3, <1>4

LEMMA InterruptKeeps == ASSUME IInv, Interrupt PROVE IInv'
<1>1. gate.pc \in {"verify", "freeze", "verify2", "rename", "sync", "commit"} /\ R \in Runs /\ ~At("idle")
  BY DEF Interrupt, At, IInv, TypeOK
<1>2. faults' \in 0..MaxFaults /\ UNCHANGED <<repo, runs, dirs, names, kept, said, trusted, edits>>
  BY DEF Interrupt, Fails, IInv, TypeOK
<1>3. CASE gate.pc \in {"rename", "sync"}
  <2>1. To("restore")
    BY <1>3 DEF Interrupt
  <2>2. disk[R] = "partial"
    BY <1>3 DEF IInv, Named, At
  <2> QED  BY <1>1, <1>2, <2>1, <2>2, MoveKeeps
<1>4. CASE gate.pc \notin {"rename", "sync"}
  <2>1. To("cleanup")
    BY <1>4 DEF Interrupt
  <2> QED  BY <1>1, <1>2, <2>1, MoveKeeps
<1> QED  BY <1>3, <1>4

LEMMA FreezeKeeps == ASSUME IInv, Freeze PROVE IInv'
<1>1. gate.pc = "freeze" /\ R \in Runs /\ TypeOK
  BY DEF Freeze, At, IInv, TypeOK
<1>2. /\ gate' \in [pc : Places, r : 0..MaxRuns, anchor : Manifests, begun : BOOLEAN]
      /\ gate'.pc = "verify2" /\ gate'.r = gate.r /\ gate'.anchor = gate.anchor
  BY <1>1, GateMoves DEF Freeze, To, Places
<1>3. UNCHANGED <<repo, runs, art, report, sums, at, disk, squat, kept, said, trusted, edits, faults>>
  BY DEF Freeze, names
<1>4. frozen' \in [Runs -> BOOLEAN] /\ frozen'[R] /\ \A r \in Runs \ {R} : frozen'[r] = frozen[r]
  BY <1>1 DEF Freeze, TypeOK
<1>5. TypeOK'
  BY <1>1, <1>2, <1>3, <1>4 DEF TypeOK, At, R
<1>6. Fresh' /\ Origins' /\ Trusts' /\ \A r \in Runs : at'[r] = "final" => Sealed(r)'
  BY <1>2, <1>3, <1>4, Publishing
<1>7. Named'
  BY <1>1, <1>2, <1>3 DEF IInv, Named, At, R, Writing, Recording
<1>8. Written'
  BY <1>1, <1>2, <1>3 DEF IInv, Written, At, R, Writing, Recording
<1>9. Finals'
  BY <1>2, <1>6 DEF Finals, At
<1>10. SaidIsDurable'
  BY <1>3, <1>4 DEF IInv, SaidIsDurable
<1> QED  BY <1>5, <1>6, <1>7, <1>8, <1>9, <1>10 DEF IInv

LEMMA RenameKeeps == ASSUME IInv, Rename PROVE IInv'
<1>1. gate.pc = "rename" /\ R \in Runs /\ TypeOK /\ ~At("idle")
  BY DEF Rename, At, IInv, TypeOK
<1>2. UNCHANGED <<repo, runs, art, report, sums, frozen, disk, squat, kept, said, trusted, edits, faults>>
  BY DEF Rename, dirs
<1>3. CASE squat[R]
  <2>1. To("restore") /\ UNCHANGED <<repo, runs, dirs, names, kept, said, trusted, edits>>
    BY <1>2, <1>3 DEF Rename, dirs, names
  <2>2. disk[R] = "partial" /\ faults' \in 0..MaxFaults
    BY <1>1, <1>2 DEF IInv, Named, TypeOK
  <2> QED  BY <1>1, <2>1, <2>2, MoveKeeps
<1>4. CASE ~squat[R]
  <2>1. /\ gate' \in [pc : Places, r : 0..MaxRuns, anchor : Manifests, begun : BOOLEAN]
        /\ gate'.pc = "sync" /\ gate'.r = gate.r
    BY <1>1, <1>4, GateMoves DEF Rename, To, Places
  <2>2. /\ at' \in [Runs -> {"none", "partial", "final"}]
        /\ at'[R] = "final" /\ \A r \in Runs \ {R} : at'[r] = at[r]
    BY <1>1, <1>4 DEF Rename, TypeOK
  <2>3. TypeOK'
    BY <1>1, <1>2, <2>1, <2>2 DEF TypeOK, At, R
  <2>4. \A r \in Runs : at'[r] = "final" => at[r] = "final" \/ Sealed(r)
    BY <1>1, <2>2 DEF IInv, Finals, At
  <2>5. Fresh' /\ Origins' /\ Trusts' /\ \A r \in Runs : at'[r] = "final" => Sealed(r)'
    BY <1>2, <2>1, <2>2, <2>4, Publishing
  <2>6. Named'
    BY <1>1, <1>2, <2>1, <2>2 DEF IInv, Named, At, R, Writing, Recording
  <2>7. Written'
    BY <2>1 DEF Written, At, Writing, Recording
  <2>8. Finals'
    BY <2>1, <2>5 DEF Finals, At
  <2>9. SaidIsDurable'
    BY <1>1, <1>2, <2>2 DEF IInv, SaidIsDurable, Named, At
  <2> QED  BY <2>3, <2>5, <2>6, <2>7, <2>8, <2>9 DEF IInv
<1> QED  BY <1>3, <1>4

LEMMA CommitKeeps == ASSUME IInv, Commit PROVE IInv'
<1>1. gate.pc = "sync" /\ R \in Runs /\ TypeOK /\ at[R] = "final" /\ said[R] = "none"
  BY DEF Commit, At, IInv, TypeOK, Named
<1>2. UNCHANGED <<repo, runs, art, report, sums, frozen, at, squat, kept, said, trusted, edits, faults>>
  BY DEF Commit, dirs
<1>3. /\ gate' \in [pc : Places, r : 0..MaxRuns, anchor : Manifests, begun : BOOLEAN]
      /\ gate'.pc = "commit" /\ gate'.r = gate.r
  BY <1>1, GateMoves DEF Commit, To, Places
<1>4. /\ disk' \in [Runs -> {"none", "partial", "final"}]
      /\ disk'[R] = "final" /\ \A r \in Runs \ {R} : disk'[r] = disk[r]
  BY <1>1 DEF Commit, TypeOK
<1>5. TypeOK'
  BY <1>1, <1>2, <1>3, <1>4 DEF TypeOK, At, R
<1>6. Fresh' /\ Origins' /\ Trusts' /\ \A r \in Runs : at'[r] = "final" => Sealed(r)'
  BY <1>2, <1>3, <1>4, Publishing
<1>7. Named'
  BY <1>1, <1>2, <1>3, <1>4 DEF IInv, Named, At, R, Writing, Recording
<1>8. Written'
  BY <1>3 DEF Written, At, Writing, Recording
<1>9. Finals'
  BY <1>3, <1>6 DEF Finals, At
<1>10. SaidIsDurable'
  BY <1>1, <1>2, <1>4 DEF IInv, SaidIsDurable
<1> QED  BY <1>5, <1>6, <1>7, <1>8, <1>9, <1>10 DEF IInv

LEMMA RestoreNameKeeps == ASSUME IInv, RestoreName PROVE IInv'
<1>1. gate.pc = "restore" /\ R \in Runs /\ TypeOK /\ said[R] = "none" /\ disk[R] = "partial"
  BY DEF RestoreName, At, IInv, TypeOK, Named
<1>2. UNCHANGED <<repo, runs, art, report, sums, frozen, squat, kept, said, trusted, edits>> /\ faults' \in 0..MaxFaults
  BY <1>1 DEF RestoreName, dirs, Works, Fails, TypeOK
<1>3. /\ gate' \in [pc : Places, r : 0..MaxRuns, anchor : Manifests, begun : BOOLEAN]
      /\ gate'.pc = "cleanup" /\ gate'.r = gate.r
  BY <1>1, GateMoves DEF RestoreName, To, Places
<1>4. /\ at' \in [Runs -> {"none", "partial", "final"}] /\ disk' \in [Runs -> {"none", "partial", "final"}]
      /\ at'[R] \in {at[R], "partial"} /\ disk'[R] = "partial"
      /\ \A r \in Runs \ {R} : at'[r] = at[r] /\ disk'[r] = disk[r]
  BY <1>1 DEF RestoreName, TypeOK
<1>5. TypeOK'
  BY <1>1, <1>2, <1>3, <1>4 DEF TypeOK, At, R
<1>6. Fresh' /\ Origins' /\ Trusts' /\ \A r \in Runs : at'[r] = "final" => Sealed(r)'
  <2>1. \A r \in Runs : at'[r] = "final" => at[r] = "final" \/ Sealed(r)
    BY <1>4
  <2> QED  BY <1>2, <1>3, <1>4, <2>1, Publishing
<1>7. Named'
  BY <1>1, <1>2, <1>3, <1>4 DEF IInv, Named, At, R, Writing, Recording
<1>8. Written'
  BY <1>3 DEF Written, At, Writing, Recording
<1>9. Finals'
  BY <1>3, <1>6 DEF Finals, At
<1>10. SaidIsDurable'
  BY <1>1, <1>2, <1>4 DEF IInv, SaidIsDurable
<1> QED  BY <1>5, <1>6, <1>7, <1>8, <1>9, <1>10 DEF IInv

\* The gate is over: what it said of its run fits the two names.
LEMMA EndKeeps ==
    ASSUME IInv, gate' \in [pc : Places, r : 0..MaxRuns, anchor : Manifests, begun : BOOLEAN],
           gate'.pc = "idle", gate'.r = gate.r,
           UNCHANGED <<repo, runs, dirs, squat, trusted, edits>>, faults' \in 0..MaxFaults,
           kept' \in [Runs -> BOOLEAN],
           at' \in [Runs -> {"none", "partial", "final"}], disk' \in [Runs -> {"none", "partial", "final"}],
           said' \in [Runs -> {"none", "passed", "staged", "indeterminate", "incomplete", "killed"}],
           \A r \in Runs : at'[r] = "final" => at[r] = "final",
           \A r \in Runs : r # R => at'[r] \in {at[r], disk[r]} /\ disk'[r] = disk[r] /\ said'[r] = said[r],
           \A r \in Runs : r = R /\ disk'[r] = "final" => at'[r] = "final",
           \A r \in Runs : r = R /\ said'[r] = "passed" => at'[r] = "final" /\ disk'[r] = "final",
           \A r \in Runs : r = R /\ said'[r] = "staged" => at'[r] = "partial" /\ disk'[r] = "partial" /\ frozen[r]
    PROVE  IInv'
<1>1. UNCHANGED <<repo, runs, art, report, sums, frozen, squat, trusted, edits>>
  BY DEF dirs
<1>2. TypeOK'
  BY <1>1 DEF IInv, TypeOK, At
<1>3. /\ Fresh' /\ Origins' /\ Trusts' /\ \A r \in Runs : at'[r] = "final" => Sealed(r)'
      /\ \A r \in Runs : r # R => /\ disk'[r] = "final" => at'[r] = "final"
                                  /\ said'[r] = "passed" => at'[r] = "final" /\ disk'[r] = "final"
                                  /\ said'[r] = "staged" => at'[r] = "partial" /\ disk'[r] = "partial" /\ frozen'[r]
  BY <1>1, Publishing
<1>4. Named'
  <2>1. \A r \in Runs : disk'[r] = "final" => at'[r] = "final"
    BY <1>3
  <2> QED  BY <2>1 DEF Named, At, Writing, Recording
<1>5. Written'
  BY DEF Written, At, Writing, Recording
<1>6. Finals'
  BY <1>3 DEF Finals, At
<1>7. SaidIsDurable'
  BY <1>1, <1>3 DEF SaidIsDurable
<1> QED  BY <1>2, <1>3, <1>4, <1>5, <1>6, <1>7 DEF IInv

LEMMA SucceedKeeps == ASSUME IInv, Succeed PROVE IInv'
<1>1. gate.pc = "commit" /\ R \in Runs /\ TypeOK /\ at[R] = "final" /\ disk[R] = "final"
  BY DEF Succeed, At, IInv, TypeOK, Named
<1>2. /\ gate' \in [pc : Places, r : 0..MaxRuns, anchor : Manifests, begun : BOOLEAN]
      /\ gate'.pc = "idle" /\ gate'.r = gate.r
  BY <1>1, GateEndsPlain DEF Succeed
<1>3. UNCHANGED <<repo, runs, dirs, squat, trusted, edits>> /\ UNCHANGED <<at, disk, faults>>
  BY DEF Succeed, names
<1>4. /\ said' \in [Runs -> {"none", "passed", "staged", "indeterminate", "incomplete", "killed"}]
      /\ said'[R] = "passed" /\ \A r \in Runs \ {R} : said'[r] = said[r]
      /\ kept' \in [Runs -> BOOLEAN]
  BY <1>1 DEF Succeed, TypeOK
<1>5. /\ at' \in [Runs -> {"none", "partial", "final"}] /\ disk' \in [Runs -> {"none", "partial", "final"}]
      /\ faults' \in 0..MaxFaults
  BY <1>1, <1>3 DEF TypeOK
<1> QED  BY <1>1, <1>2, <1>3, <1>4, <1>5, EndKeeps

\* Reconciliation leaves the hidden name, or all as it was.
LEMMA ReconcileFits ==
    ASSUME IInv, R \in Runs, NEW a, Reconcile(R, a)
    PROVE  /\ at' \in [Runs -> {"none", "partial", "final"}] /\ disk' \in [Runs -> {"none", "partial", "final"}]
           /\ said' \in [Runs -> {"none", "passed", "staged", "indeterminate", "incomplete", "killed"}]
           /\ \A r \in Runs \ {R} : at'[r] = at[r] /\ disk'[r] = disk[r] /\ said'[r] = said[r]
           /\ at'[R] = "final" => at[R] = "final"
           /\ disk'[R] = "final" => at'[R] = "final"
           /\ said'[R] # "passed"
           /\ said'[R] = "staged" => at'[R] = "partial" /\ disk'[R] = "partial" /\ frozen[R]
<1>1. TypeOK /\ (disk[R] = "final" => at[R] = "final")
  BY DEF IInv, Named
<1>2. CASE ReconcileSource(R, a)
  BY <1>1, <1>2 DEF TypeOK, ReconcileSource, VerifyUnit, RegularFiles
<1>3. CASE ReconcileDestination(R, a)
  BY <1>1, <1>3 DEF TypeOK, ReconcileDestination, VerifyUnit, RegularFiles
<1>4. CASE ReconcileRefuses(R, a)
  BY <1>1, <1>4 DEF TypeOK, ReconcileRefuses
<1> QED  BY <1>2, <1>3, <1>4 DEF Reconcile

LEMMA CleanupKeeps == ASSUME IInv, Cleanup PROVE IInv'
<1>1. gate.pc = "cleanup" /\ R \in Runs /\ TypeOK /\ said[R] = "none" /\ (disk[R] = "final" => at[R] = "final")
  BY DEF Cleanup, At, IInv, TypeOK, Named
<1>2. /\ gate' \in [pc : Places, r : 0..MaxRuns, anchor : Manifests, begun : BOOLEAN]
      /\ gate'.pc = "idle" /\ gate'.r = gate.r
  BY <1>1, GateEndsPlain DEF Cleanup
<1>3. UNCHANGED <<repo, runs, dirs, squat, trusted, edits>> /\ kept' \in [Runs -> BOOLEAN] /\ faults' \in 0..MaxFaults
  BY <1>1 DEF Cleanup, TypeOK
<1>4. CASE gate.begun
  <2>1. Reconcile(R, gate.anchor)
    BY <1>4 DEF Cleanup
  <2> QED  BY <1>1, <1>2, <1>3, <2>1, ReconcileFits, EndKeeps
<1>5. CASE ~gate.begun
  <2>1. UNCHANGED <<at, disk>> /\ said' = [said EXCEPT ![R] = "incomplete"]
    BY <1>5 DEF Cleanup
  <2>2. /\ said' \in [Runs -> {"none", "passed", "staged", "indeterminate", "incomplete", "killed"}]
        /\ said'[R] = "incomplete" /\ \A r \in Runs \ {R} : said'[r] = said[r]
        /\ at' \in [Runs -> {"none", "partial", "final"}] /\ disk' \in [Runs -> {"none", "partial", "final"}]
    BY <1>1, <2>1 DEF TypeOK
  <2> QED  BY <1>1, <1>2, <1>3, <2>1, <2>2, EndKeeps
<1> QED  BY <1>4, <1>5

\* ReconcileLater leaves the gate alone, which is idle.
LEMMA ReconcileLaterKeeps == ASSUME IInv, ReconcileLater PROVE IInv'
<1>1. gate.pc = "idle" /\ R \in Runs /\ TypeOK
  BY DEF ReconcileLater, At, IInv, TypeOK, R, Runs
<1>2. UNCHANGED <<repo, runs, dirs, squat, trusted, edits>> /\ UNCHANGED <<gate, kept, faults>>
  BY DEF ReconcileLater
<1>3. /\ gate' \in [pc : Places, r : 0..MaxRuns, anchor : Manifests, begun : BOOLEAN]
      /\ gate'.pc = "idle" /\ gate'.r = gate.r /\ kept' \in [Runs -> BOOLEAN] /\ faults' \in 0..MaxFaults
  BY <1>1, <1>2 DEF TypeOK
<1>4. Reconcile(R, gate.anchor)
  BY DEF ReconcileLater
<1> QED  BY <1>1, <1>2, <1>3, <1>4, ReconcileFits, EndKeeps

LEMMA DieKeeps == ASSUME IInv, Die PROVE IInv'
<1>1. R \in Runs /\ TypeOK /\ said[R] = "none" /\ (\A r \in Runs : disk[r] = "final" => at[r] = "final")
  BY DEF Die, At, IInv, TypeOK, Named
<1>2. /\ gate' \in [pc : Places, r : 0..MaxRuns, anchor : Manifests, begun : BOOLEAN]
      /\ gate'.pc = "idle" /\ gate'.r = gate.r
  <2>1. gate.anchor \in Manifests
    BY <1>1 DEF TypeOK
  <2> QED  BY <1>1, <2>1, GateEnds DEF Die
<1>3. UNCHANGED <<repo, runs, dirs, squat, trusted, edits>> /\ UNCHANGED disk
      /\ kept' \in [Runs -> BOOLEAN] /\ faults' \in 0..MaxFaults
  BY <1>1 DEF Die, Fails, TypeOK
<1>4. /\ said' \in [Runs -> {"none", "passed", "staged", "indeterminate", "incomplete", "killed"}]
      /\ said'[R] \in {"killed", "incomplete"} /\ \A r \in Runs \ {R} : said'[r] = said[r]
  BY <1>1 DEF Die, TypeOK
<1>5. (at' = at \/ at' = disk) /\ at' \in [Runs -> {"none", "partial", "final"}]
      /\ disk' \in [Runs -> {"none", "partial", "final"}]
  BY <1>1, <1>3 DEF Die, TypeOK
<1> QED  BY <1>1, <1>2, <1>3, <1>4, <1>5, EndKeeps

LEMMA PowerLossKeeps == ASSUME IInv, PowerLoss PROVE IInv'
<1>1. gate.pc = "idle" /\ TypeOK /\ (\A r \in Runs : disk[r] = "final" => at[r] = "final")
  BY DEF PowerLoss, At, IInv, Named
<1>2. UNCHANGED <<repo, runs, dirs, squat, trusted, edits>> /\ UNCHANGED <<gate, kept, faults, said, disk>> /\ at' = disk
  BY DEF PowerLoss
<1>3. /\ gate' \in [pc : Places, r : 0..MaxRuns, anchor : Manifests, begun : BOOLEAN]
      /\ gate'.pc = "idle" /\ gate'.r = gate.r /\ kept' \in [Runs -> BOOLEAN] /\ faults' \in 0..MaxFaults
      /\ at' \in [Runs -> {"none", "partial", "final"}] /\ disk' \in [Runs -> {"none", "partial", "final"}]
      /\ said' \in [Runs -> {"none", "passed", "staged", "indeterminate", "incomplete", "killed"}]
  BY <1>1, <1>2 DEF TypeOK
<1>4. \A r \in Runs : /\ said'[r] = "passed" => at'[r] = "final" /\ disk'[r] = "final"
                      /\ said'[r] = "staged" => at'[r] = "partial" /\ disk'[r] = "partial" /\ frozen[r]
  BY <1>2 DEF IInv, SaidIsDurable
<1> QED  BY <1>1, <1>2, <1>3, <1>4, EndKeeps

LEMMA AcceptKeeps == ASSUME IInv, Accept PROVE IInv'
<1>1. PICK r \in Runs : /\ at[r] = "final" /\ VerifyDetached(r, NoSums, repo)
                        /\ trusted' = trusted \cup {<<r, repo.head>>}
                        /\ UNCHANGED <<repo, runs, dirs, names, kept, gate, said, edits, faults>>
  BY DEF Accept
<1>2. UNCHANGED <<repo, runs, art, report, sums, frozen, at, disk, squat, kept, gate, said, edits, faults>> /\ TypeOK
  BY <1>1 DEF dirs, names, IInv
<1>3. TypeOK'
  <2>1. trusted' \subseteq Runs \X Nat
    BY <1>1, <1>2 DEF TypeOK
  <2> QED  BY <1>2, <2>1 DEF TypeOK, At, R
<1>4. Fresh' /\ Named' /\ Written' /\ Origins' /\ SaidIsDurable'
  BY <1>2 DEF IInv, Fresh, Named, Written, Origins, SaidIsDurable, At, R
<1>5. (\A p \in Runs : Sealed(p) => Sealed(p)') /\ \A p \in Runs : \A c : Whole(p) /\ About(p, c) => Whole(p)' /\ About(p, c)'
  <2>1. repo'.head \in Nat /\ repo'.head >= repo.head
    BY <1>2 DEF TypeOK
  <2>2. 0 \notin Runs /\ \A p \in Runs \ {0} : runs'[p] = runs[p]
    BY <1>2 DEF Runs
  <2>3. \A p \in Runs : frozen[p] => frozen'[p] /\ art'[p] = art[p] /\ report'[p] = report[p]
    BY <1>2
  <2> QED  BY <2>1, <2>2, <2>3, Sustains
<1>6. Finals'
  BY <1>2, <1>5 DEF IInv, Finals, At, R
<1>7. Whole(r) /\ About(r, repo.head)
  <2>1. Complete(art[r]) /\ Evidence(art[r], TRUE) /\ Src(art[r]) = repo /\ frozen[r]
        /\ Wrote(art[r], "tar").commit = repo.head
    BY <1>1 DEF VerifyDetached, PrevalidatedSource, PrevalidatedArchive, RegularFiles
  <2>2. About(r, Src(art[r]).head)
    BY <1>2, <2>1, EvidenceIsAbout
  <2> QED  BY <2>1, <2>2 DEF Whole
<1>8. Trusts'
  <2> SUFFICES ASSUME NEW t \in trusted' PROVE t[1] \in Runs /\ Whole(t[1])' /\ About(t[1], t[2])'
    BY DEF Trusts
  <2>1. CASE t \in trusted
    <3>1. t[1] \in Runs /\ Whole(t[1]) /\ About(t[1], t[2])
      BY <2>1 DEF IInv, Trusts
    <3> QED  BY <1>5, <3>1
  <2>2. CASE t = <<r, repo.head>>
    <3>1. t[1] \in Runs /\ Whole(t[1]) /\ About(t[1], t[2])
      BY <1>7, <2>2
    <3> QED  BY <1>5, <3>1
  <2> QED  BY <1>1, <2>1, <2>2
<1> QED  BY <1>3, <1>4, <1>6, <1>8 DEF IInv

-----------------------------------------------------------------------------
\* The theorems

LEMMA InitInv == ASSUME Init PROVE IInv
<1>1. TypeOK
  BY InitTyped
<1>2. gate.pc = "idle" /\ gate.r = 0
  BY DEF Init, Idle
<1>3. Fresh /\ Named /\ Written
  BY <1>2 DEF Init, Fresh, Named, Written, At, Writing, Recording
<1>4. Origins
  <2>1. \A r \in Runs, f \in Files : art[r][f] = 0
    BY DEF Init, Empty
  <2> QED  BY <1>2, <2>1 DEF Origins, R
<1>5. Finals /\ Trusts /\ SaidIsDurable
  BY <1>2 DEF Init, Finals, Trusts, SaidIsDurable, At
<1> QED  BY <1>1, <1>3, <1>4, <1>5 DEF IInv

LEMMA StutterKeeps == ASSUME IInv, UNCHANGED vars PROVE IInv'
<1>1. UNCHANGED <<repo, runs, art, report, sums, at, disk, frozen, squat, kept, gate, said, trusted, edits, faults>>
  BY DEF vars
<1>2. /\ Fresh' /\ Origins' /\ Trusts' /\ \A r \in Runs : Sealed(r) => Sealed(r)'
      /\ \A r \in Runs : at'[r] = "final" => Sealed(r)'
  BY <1>1, Publishing
<1>3. TypeOK' /\ Named' /\ Written' /\ SaidIsDurable'
  BY <1>1 DEF IInv, TypeOK, Named, Written, SaidIsDurable, At, R
<1>4. Finals'
  BY <1>1, <1>2 DEF IInv, Finals, At, R
<1> QED  BY <1>2, <1>3, <1>4 DEF IInv

LEMMA StepInv == ASSUME IInv, [Next]_vars PROVE IInv'
<1>1. CASE Edit \/ Misplace \/ Squat
  BY <1>1, EditKeeps, MisplaceKeeps, SquatKeeps
<1>2. CASE Begin \/ Archive \/ Build \/ Test \/ After
  BY <1>2, BeginKeeps, RecordingKeeps
<1>3. CASE Assemble \/ GenerateManifest \/ WriteFails
  BY <1>3, AssembleKeeps, ManifestKeeps, WriteFailsKeeps
<1>4. CASE VerifyStaging \/ Freeze \/ VerifyFrozen \/ Rename \/ Commit \/ RestoreName \/ Interrupt \/ Succeed
  BY <1>4, VerifyStagingKeeps, FreezeKeeps, VerifyFrozenKeeps, RenameKeeps, CommitKeeps,
     RestoreNameKeeps, InterruptKeeps, SucceedKeeps
<1>5. CASE Cleanup \/ Die \/ PowerLoss \/ ReconcileLater \/ Accept
  BY <1>5, CleanupKeeps, DieKeeps, PowerLossKeeps, ReconcileLaterKeeps, AcceptKeeps
<1>6. CASE UNCHANGED vars
  BY <1>6, StutterKeeps
<1> QED  BY <1>1, <1>2, <1>3, <1>4, <1>5, <1>6 DEF Next, GateNext

LEMMA InvAlways == Spec => []IInv
BY InitInv, StepInv, PTL DEF Spec

\* Every variable keeps its type, and a gate that runs has a run.
THEOREM TypeCorrect == Spec => []TypeOK
<1>1. IInv => TypeOK
  BY DEF IInv
<1> QED  BY <1>1, InvAlways, PTL

\* Whatever the surroundings edit, misplace or occupy, and wherever the gate is
\* interrupted, killed or loses what it did not sync, the final name shows only a
\* frozen directory, with the files of its run's manifest, about one commit and
\* one build, and what the readiness barrier accepted stays about the commit it was
\* accepted for (finalize_staging_noreplace, verify_unit_report,
\* verify_unit_anchor_prevalidated).
THEOREM PublishedAlways == Spec => []PublishedIsOneRun
<1>1. IInv => PublishedIsOneRun
  BY DEF IInv, Finals, Trusts, Sealed, Whole, PublishedIsOneRun
<1> QED  BY <1>1, InvAlways, PTL

\* What the gate, or the reconciliation of a run that was killed, said of a run is
\* what a power loss leaves of it (_restore_exact_publication_name,
\* reconcile_staging_publication).
THEOREM SaidAlways == Spec => []SaidIsDurable
<1>1. IInv => SaidIsDurable
  BY DEF IInv
<1> QED  BY <1>1, InvAlways, PTL

=============================================================================
