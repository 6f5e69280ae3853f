-------------------------- MODULE CampaignsProofs --------------------------
(***************************************************************************)
(* One trial of the cross-dataset campaign and the KAIST campaign, proved  *)
(* for any arguments, any number of faults and changes.                    *)
(***************************************************************************)
EXTENDS Campaigns, WellFoundedInduction, FiniteSetTheorems, SequenceTheorems, TLAPS

-----------------------------------------------------------------------------
\* The KAIST campaign

\* Its stages from the last one back: those from the result on, after the run,
\* after the evaluation, the conversion, and so on to the binding of the inputs.
Committing == {"commit", "return"}
Closing == {"source_after", "inputs_after"} \cup Committing
Checking == {"checks"} \cup Closing
Archiving == {"archived"} \cup Checking
Evaluated == {"compress", "roundtrip"} \cup Archiving
Converted == {"digest", "associate", "evaluate"} \cup Evaluated
Referenced == {"convert"} \cup Converted
Validated == {"reference"} \cup Referenced
Summarised == {"telemetry"} \cup Validated
Launched == {"running", "summaries"} \cup Summarised
Rooted == {"adapt", "adapted", "preflight", "launch"} \cup Launched
Identified == {"snapshot"} \cup Rooted

\* A run, not a preparation, is at one of the stages or has completed.
Past(stages) == published = "COMPLETED" \/ (step \in stages /\ ~arguments.prepare)

Contents == {"none", "good", "bad"}
KaistShape ==
    /\ step \in {"paths", "bind", "done", "decide"} \cup Identified
    /\ file \in [Kaist!Files -> Contents] /\ seen \in [Kaist!Files -> Contents]
    /\ used \in [Kaist!Files -> Contents]
    /\ DOMAIN written = {"state", "deviation", "timing"}
    /\ \A n \in {"state", "deviation", "timing"} : written[n] \in Seq(Int)

\* What may follow what: a result only at the end, a report only after it.
KaistOrder ==
    /\ published # "none" => step \in {"return", "done"}
    /\ published = "COMPLETED" => ~arguments.prepare
    /\ step # "done" => ended = "running"
    /\ (step = "decide" \/ (step = "done" /\ ended = "running")) =>
          file = Kaist!NoFile /\ published = "none"
    /\ report # "none" => step = "done" /\ ended # "running" /\ published # "none"
    /\ step \notin {"paths", "done", "decide"} => Kaist!Arguments
    /\ published # "none" => Kaist!Arguments

\* What is compared again in the end: the configuration, the binary, and with
\* provenance the libraries.
Compared == {"config", "binary"} \cup (IF arguments.provenance THEN {"library"} ELSE {})

\* The inputs as they were identified.  Bytes that are bad stay so.
InputsIdentified ==
    /\ Past(Identified) => /\ seen["config"] = "good"
                           /\ \A f \in Compared : seen[f] # "none"
                           /\ \A f \in Compared : seen[f] = "bad" => file[f] = "bad"
    /\ Past(Rooted) /\ arguments.provenance => seen["tree"] = "good"

\* What the estimator read is what there still is, or there is something else.
InputsRead ==
    /\ Past(Launched) =>
          /\ \A f \in Compared : used[f] = "good" \/ file[f] # "good"
          /\ \A f \in Compared : seen[f] = "bad" => used[f] = "bad"
          /\ used["adapted"] = "good" \/ file["adapted"] # "good" \/ step = "done"
    /\ Past(Committing) =>
          /\ \A f \in Compared : used[f] = seen[f]
          /\ used["reference"] = "good"
          /\ after = "good" => used["adapted"] = "good"

\* An output is identified as it was written, before anybody may touch it.
OutputsIdentified ==
    /\ step \in {"paths", "bind", "snapshot", "adapt", "adapted", "preflight", "launch", "running",
                 "summaries", "telemetry", "reference"} => seen["state"] = "none"
    /\ step \in {"paths", "bind", "snapshot", "adapt", "adapted", "preflight", "launch", "running",
                 "summaries", "telemetry"} => seen["raw"] = "none"
    /\ step \in {"summaries", "telemetry", "reference"} => file["state"] = "good"
    /\ step \in {"summaries", "telemetry"} /\ arguments.capture => file["raw"] = "good"
    /\ Past(Validated) /\ arguments.capture => seen["raw"] = "good"
    /\ Past(Referenced) => seen["state"] = "good" /\ seen["reference"] = "good"

\* The trajectory, and what was evaluated.
OutputsRead ==
    /\ Past(Summarised) =>
          counts.processed + counts.thinned = Kaist!Pairs /\ counts.decode = 0
    /\ Past(Converted) =>
          /\ file["state"] = "good" => seen["trajectory"] = "good"
          /\ written.state = written.deviation /\ written.timing = written.state
    /\ Past(Evaluated) => \A f \in {"trajectory", "reference"} : used[f] = "good" \/ file[f] # "good"

\* The raw log goes once its archive has been read back.
LogArchived ==
    /\ Past(Archiving) /\ arguments.flags # {} => file["raw"] = "none"
    /\ Past(Checking) /\ arguments.flags # {} => seen["archive"] = "good"

KaistInv ==
    /\ KaistShape /\ KaistOrder /\ InputsIdentified /\ InputsRead
    /\ OutputsIdentified /\ OutputsRead /\ LogArchived
    /\ ReportedIsFrozen

LEMMA FileNames ==
  {"source", "config", "binary", "library", "cache", "tools", "adapted", "reference", "tree",
   "state", "trajectory", "raw", "archive", "metrics"} = Kaist!Files
BY DEF Kaist!Files, Kaist!Fixed, Kaist!Frozen, Kaist!Bound

\* The rows the estimator writes, whole or damaged, are rows of stamps.
LEMMA RowsShape ==
  ASSUME NEW w, w = Kaist!GoodRows \/ w \in Kaist!DamagedRows
  PROVE  /\ DOMAIN w = {"state", "deviation", "timing"}
         /\ \A n \in {"state", "deviation", "timing"} : w[n] \in Seq(Int)
<1> DEFINE t == [k \in 1..Callbacks |-> Kaist!Stamp(k - 1)]
           late == [k \in 1..Callbacks |-> Kaist!Stamp(k - 1) + 5]
<1>0. Callbacks \in Nat \ {0}
  BY KaistAssumption
<1>1. t \in Seq(Int) /\ t # <<>> /\ Len(t) = Callbacks
  BY <1>0 DEF Kaist!Stamp
<1>2. Kaist!GoodRows = [state |-> t, deviation |-> t, timing |-> t]
  BY DEF Kaist!GoodRows
<1>3. /\ Kaist!Reverse(t) \in Seq(Int) /\ Tail(t) \in Seq(Int) /\ <<Kaist!Stamp(0)>> \o t \in Seq(Int)
      /\ late \in Seq(Int) /\ <<>> \in Seq(Int)
  <2>1. Kaist!Reverse(t) \in Seq(Int)
    <3> HIDE DEF t
    <3>1. \A k \in 1..Len(t) : (Len(t) - k) + 1 \in 1..Len(t)
      BY <1>1
    <3> QED  BY <1>1, <3>1 DEF Kaist!Reverse
  <2>2. Tail(t) \in Seq(Int)
    <3> HIDE DEF t
    <3> QED  BY <1>1
  <2>3. <<Kaist!Stamp(0)>> \o t \in Seq(Int)
    <3>1. <<Kaist!Stamp(0)>> \in Seq(Int)
      BY DEF Kaist!Stamp
    <3> HIDE DEF t
    <3> QED  BY <1>1, <3>1
  <2>4. late \in Seq(Int)
    BY <1>0 DEF Kaist!Stamp
  <2> QED  BY <2>1, <2>2, <2>3, <2>4
<1> HIDE DEF t
<1>4. CASE w = Kaist!GoodRows
  BY <1>1, <1>2, <1>4
<1>5. CASE w \in Kaist!DamagedRows
  <2>1. PICK n \in {"state", "deviation", "timing"},
             u \in {<<>>, Kaist!Reverse(t), Tail(t), <<Kaist!Stamp(0)>> \o t,
                   late} :
               w = [Kaist!GoodRows EXCEPT ![n] = u]
    <3>1. DOMAIN Kaist!GoodRows = {"state", "deviation", "timing"} /\ Kaist!GoodRows.state = t
      BY <1>2
    <3> QED  BY <1>5, <3>1 DEF Kaist!DamagedRows
  <2>2. u \in Seq(Int)
    BY <1>3, <2>1
  <2> QED  BY <1>1, <1>2, <2>1, <2>2
<1> QED  BY <1>4, <1>5

\* The report and the pure parts leave the campaign alone.
LEMMA KaistAside ==
  ASSUME Kaist!Report \/ Kaist!Spoil \/ Kaist!Decide
  PROVE  /\ UNCHANGED <<arguments, file, seen, after, used, telemetry, written, counts, bound, published, ended>>
         /\ step' = step \/ (step = "decide" /\ step' = "done")
BY DEF Kaist!Report, Kaist!Spoil, Kaist!Decide

\* The stages and the contents of the files.
LEMMA KaistShapeStep ==
  ASSUME KaistShape, Kaist!Next
  PROVE  KaistShape'
<1> USE FileNames DEF KaistShape, Contents, Kaist!Fine, Kaist!Fault, Kaist!Stays, Kaist!Goes, Kaist!Fails,
      Kaist!Command, Identified, Rooted, Launched, Summarised, Validated, Referenced, Converted, Evaluated,
      Archiving, Checking, Closing, Committing
<1>1. CASE Kaist!ValidatePaths \/ Kaist!BindInputs \/ Kaist!SnapshotBefore \/ Kaist!AdaptBag \/ Kaist!BindAdapted
           \/ Kaist!Preflight
  BY <1>1 DEF Kaist!ValidatePaths, Kaist!BindInputs, Kaist!SnapshotBefore, Kaist!AdaptBag, Kaist!BindAdapted,
       Kaist!Preflight
<1>2. CASE Kaist!Launch
  BY <1>2 DEF Kaist!Launch
<1>3. CASE Kaist!EstimatorEnds
  <2>1. /\ DOMAIN written' = {"state", "deviation", "timing"}
        /\ \A n \in {"state", "deviation", "timing"} : written'[n] \in Seq(Int)
    BY <1>3, RowsShape DEF Kaist!EstimatorEnds
  <2> QED  BY <1>3, <2>1 DEF Kaist!EstimatorEnds
<1>4. CASE Kaist!BindSummaries \/ Kaist!ValidateTelemetry \/ Kaist!BindReference \/ Kaist!Convert
  BY <1>4 DEF Kaist!BindSummaries, Kaist!ValidateTelemetry, Kaist!BindReference, Kaist!Convert
<1>5. CASE Kaist!StableDigest \/ Kaist!AssociateOutputs \/ Kaist!Evaluate \/ Kaist!Compress \/ Kaist!RoundTrip
  <2>1. CASE Kaist!StableDigest \/ Kaist!AssociateOutputs
    BY <2>1 DEF Kaist!StableDigest, Kaist!AssociateOutputs
  <2>2. CASE Kaist!Evaluate
    BY <2>2 DEF Kaist!Evaluate
  <2>3. CASE Kaist!Compress
    BY <2>3 DEF Kaist!Compress
  <2>4. CASE Kaist!RoundTrip
    <3>1. UNCHANGED <<seen, used, written>> /\ step' \in {"archived", "done"}
      BY <2>4 DEF Kaist!RoundTrip
    <3>2. file' = file \/ file' = [file EXCEPT !["raw"] = "none"]
      BY <2>4 DEF Kaist!RoundTrip
    <3> QED  BY <3>1, <3>2
  <2> QED  BY <1>5, <2>1, <2>2, <2>3, <2>4
<1>6. CASE Kaist!CompareArchive \/ Kaist!Checks \/ Kaist!SnapshotAfter \/ Kaist!InputsAfter \/ Kaist!Commit
           \/ Kaist!Return \/ Kaist!Interrupt \/ Kaist!Kill
  BY <1>6 DEF Kaist!CompareArchive, Kaist!Checks, Kaist!SnapshotAfter, Kaist!InputsAfter, Kaist!Commit,
       Kaist!Return, Kaist!Interrupt, Kaist!Kill
<1>7. CASE \E f \in Kaist!Files : Kaist!Edit(f)
  BY <1>7 DEF Kaist!Edit
<1>8. CASE Kaist!AdaptedAgain \/ Kaist!Report \/ Kaist!Spoil \/ Kaist!Decide
  BY <1>8 DEF Kaist!AdaptedAgain, Kaist!Report, Kaist!Spoil, Kaist!Decide
<1> QED  BY <1>1, <1>2, <1>3, <1>4, <1>5, <1>6, <1>7, <1>8 DEF Kaist!Next

LEMMA KaistOrderStep ==
  ASSUME KaistShape, KaistOrder, Kaist!Next
  PROVE  KaistOrder'
<1> USE FileNames DEF KaistShape, KaistOrder, Contents, Kaist!Fine, Kaist!Fault, Kaist!Stays, Kaist!Goes,
      Kaist!Fails, Kaist!Command, Kaist!Arguments
<1>1. CASE Kaist!ValidatePaths \/ Kaist!BindInputs \/ Kaist!SnapshotBefore \/ Kaist!AdaptBag \/ Kaist!BindAdapted
           \/ Kaist!Preflight \/ Kaist!Launch \/ Kaist!EstimatorEnds
  BY <1>1 DEF Kaist!ValidatePaths, Kaist!BindInputs, Kaist!SnapshotBefore, Kaist!AdaptBag, Kaist!BindAdapted,
       Kaist!Preflight, Kaist!Launch, Kaist!EstimatorEnds
<1>2. CASE Kaist!BindSummaries \/ Kaist!ValidateTelemetry \/ Kaist!BindReference \/ Kaist!Convert
           \/ Kaist!StableDigest \/ Kaist!AssociateOutputs \/ Kaist!Evaluate \/ Kaist!Compress \/ Kaist!RoundTrip
  BY <1>2 DEF Kaist!BindSummaries, Kaist!ValidateTelemetry, Kaist!BindReference, Kaist!Convert,
       Kaist!StableDigest, Kaist!AssociateOutputs, Kaist!Evaluate, Kaist!Compress, Kaist!RoundTrip
<1>3. CASE Kaist!CompareArchive \/ Kaist!Checks \/ Kaist!SnapshotAfter \/ Kaist!InputsAfter \/ Kaist!Commit
           \/ Kaist!Return \/ Kaist!Interrupt \/ Kaist!Kill
  BY <1>3 DEF Kaist!CompareArchive, Kaist!Checks, Kaist!SnapshotAfter, Kaist!InputsAfter, Kaist!Commit,
       Kaist!Return, Kaist!Interrupt, Kaist!Kill
<1>4. CASE \E f \in Kaist!Files : Kaist!Edit(f)
  BY <1>4 DEF Kaist!Edit, Kaist!NoFile
<1>5. CASE Kaist!AdaptedAgain \/ Kaist!Report \/ Kaist!Spoil \/ Kaist!Decide
  BY <1>5 DEF Kaist!AdaptedAgain, Kaist!Report, Kaist!Spoil, Kaist!Decide, Kaist!NoFile
<1> QED  BY <1>1, <1>2, <1>3, <1>4, <1>5 DEF Kaist!Next

LEMMA InputsIdentifiedStep ==
  ASSUME KaistShape, KaistOrder, InputsIdentified, Kaist!Next
  PROVE  InputsIdentified'
<1> USE FileNames DEF KaistShape, KaistOrder, Contents, Kaist!Fine, Kaist!Fault, Kaist!Stays, Kaist!Goes,
      Kaist!Fails, Kaist!Command, Kaist!NoFile, Past, Identified, Rooted, Launched, Summarised, Validated, Referenced,
      Converted, Evaluated, Archiving, Checking, Closing, Committing, Compared, InputsIdentified
<1>1. CASE Kaist!ValidatePaths \/ Kaist!SnapshotBefore \/ Kaist!AdaptBag
  BY <1>1 DEF Kaist!ValidatePaths, Kaist!SnapshotBefore, Kaist!AdaptBag
<1>2. CASE Kaist!BindInputs
  BY <1>2 DEF Kaist!BindInputs, Kaist!FixedInputs, Kaist!FrozenIdentity, Kaist!Frozen, Kaist!Fixed, Kaist!Bound
<1>3. CASE Kaist!BindAdapted \/ Kaist!Preflight
  BY <1>3 DEF Kaist!BindAdapted, Kaist!Preflight
<1>4. CASE Kaist!Launch
  BY <1>4 DEF Kaist!Launch
<1>5. CASE Kaist!EstimatorEnds
  BY <1>5 DEF Kaist!EstimatorEnds
<1>6. CASE Kaist!BindSummaries
  BY <1>6 DEF Kaist!BindSummaries
<1>7. CASE Kaist!ValidateTelemetry \/ Kaist!BindReference
  <2>1. CASE Kaist!ValidateTelemetry
    BY <2>1 DEF Kaist!ValidateTelemetry
  <2>2. CASE Kaist!BindReference
    BY <2>2 DEF Kaist!BindReference
  <2> QED  BY <1>7, <2>1, <2>2
<1>8. CASE Kaist!Convert
  BY <1>8 DEF Kaist!Convert
<1>9. CASE Kaist!StableDigest \/ Kaist!AssociateOutputs
  BY <1>9 DEF Kaist!StableDigest, Kaist!AssociateOutputs
<1>10. CASE Kaist!Evaluate
  BY <1>10 DEF Kaist!Evaluate
<1>11. CASE Kaist!Compress \/ Kaist!RoundTrip \/ Kaist!CompareArchive \/ Kaist!Checks
  BY <1>11 DEF Kaist!Compress, Kaist!RoundTrip, Kaist!CompareArchive, Kaist!Checks
<1>12. CASE Kaist!SnapshotAfter \/ Kaist!InputsAfter \/ Kaist!Commit \/ Kaist!Return
  BY <1>12 DEF Kaist!SnapshotAfter, Kaist!InputsAfter, Kaist!Commit, Kaist!Return
<1>13. CASE Kaist!Interrupt \/ Kaist!Kill
  BY <1>13 DEF Kaist!Interrupt, Kaist!Kill
<1>14. CASE \E f \in Kaist!Files : Kaist!Edit(f)
  BY <1>14 DEF Kaist!Edit
<1>15. CASE Kaist!AdaptedAgain
  BY <1>15 DEF Kaist!AdaptedAgain
<1>16. CASE Kaist!Report \/ Kaist!Spoil \/ Kaist!Decide
  BY <1>16, KaistAside
<1> QED  BY <1>1, <1>2, <1>3, <1>4, <1>5, <1>6, <1>7, <1>8, <1>9, <1>10, <1>11, <1>12, <1>13, <1>14, <1>15, <1>16 DEF Kaist!Next

LEMMA InputsReadStep ==
  ASSUME KaistShape, KaistOrder, InputsIdentified, OutputsIdentified, OutputsRead, InputsRead, Kaist!Next
  PROVE  InputsRead'
<1> USE FileNames DEF KaistShape, KaistOrder, Contents, Kaist!Fine, Kaist!Fault, Kaist!Stays, Kaist!Goes,
      Kaist!Fails, Kaist!Command, Kaist!NoFile, Past, Identified, Rooted, Launched, Summarised, Validated, Referenced,
      Converted, Evaluated, Archiving, Checking, Closing, Committing, Compared, InputsRead
<1>1. CASE Kaist!ValidatePaths \/ Kaist!SnapshotBefore \/ Kaist!AdaptBag
  BY <1>1 DEF Kaist!ValidatePaths, Kaist!SnapshotBefore, Kaist!AdaptBag
<1>2. CASE Kaist!BindInputs
  BY <1>2 DEF Kaist!BindInputs
<1>3. CASE Kaist!BindAdapted \/ Kaist!Preflight
  BY <1>3 DEF Kaist!BindAdapted, Kaist!Preflight
<1>4. CASE Kaist!Launch
  BY <1>4 DEF Kaist!Launch, Kaist!ReadByEstimator, InputsIdentified
<1>5. CASE Kaist!EstimatorEnds
  <2>1. /\ UNCHANGED <<arguments, seen, used, after>> /\ step = "running" /\ step' \in {"summaries", "done"}
        /\ published' = published \/ published' \in {"FAILED", "TIMED_OUT"}
    BY <1>5 DEF Kaist!EstimatorEnds
  <2>2. \/ UNCHANGED file
        \/ \E x : file' = [file EXCEPT !["state"] = "good", !["raw"] = x]
    BY <1>5 DEF Kaist!EstimatorEnds
  <2>3. \A f \in {"config", "binary", "library", "adapted"} : file'[f] = file[f]
    BY <2>2
  <2> QED  BY <2>1, <2>3
<1>6. CASE Kaist!BindSummaries
  BY <1>6 DEF Kaist!BindSummaries
<1>7. CASE Kaist!ValidateTelemetry \/ Kaist!BindReference
  BY <1>7 DEF Kaist!ValidateTelemetry, Kaist!BindReference
<1>8. CASE Kaist!Convert
  BY <1>8 DEF Kaist!Convert
<1>9. CASE Kaist!StableDigest \/ Kaist!AssociateOutputs
  BY <1>9 DEF Kaist!StableDigest, Kaist!AssociateOutputs
<1>10. CASE Kaist!Evaluate
  BY <1>10 DEF Kaist!Evaluate
<1>11. CASE Kaist!Compress \/ Kaist!RoundTrip \/ Kaist!CompareArchive \/ Kaist!Checks
  BY <1>11 DEF Kaist!Compress, Kaist!RoundTrip, Kaist!CompareArchive, Kaist!Checks
<1>12. CASE Kaist!SnapshotAfter \/ Kaist!InputsAfter \/ Kaist!Commit \/ Kaist!Return
  BY <1>12 DEF Kaist!SnapshotAfter, Kaist!InputsAfter, Kaist!Commit, Kaist!Return, Kaist!InputsUnchanged, Kaist!Fixed, Kaist!Frozen, Kaist!Bound, InputsIdentified, OutputsIdentified, OutputsRead
<1>13. CASE Kaist!Interrupt \/ Kaist!Kill
  BY <1>13 DEF Kaist!Interrupt, Kaist!Kill
<1>14. CASE \E f \in Kaist!Files : Kaist!Edit(f)
  BY <1>14 DEF Kaist!Edit
<1>15. CASE Kaist!AdaptedAgain
  BY <1>15 DEF Kaist!AdaptedAgain
<1>16. CASE Kaist!Report \/ Kaist!Spoil \/ Kaist!Decide
  BY <1>16, KaistAside
<1> QED  BY <1>1, <1>2, <1>3, <1>4, <1>5, <1>6, <1>7, <1>8, <1>9, <1>10, <1>11, <1>12, <1>13, <1>14, <1>15, <1>16 DEF Kaist!Next

LEMMA OutputsIdentifiedStep ==
  ASSUME KaistShape, KaistOrder, OutputsIdentified, Kaist!Next
  PROVE  OutputsIdentified'
<1> USE FileNames DEF KaistShape, KaistOrder, Contents, Kaist!Fine, Kaist!Fault, Kaist!Stays, Kaist!Goes,
      Kaist!Fails, Kaist!Command, Kaist!NoFile, Past, Identified, Rooted, Launched, Summarised, Validated, Referenced,
      Converted, Evaluated, Archiving, Checking, Closing, Committing, OutputsIdentified
<1>1. CASE Kaist!ValidatePaths \/ Kaist!SnapshotBefore \/ Kaist!AdaptBag
  BY <1>1 DEF Kaist!ValidatePaths, Kaist!SnapshotBefore, Kaist!AdaptBag
<1>2. CASE Kaist!BindInputs
  BY <1>2 DEF Kaist!BindInputs, Kaist!FixedInputs, Kaist!Fixed, Kaist!Frozen, Kaist!Bound
<1>3. CASE Kaist!BindAdapted \/ Kaist!Preflight
  BY <1>3 DEF Kaist!BindAdapted, Kaist!Preflight
<1>4. CASE Kaist!Launch
  BY <1>4 DEF Kaist!Launch
<1>5. CASE Kaist!EstimatorEnds
  BY <1>5 DEF Kaist!EstimatorEnds
<1>6. CASE Kaist!BindSummaries
  BY <1>6 DEF Kaist!BindSummaries
<1>7. CASE Kaist!ValidateTelemetry \/ Kaist!BindReference
  BY <1>7 DEF Kaist!ValidateTelemetry, Kaist!BindReference
<1>8. CASE Kaist!Convert
  BY <1>8 DEF Kaist!Convert
<1>9. CASE Kaist!StableDigest \/ Kaist!AssociateOutputs
  BY <1>9 DEF Kaist!StableDigest, Kaist!AssociateOutputs
<1>10. CASE Kaist!Evaluate
  BY <1>10 DEF Kaist!Evaluate
<1>11. CASE Kaist!Compress \/ Kaist!RoundTrip \/ Kaist!CompareArchive \/ Kaist!Checks
  BY <1>11 DEF Kaist!Compress, Kaist!RoundTrip, Kaist!CompareArchive, Kaist!Checks
<1>12. CASE Kaist!SnapshotAfter \/ Kaist!InputsAfter \/ Kaist!Commit \/ Kaist!Return
  BY <1>12 DEF Kaist!SnapshotAfter, Kaist!InputsAfter, Kaist!Commit, Kaist!Return
<1>13. CASE Kaist!Interrupt \/ Kaist!Kill
  BY <1>13 DEF Kaist!Interrupt, Kaist!Kill
<1>14. CASE \E f \in Kaist!Files : Kaist!Edit(f)
  BY <1>14 DEF Kaist!Edit
<1>15. CASE Kaist!AdaptedAgain
  BY <1>15 DEF Kaist!AdaptedAgain
<1>16. CASE Kaist!Report \/ Kaist!Spoil \/ Kaist!Decide
  BY <1>16 DEF Kaist!Report, Kaist!Spoil, Kaist!Decide
<1> QED  BY <1>1, <1>2, <1>3, <1>4, <1>5, <1>6, <1>7, <1>8, <1>9, <1>10, <1>11, <1>12, <1>13, <1>14, <1>15, <1>16 DEF Kaist!Next

LEMMA RowsEqual ==
  ASSUME NEW s \in Seq(Int), NEW t \in Seq(Int), Len(s) = Len(t), \A k \in 1..Len(t) : s[k] = t[k]
  PROVE  s = t
OBVIOUS

LEMMA OutputsReadStep ==
  ASSUME KaistShape, KaistOrder, OutputsIdentified, OutputsRead, Kaist!Next
  PROVE  OutputsRead'
<1> USE FileNames DEF KaistShape, KaistOrder, Contents, Kaist!Fine, Kaist!Fault, Kaist!Stays, Kaist!Goes,
      Kaist!Fails, Kaist!Command, Kaist!NoFile, Past, Identified, Rooted, Launched, Summarised, Validated, Referenced,
      Converted, Evaluated, Archiving, Checking, Closing, Committing, OutputsRead
<1>1. CASE Kaist!ValidatePaths \/ Kaist!SnapshotBefore \/ Kaist!AdaptBag
  BY <1>1 DEF Kaist!ValidatePaths, Kaist!SnapshotBefore, Kaist!AdaptBag
<1>2. CASE Kaist!BindInputs
  BY <1>2 DEF Kaist!BindInputs
<1>3. CASE Kaist!BindAdapted \/ Kaist!Preflight
  BY <1>3 DEF Kaist!BindAdapted, Kaist!Preflight
<1>4. CASE Kaist!Launch
  BY <1>4 DEF Kaist!Launch
<1>5. CASE Kaist!EstimatorEnds
  BY <1>5 DEF Kaist!EstimatorEnds
<1>6. CASE Kaist!BindSummaries
  BY <1>6 DEF Kaist!BindSummaries, Kaist!ExactHeaderSummary, Kaist!EnqueueSummary
<1>7. CASE Kaist!ValidateTelemetry \/ Kaist!BindReference
  BY <1>7 DEF Kaist!ValidateTelemetry, Kaist!BindReference
<1>8. CASE Kaist!Convert
  <2>1. CASE Kaist!OutputConsistency
    <3>1. written.state = written.deviation /\ written.timing = written.state
      <4>1. /\ written.state \in Seq(Int) /\ written.timing \in Seq(Int) /\ Len(written.timing) = Len(written.state)
            /\ \A k \in 1..Len(written.state) : written.timing[k] = written.state[k]
        BY <2>1 DEF Kaist!OutputConsistency
      <4>2. written.state = written.deviation
        BY <2>1 DEF Kaist!OutputConsistency
      <4> QED  BY <4>1, <4>2, RowsEqual
    <3> QED  BY <1>8, <2>1, <3>1 DEF Kaist!Convert
  <2>2. CASE ~Kaist!OutputConsistency
    BY <1>8, <2>2 DEF Kaist!Convert
  <2> QED  BY <2>1, <2>2
<1>9. CASE Kaist!StableDigest \/ Kaist!AssociateOutputs
  BY <1>9 DEF Kaist!StableDigest, Kaist!AssociateOutputs
<1>10. CASE Kaist!Evaluate
  BY <1>10 DEF Kaist!Evaluate
<1>11. CASE Kaist!Compress \/ Kaist!RoundTrip \/ Kaist!CompareArchive \/ Kaist!Checks
  BY <1>11 DEF Kaist!Compress, Kaist!RoundTrip, Kaist!CompareArchive, Kaist!Checks
<1>12. CASE Kaist!SnapshotAfter \/ Kaist!InputsAfter \/ Kaist!Commit \/ Kaist!Return
  BY <1>12 DEF Kaist!SnapshotAfter, Kaist!InputsAfter, Kaist!Commit, Kaist!Return
<1>13. CASE Kaist!Interrupt \/ Kaist!Kill
  BY <1>13 DEF Kaist!Interrupt, Kaist!Kill
<1>14. CASE \E f \in Kaist!Files : Kaist!Edit(f)
  BY <1>14 DEF Kaist!Edit
<1>15. CASE Kaist!AdaptedAgain
  BY <1>15 DEF Kaist!AdaptedAgain
<1>16. CASE Kaist!Report \/ Kaist!Spoil \/ Kaist!Decide
  BY <1>16 DEF Kaist!Report, Kaist!Spoil, Kaist!Decide
<1> QED  BY <1>1, <1>2, <1>3, <1>4, <1>5, <1>6, <1>7, <1>8, <1>9, <1>10, <1>11, <1>12, <1>13, <1>14, <1>15, <1>16 DEF Kaist!Next

LEMMA LogArchivedStep ==
  ASSUME KaistShape, KaistOrder, OutputsIdentified, LogArchived, Kaist!Next
  PROVE  LogArchived'
<1> USE FileNames DEF KaistShape, KaistOrder, Contents, Kaist!Fine, Kaist!Fault, Kaist!Stays, Kaist!Goes,
      Kaist!Fails, Kaist!Command, Kaist!NoFile, Past, Identified, Rooted, Launched, Summarised, Validated, Referenced,
      Converted, Evaluated, Archiving, Checking, Closing, Committing, LogArchived
<1>1. CASE Kaist!ValidatePaths \/ Kaist!SnapshotBefore \/ Kaist!AdaptBag
  BY <1>1 DEF Kaist!ValidatePaths, Kaist!SnapshotBefore, Kaist!AdaptBag
<1>2. CASE Kaist!BindInputs
  BY <1>2 DEF Kaist!BindInputs
<1>3. CASE Kaist!BindAdapted \/ Kaist!Preflight
  BY <1>3 DEF Kaist!BindAdapted, Kaist!Preflight
<1>4. CASE Kaist!Launch
  BY <1>4 DEF Kaist!Launch
<1>5. CASE Kaist!EstimatorEnds
  BY <1>5 DEF Kaist!EstimatorEnds
<1>6. CASE Kaist!BindSummaries
  BY <1>6 DEF Kaist!BindSummaries
<1>7. CASE Kaist!ValidateTelemetry \/ Kaist!BindReference
  BY <1>7 DEF Kaist!ValidateTelemetry, Kaist!BindReference
<1>8. CASE Kaist!Convert
  BY <1>8 DEF Kaist!Convert
<1>9. CASE Kaist!StableDigest \/ Kaist!AssociateOutputs
  BY <1>9 DEF Kaist!StableDigest, Kaist!AssociateOutputs
<1>10. CASE Kaist!Evaluate
  BY <1>10 DEF Kaist!Evaluate
<1>11. CASE Kaist!Compress \/ Kaist!RoundTrip \/ Kaist!CompareArchive \/ Kaist!Checks
  BY <1>11 DEF Kaist!Compress, Kaist!RoundTrip, Kaist!CompareArchive, Kaist!Checks, OutputsIdentified, Kaist!Arguments
<1>12. CASE Kaist!SnapshotAfter \/ Kaist!InputsAfter \/ Kaist!Commit \/ Kaist!Return
  BY <1>12 DEF Kaist!SnapshotAfter, Kaist!InputsAfter, Kaist!Commit, Kaist!Return
<1>13. CASE Kaist!Interrupt \/ Kaist!Kill
  BY <1>13 DEF Kaist!Interrupt, Kaist!Kill
<1>14. CASE \E f \in Kaist!Files : Kaist!Edit(f)
  BY <1>14 DEF Kaist!Edit
<1>15. CASE Kaist!AdaptedAgain
  BY <1>15 DEF Kaist!AdaptedAgain
<1>16. CASE Kaist!Report \/ Kaist!Spoil \/ Kaist!Decide
  BY <1>16 DEF Kaist!Report, Kaist!Spoil, Kaist!Decide
<1> QED  BY <1>1, <1>2, <1>3, <1>4, <1>5, <1>6, <1>7, <1>8, <1>9, <1>10, <1>11, <1>12, <1>13, <1>14, <1>15, <1>16 DEF Kaist!Next

\* What the report rests on, put together at the step that makes it.
LEMMA ReportStep ==
  ASSUME KaistInv, Kaist!Next
  PROVE  ReportedIsFrozen'
<1>1. CASE report # "none"
  <2>1. UNCHANGED <<arguments, file, seen, used, written, counts, report>>
    <3>1. step = "done" /\ ended # "running"
      BY <1>1 DEF KaistInv, KaistOrder
    <3> USE <1>1, <3>1 DEF Kaist!Next
    <3> QED  BY DEF Kaist!ValidatePaths, Kaist!BindInputs, Kaist!SnapshotBefore, Kaist!AdaptBag,
      Kaist!BindAdapted, Kaist!Preflight, Kaist!Launch, Kaist!EstimatorEnds, Kaist!BindSummaries,
      Kaist!ValidateTelemetry, Kaist!BindReference, Kaist!Convert, Kaist!StableDigest, Kaist!AssociateOutputs,
      Kaist!Evaluate, Kaist!Compress, Kaist!RoundTrip, Kaist!CompareArchive, Kaist!Checks, Kaist!SnapshotAfter,
      Kaist!InputsAfter, Kaist!Commit, Kaist!Return, Kaist!Interrupt, Kaist!Kill, Kaist!Edit,
      Kaist!AdaptedAgain, Kaist!Report, Kaist!Spoil, Kaist!Decide
  <2> QED  BY <2>1 DEF KaistInv, ReportedIsFrozen, Kaist!ReportedIsFrozen
<1>2. CASE report = "none" /\ ~Kaist!Report
  <2>1. report' = report
    BY <1>2 DEF Kaist!Next, Kaist!ValidatePaths, Kaist!BindInputs, Kaist!SnapshotBefore, Kaist!AdaptBag,
      Kaist!BindAdapted, Kaist!Preflight, Kaist!Launch, Kaist!EstimatorEnds, Kaist!BindSummaries,
      Kaist!ValidateTelemetry, Kaist!BindReference, Kaist!Convert, Kaist!StableDigest, Kaist!AssociateOutputs,
      Kaist!Evaluate, Kaist!Compress, Kaist!RoundTrip, Kaist!CompareArchive, Kaist!Checks, Kaist!SnapshotAfter,
      Kaist!InputsAfter, Kaist!Commit, Kaist!Return, Kaist!Interrupt, Kaist!Kill, Kaist!Edit,
      Kaist!AdaptedAgain, Kaist!Report, Kaist!Spoil, Kaist!Decide, Kaist!Stays
  <2> QED  BY <1>2, <2>1 DEF ReportedIsFrozen, Kaist!ReportedIsFrozen
<1>3. CASE report = "none" /\ Kaist!Report
  <2>1. UNCHANGED <<arguments, file, seen, used, written, counts>>
    BY <1>3 DEF Kaist!Report
  <2> SUFFICES ASSUME report' = "COMPLETED" PROVE Kaist!ReportedIsFrozen'
    BY DEF ReportedIsFrozen, Kaist!ReportedIsFrozen
  <2>2. Kaist!ReportHolds /\ published = "COMPLETED"
    BY <1>3 DEF Kaist!Report
  <2>3. \A s : Past(s)
    BY <2>2 DEF Past
  <2>4. /\ seen["binary"] = "good" /\ seen["adapted"] = "good" /\ after = "good"
        /\ file["state"] = seen["state"] \/ seen["state"] = "none"
        /\ file["trajectory"] = seen["trajectory"] \/ seen["trajectory"] = "none"
    BY <2>2 DEF Kaist!ReportHolds, Kaist!Verified
  <2>5. used["config"] = "good" /\ used["binary"] = "good" /\ used["adapted"] = "good" /\ used["reference"] = "good"
    BY <2>3, <2>4 DEF KaistInv, InputsIdentified, InputsRead, Compared
  <2>6. used["trajectory"] = "good"
    BY <2>3, <2>4 DEF KaistInv, OutputsIdentified, OutputsRead
  <2>7. written.state = written.deviation /\ written.timing = written.state
        /\ counts.processed + counts.thinned = Kaist!Pairs /\ counts.decode = 0
    BY <2>3 DEF KaistInv, OutputsRead
  <2>8. arguments.provenance => used["library"] = seen["library"] /\ seen["tree"] = "good"
    BY <2>3 DEF KaistInv, InputsIdentified, InputsRead, Compared
  <2>9. arguments.flags # {} => seen["archive"] = "good" /\ file["raw"] = "none"
    BY <2>3 DEF KaistInv, LogArchived
  <2> QED  BY <2>1, <2>5, <2>6, <2>7, <2>8, <2>9 DEF Kaist!ReportedIsFrozen
<1> QED  BY <1>1, <1>2, <1>3

\* A run reported as completed used the frozen inputs throughout and is evaluated,
\* counted and archived as validated (kaist_vio_campaign.py 3713-4608,
\* kaist_vio_reports.py 1374-1702), for any arguments and any number of faults.
THEOREM ReportedAlways == Kaist!Spec => []ReportedIsFrozen
<1>1. Kaist!Init => KaistInv
  <2> SUFFICES ASSUME Kaist!Init PROVE KaistInv
    OBVIOUS
  <2>1. KaistShape
    <3>1. file \in [Kaist!Files -> Contents]
      BY FileNames DEF Kaist!Init, Kaist!Clean, Kaist!NoFile, Contents, Kaist!Fixed, Kaist!Frozen, Kaist!Bound
    <3>2. seen \in [Kaist!Files -> Contents] /\ used \in [Kaist!Files -> Contents]
      BY DEF Kaist!Init, Kaist!NoFile, Contents
    <3>3. written = Kaist!GoodRows /\ step \in {"paths", "decide"}
      BY DEF Kaist!Init
    <3> QED  BY <3>1, <3>2, <3>3, RowsShape DEF KaistShape
  <2>2. KaistOrder
    BY DEF KaistOrder, Kaist!Init
  <2>3. \A s : ~Past(s) \/ "paths" \in s \/ "decide" \in s
    BY DEF Past, Kaist!Init
  <2>4. /\ ~Past(Committing) /\ ~Past(Checking) /\ ~Past(Archiving) /\ ~Past(Evaluated) /\ ~Past(Converted)
        /\ ~Past(Referenced) /\ ~Past(Validated) /\ ~Past(Summarised) /\ ~Past(Launched) /\ ~Past(Rooted)
        /\ ~Past(Identified)
    BY <2>3 DEF Identified, Rooted, Launched, Summarised, Validated, Referenced, Converted, Evaluated,
         Archiving, Checking, Closing, Committing
  <2>5. seen["state"] = "none" /\ seen["raw"] = "none" /\ step \in {"paths", "decide"} /\ report = "none"
    BY FileNames DEF Kaist!Init, Kaist!NoFile
  <2> QED  BY <2>1, <2>2, <2>4, <2>5 DEF KaistInv, InputsIdentified, InputsRead, OutputsIdentified, OutputsRead,
             LogArchived, ReportedIsFrozen, Kaist!ReportedIsFrozen
<1>2. KaistInv /\ [Kaist!Next]_(Kaist!vars) => KaistInv'
  <2>1. CASE Kaist!Next
    BY <2>1, KaistShapeStep, KaistOrderStep, InputsIdentifiedStep, InputsReadStep, OutputsIdentifiedStep,
       OutputsReadStep, LogArchivedStep, ReportStep DEF KaistInv
  <2>2. CASE UNCHANGED Kaist!vars
    BY <2>2 DEF Kaist!vars, KaistInv, KaistShape, KaistOrder, Kaist!Arguments, Past, Compared, InputsIdentified,
       InputsRead, OutputsIdentified, OutputsRead, LogArchived, ReportedIsFrozen, Kaist!ReportedIsFrozen
  <2> QED  BY <2>1, <2>2
<1>3. KaistInv => ReportedIsFrozen
  BY DEF KaistInv
<1> QED  BY <1>1, <1>2, <1>3, PTL DEF Kaist!Spec

-----------------------------------------------------------------------------
\* The join of callbacks and rows

\* The instance's counting of a finite set is the library's.
LEMMA KaistCounts ==
  ASSUME NEW S
  PROVE  Kaist!Cardinality(S) = Cardinality(S)
BY DEF Kaist!Cardinality, Cardinality

\* A nonempty set of numbers has a least one.
LEMMA LeastOfNumbers ==
  ASSUME NEW S \in SUBSET Nat, S # {}
  PROVE  \E m \in S : \A x \in S : m =< x
<1> DEFINE upto == {0..x : x \in S}
<1>1. upto # {} /\ upto \subseteq FiniteSubsetsOf(Nat)
  <2>1. \A x \in S : IsFiniteSet(0..x) /\ 0..x \in SUBSET Nat
    BY FS_Interval
  <2> QED  BY <2>1 DEF FiniteSubsetsOf
<1>2. PICK least \in upto : \A u \in upto : <<u, least>> \notin StrictSubsetOrdering(Nat)
  BY <1>1, FS_StrictSubsetOrderingWellFounded, WFMin
<1>3. PICK m \in S : least = 0..m
  OBVIOUS
<1>4. ASSUME NEW y \in S, y < m PROVE FALSE
  <2>1. 0..y \subseteq 0..m /\ m \in 0..m /\ m \notin 0..y /\ 0..m \subseteq Nat
    BY <1>4
  <2>2. <<0..y, 0..m>> \in StrictSubsetOrdering(Nat)
    <3>1. 0..y # 0..m
      BY <2>1
    <3>2. <<0..y, 0..m>> \in (SUBSET Nat) \X (SUBSET Nat)
      BY <2>1
    <3> QED  BY <2>1, <3>1, <3>2 DEF StrictSubsetOrdering
  <2> QED  BY <1>2, <1>3, <2>2
<1>5. \A y \in S : m =< y
  BY <1>4
<1> QED  BY <1>5

\* A table of stamps in order.
Table(rows) == rows \in Seq(Int) /\ \A i, j \in 1..Len(rows) : i < j => rows[i] =< rows[j]

\* bisect_left: the rows before the query are the first ones.
LEMMA BisectIsBoundary ==
  ASSUME NEW rows, Table(rows), NEW q \in Int
  PROVE  /\ Kaist!BisectLeft(rows, q) \in 0..Len(rows)
         /\ \A i \in 1..Len(rows) : rows[i] < q <=> i =< Kaist!BisectLeft(rows, q)
<1> DEFINE n == Len(rows)
           before == {i \in 1..n : rows[i] < q}
           rest == {i \in 1..(n + 1) : i \notin before}
<1>1. n \in Nat /\ \A i \in 1..n : rows[i] \in Int
  BY DEF Table
<1>2. PICK m \in rest : \A x \in rest : m =< x
  <2>1. rest \in SUBSET Nat /\ n + 1 \in rest
    BY <1>1
  <2> HIDE DEF rest
  <2> QED  BY <2>1, LeastOfNumbers
<1>3. m - 1 \in 0..n
  BY <1>1, <1>2
<1>4. \A i \in 1..n : rows[i] < q <=> i =< m - 1
  <2> SUFFICES ASSUME NEW i \in 1..n PROVE rows[i] < q <=> i =< m - 1
    OBVIOUS
  <2>1. i =< m - 1 => rows[i] < q
    BY <1>1, <1>2
  <2>2. ASSUME m =< i PROVE ~(rows[i] < q)
    <3>1. m \in 1..n /\ ~(rows[m] < q)
      BY <1>1, <1>2, <2>2
    <3>2. rows[m] =< rows[i]
      BY <1>1, <2>2, <3>1 DEF Table
    <3> QED  BY <1>1, <3>1, <3>2
  <2> QED  BY <1>1, <1>3, <2>1, <2>2
<1>5. before = 1..(m - 1)
  BY <1>1, <1>3, <1>4
<1>6. Cardinality(before) = m - 1
  <2>1. Cardinality(1..(m - 1)) = IF 1 > m - 1 THEN 0 ELSE (m - 1) - 1 + 1
    BY <1>3, FS_Interval
  <2>2. (IF 1 > m - 1 THEN 0 ELSE (m - 1) - 1 + 1) = m - 1
    BY <1>3
  <2>3. Cardinality(before) = Cardinality(1..(m - 1))
    BY <1>5
  <2> HIDE DEF before
  <2> QED  BY <2>1, <2>2, <2>3
<1>7. Kaist!BisectLeft(rows, q) = Cardinality(before)
  BY KaistCounts DEF Kaist!BisectLeft
<1> HIDE DEF before, rest
<1> QED  BY <1>3, <1>4, <1>6, <1>7

\* The least of the distances of one or two rows.
LEMMA LeastOfTwo ==
  ASSUME NEW D \in SUBSET Int, NEW a, NEW b, D \subseteq {a, b}, D # {}
  PROVE  Kaist!Min(D) \in D /\ \A d \in D : Kaist!Min(D) =< d
<1>1. PICK x \in D : TRUE
  OBVIOUS
<1>2. CASE \A y \in D : x =< y
  BY <1>2 DEF Kaist!Min
<1>3. CASE \E y \in D : ~(x =< y)
  <2>1. PICK y \in D : ~(x =< y)
    BY <1>3
  <2>2. x \in Int /\ y \in Int /\ x # y /\ y =< x /\ y =< y
    BY <2>1
  <2>3. \A z \in D : z = x \/ z = y
    BY <2>2
  <2>4. \A z \in D : y =< z
    BY <2>2, <2>3
  <2> QED  BY <2>4 DEF Kaist!Min
<1> QED  BY <1>2, <1>3

\* Only the two rows around the query are looked at, and that is enough.
LEMMA NearestIsAround ==
  ASSUME NEW rows, Table(rows), NEW q \in Int
  PROVE  LET at == Kaist!BisectLeft(rows, q)
             around == {i \in {at, at + 1} : i \in 1..Len(rows)}
             least == Kaist!Min({Kaist!Distance(rows[i], q) : i \in around})
             stamps == {rows[i] : i \in {j \in around : Kaist!Distance(rows[j], q) = least}}
             nearest == {i \in 1..Len(rows) : rows[i] \in stamps}
         IN  /\ around = {} => Kaist!Nearest(rows, q) = {}
             /\ around # {} /\ least > Tolerance => Kaist!Nearest(rows, q) = {}
             /\ around # {} /\ ~(least > Tolerance) => Kaist!Nearest(rows, q) = nearest
<1> DEFINE n == Len(rows)
           at == Kaist!BisectLeft(rows, q)
           around == {i \in {at, at + 1} : i \in 1..n}
           dist(i) == Kaist!Distance(rows[i], q)
           D == {dist(i) : i \in around}
           least == Kaist!Min(D)
           stamps == {rows[i] : i \in {j \in around : dist(j) = least}}
           nearest == {i \in 1..n : rows[i] \in stamps}
<1>0. n \in Nat /\ Tolerance \in Nat /\ \A i \in 1..n : rows[i] \in Int
  BY KaistAssumption DEF Table
<1>1. at \in 0..n /\ \A i \in 1..n : rows[i] < q <=> i =< at
  BY BisectIsBoundary
<1>2. \A i \in 1..n : dist(i) \in Nat /\ (i =< at => dist(i) = q - rows[i]) /\ (~(i =< at) => dist(i) = rows[i] - q)
  BY <1>0, <1>1 DEF Kaist!Distance
<1>3. \A i \in 1..n : i =< at => at \in around /\ rows[i] =< rows[at]
  BY <1>0, <1>1 DEF Table
<1>4. \A i \in 1..n : ~(i =< at) => at + 1 \in around /\ rows[at + 1] =< rows[i]
  BY <1>0, <1>1 DEF Table
<1>5. around \subseteq 1..n /\ (around = {} => 1..n = {})
  BY <1>0, <1>3, <1>4
<1>6. CASE around = {}
  BY <1>5, <1>6 DEF Kaist!Nearest
<1>7. CASE around # {}
  <2>1. least \in D /\ \A d \in D : least =< d
    <3>1. D \in SUBSET Int /\ D \subseteq {dist(at), dist(at + 1)} /\ D # {}
      BY <1>2, <1>5, <1>7
    <3> HIDE DEF D
    <3> QED  BY <3>1, LeastOfTwo
  <2>2. least \in Nat /\ \A j \in around : least =< dist(j)
    BY <1>2, <1>5, <2>1
  <2> HIDE DEF least
  <2>3. ASSUME NEW i \in 1..n
        PROVE  \E j \in around : dist(j) =< dist(i) /\ (dist(j) = dist(i) => rows[j] = rows[i])
    <3>1. CASE i =< at
      <4>1. at \in around /\ at \in 1..n /\ rows[i] =< rows[at] /\ dist(i) = q - rows[i] /\ dist(at) = q - rows[at]
        BY <1>0, <1>1, <1>2, <1>3, <1>5, <3>1
      <4>2. rows[i] \in Int /\ rows[at] \in Int
        BY <1>0, <4>1
      <4> HIDE DEF dist, around
      <4>3. dist(at) =< dist(i) /\ (dist(at) = dist(i) => rows[at] = rows[i])
        BY <4>1, <4>2
      <4> QED  BY <4>1, <4>3
    <3>2. CASE ~(i =< at)
      <4>1. at + 1 \in around /\ at + 1 \in 1..n /\ ~(at + 1 =< at) /\ rows[at + 1] =< rows[i]
        BY <1>0, <1>1, <1>4, <1>5, <3>2
      <4>2. dist(i) = rows[i] - q /\ dist(at + 1) = rows[at + 1] - q
        BY <1>2, <3>2, <4>1
      <4>3. rows[i] \in Int /\ rows[at + 1] \in Int
        BY <1>0, <4>1
      <4> HIDE DEF dist, around
      <4>4. dist(at + 1) =< dist(i) /\ (dist(at + 1) = dist(i) => rows[at + 1] = rows[i])
        BY <4>1, <4>2, <4>3
      <4> QED  BY <4>1, <4>4
    <3> QED  BY <3>1, <3>2
  <2>4. PICK c \in around : dist(c) = least
    BY <2>1
  <2>5. \A i \in 1..n : dist(i) \in Nat /\ least =< dist(i)
    <3> SUFFICES ASSUME NEW i \in 1..n PROVE dist(i) \in Nat /\ least =< dist(i)
      OBVIOUS
    <3>1. PICK j \in around : dist(j) =< dist(i)
      BY <2>3
    <3>2. dist(i) \in Nat /\ dist(j) \in Nat /\ least =< dist(j)
      BY <1>2, <1>5, <2>2, <3>1
    <3> HIDE DEF dist
    <3> QED  BY <2>2, <3>1, <3>2
  <2>6. \A i \in 1..n : i \in nearest <=> dist(i) = least
    <3> SUFFICES ASSUME NEW i \in 1..n PROVE i \in nearest <=> dist(i) = least
      OBVIOUS
    <3>1. ASSUME i \in nearest PROVE dist(i) = least
      BY <3>1
    <3>2. ASSUME dist(i) = least PROVE i \in nearest
      <4>1. PICK j \in around : dist(j) =< dist(i) /\ (dist(j) = dist(i) => rows[j] = rows[i])
        BY <2>3
      <4>2. dist(j) \in Nat /\ dist(j) = least
        BY <1>2, <1>5, <2>2, <3>2, <4>1
      <4> QED  BY <3>2, <4>1, <4>2
    <3> QED  BY <3>1, <3>2
  <2>7. Kaist!Nearest(rows, q) = {i \in 1..n : dist(i) =< Tolerance /\ \A j \in 1..n : dist(i) =< dist(j)}
    BY DEF Kaist!Nearest
  <2>8. c \in 1..n
    BY <1>5, <2>4
  <2> HIDE DEF dist, nearest, around
  <2>9. \A i \in 1..n : (\A j \in 1..n : dist(i) =< dist(j)) <=> dist(i) = least
    BY <2>2, <2>4, <2>5, <2>8
  <2>10. least > Tolerance => Kaist!Nearest(rows, q) = {}
    BY <1>0, <2>2, <2>7, <2>9
  <2>11. ~(least > Tolerance) => Kaist!Nearest(rows, q) = nearest
    <3>1. nearest \subseteq 1..n
      BY DEF nearest
    <3>2. \A i \in 1..n : dist(i) = least /\ ~(least > Tolerance) => dist(i) =< Tolerance
      BY <1>0, <2>2
    <3>3. \A i \in 1..n : i \in nearest <=> dist(i) = least
      BY <2>6
    <3> HIDE DEF n
    <3> QED  BY <2>7, <2>9, <3>1, <3>2, <3>3
  <2> QED  BY <1>7, <2>10, <2>11 DEF dist, nearest, around, least
<1> QED  BY <1>6, <1>7

\* _unique_nearest is exact.
LEMMA UniqueNearestIsExact ==
  ASSUME NEW rows, Table(rows), NEW q \in Int
  PROVE  /\ \/ Kaist!UniqueNearest(rows, q) \in {[status |-> "MISSING", row |-> 0], [status |-> "AMBIGUOUS", row |-> 0]}
            \/ \E i \in 1..Len(rows) : Kaist!UniqueNearest(rows, q) = [status |-> "MATCHED", row |-> i]
         /\ \A i \in 1..Len(rows) :
              Kaist!UniqueNearest(rows, q) = [status |-> "MATCHED", row |-> i]
                 <=> q # -1 /\ Kaist!Nearest(rows, q) = {i}
<1> DEFINE n == Len(rows)
           at == Kaist!BisectLeft(rows, q)
           around == {i \in {at, at + 1} : i \in 1..n}
           least == Kaist!Min({Kaist!Distance(rows[i], q) : i \in around})
           stamps == {rows[i] : i \in {j \in around : Kaist!Distance(rows[j], q) = least}}
           nearest == {i \in 1..n : rows[i] \in stamps}
           u == Kaist!UniqueNearest(rows, q)
<1>1. /\ around = {} => Kaist!Nearest(rows, q) = {}
      /\ around # {} /\ least > Tolerance => Kaist!Nearest(rows, q) = {}
      /\ around # {} /\ ~(least > Tolerance) => Kaist!Nearest(rows, q) = nearest
  BY NearestIsAround
<1>2. u = IF q = -1 \/ around = {} THEN [status |-> "MISSING", row |-> 0]
          ELSE IF least > Tolerance THEN [status |-> "MISSING", row |-> 0]
          ELSE IF Cardinality(nearest) # 1 THEN [status |-> "AMBIGUOUS", row |-> 0]
          ELSE [status |-> "MATCHED", row |-> CHOOSE i \in nearest : TRUE]
  BY KaistCounts DEF Kaist!UniqueNearest
<1>3. IsFiniteSet(nearest) /\ nearest \subseteq 1..n
  <2>1. IsFiniteSet(1..n)
    <3>1. 1 \in Int /\ n \in Int
      BY DEF Table
    <3> QED  BY <3>1, FS_Interval
  <2> QED  BY <2>1, FS_Subset
<1> HIDE DEF u, nearest, around, least, n
<1>4. \A i \in 1..n : [status |-> "MATCHED", row |-> i] \notin
            {[status |-> "MISSING", row |-> 0], [status |-> "AMBIGUOUS", row |-> 0]}
  OBVIOUS
<1>5. CASE q = -1 \/ around = {}
  BY <1>1, <1>2, <1>4, <1>5 DEF u, n
<1>6. CASE q # -1 /\ around # {} /\ least > Tolerance
  BY <1>1, <1>2, <1>4, <1>6 DEF u, n
<1>7. CASE q # -1 /\ around # {} /\ ~(least > Tolerance)
  <2>1. Cardinality(nearest) = 1 <=> \E x : nearest = {x}
    BY <1>3, FS_Singleton
  <2>2. CASE Cardinality(nearest) # 1
    <3>1. u = [status |-> "AMBIGUOUS", row |-> 0]
      BY <1>2, <1>7, <2>2
    <3>2. \A i : Kaist!Nearest(rows, q) # {i}
      BY <1>1, <1>7, <2>1, <2>2
    <3> QED  BY <1>4, <3>1, <3>2 DEF u, n
  <2>3. CASE Cardinality(nearest) = 1
    <3>1. PICK x : nearest = {x}
      BY <2>1, <2>3
    <3>2. x \in 1..n
      BY <1>3, <3>1
    <3>3. (CHOOSE i \in nearest : TRUE) = x
      BY <3>1
    <3>4. u = [status |-> "MATCHED", row |-> x]
      BY <1>2, <1>7, <2>3, <3>3
    <3>5. Kaist!Nearest(rows, q) = {x}
      BY <1>1, <1>7, <3>1
    <3>6. \A i \in 1..n : u = [status |-> "MATCHED", row |-> i] <=> i = x
      <4>1. u.row = x
        BY <3>4
      <4>2. \A i \in 1..n : u = [status |-> "MATCHED", row |-> i] => u.row = i
        OBVIOUS
      <4> QED  BY <3>4, <4>1, <4>2
    <3> QED  BY <1>7, <3>2, <3>4, <3>5, <3>6 DEF u, n
  <2> QED  BY <2>2, <2>3
<1> QED  BY <1>5, <1>6, <1>7

\* _enforce_one_to_one: what is left are the rows a query has to itself.
LEMMA AssociateIsExact ==
  ASSUME NEW rows, Table(rows), NEW queries \in Seq(Int), NEW k \in 1..Len(queries)
  PROVE  /\ Kaist!Associate(rows, queries)[k].status = "MATCHED" =>
              Kaist!Owns(rows, queries, k, Kaist!Associate(rows, queries)[k].row)
         /\ \A i \in 1..Len(rows) : Kaist!Owns(rows, queries, k, i) =>
              Kaist!Associate(rows, queries)[k] = [status |-> "MATCHED", row |-> i]
<1> DEFINE m == [j \in 1..Len(queries) |-> Kaist!UniqueNearest(rows, queries[j])]
           out == Kaist!Associate(rows, queries)
           hit(i) == [status |-> "MATCHED", row |-> i]
<1>0. Len(queries) \in Nat /\ \A j \in 1..Len(queries) : queries[j] \in Int
  OBVIOUS
<1>1. Len(m) = Len(queries) /\ \A j \in 1..Len(queries) : m[j] = Kaist!UniqueNearest(rows, queries[j])
  BY <1>0
<1>2. \A j \in 1..Len(queries) :
        /\ m[j] \in {[status |-> "MISSING", row |-> 0], [status |-> "AMBIGUOUS", row |-> 0]}
              \/ \E i \in 1..Len(rows) : m[j] = hit(i)
        /\ \A i \in 1..Len(rows) : m[j] = hit(i) <=> queries[j] # -1 /\ Kaist!Nearest(rows, queries[j]) = {i}
  <2> TAKE j \in 1..Len(queries)
  <2> DEFINE q == queries[j]
  <2>1. q \in Int /\ m[j] = Kaist!UniqueNearest(rows, q)
    BY <1>0, <1>1
  <2> HIDE DEF q, m
  <2>2. /\ \/ Kaist!UniqueNearest(rows, q) \in {[status |-> "MISSING", row |-> 0], [status |-> "AMBIGUOUS", row |-> 0]}
           \/ \E i \in 1..Len(rows) : Kaist!UniqueNearest(rows, q) = hit(i)
        /\ \A i \in 1..Len(rows) : Kaist!UniqueNearest(rows, q) = hit(i) <=> q # -1 /\ Kaist!Nearest(rows, q) = {i}
    BY <2>1, UniqueNearestIsExact
  <2> HIDE DEF hit
  <2> QED  BY <2>1, <2>2 DEF q
<1> HIDE DEF m
<1>3. out[k] = IF m[k].status = "MATCHED" /\ \E j \in 1..Len(queries) : j # k /\ m[j] = m[k]
               THEN [status |-> "AMBIGUOUS", row |-> 0] ELSE m[k]
  BY <1>1 DEF Kaist!Associate, Kaist!EnforceOneToOne, m
<1> HIDE DEF out
<1>4. ASSUME out[k].status = "MATCHED" PROVE Kaist!Owns(rows, queries, k, out[k].row)
  <2>1. out[k] = m[k] /\ \A j \in 1..Len(queries) : j # k => m[j] # m[k]
    BY <1>3, <1>4
  <2>2. PICK i \in 1..Len(rows) : m[k] = hit(i)
    BY <1>2, <1>4, <2>1
  <2>3. queries[k] # -1 /\ Kaist!Nearest(rows, queries[k]) = {i}
    BY <1>2, <2>2
  <2>4. \A j \in 1..Len(queries) : (j # k /\ queries[j] # -1) => Kaist!Nearest(rows, queries[j]) # {i}
    BY <1>2, <2>1, <2>2
  <2>5. out[k].row = i
    BY <2>1, <2>2
  <2> QED  BY <2>3, <2>4, <2>5 DEF Kaist!Owns
<1>5. ASSUME NEW i \in 1..Len(rows), Kaist!Owns(rows, queries, k, i) PROVE out[k] = hit(i)
  <2>1. m[k] = hit(i)
    BY <1>2, <1>5 DEF Kaist!Owns
  <2>2. \A j \in 1..Len(queries) : j # k => m[j] # m[k]
    <3> SUFFICES ASSUME NEW j \in 1..Len(queries), j # k, m[j] = hit(i) PROVE FALSE
      BY <2>1
    <3>1. queries[j] # -1 /\ Kaist!Nearest(rows, queries[j]) = {i}
      <4> HIDE DEF hit
      <4> QED  BY <1>2
    <3> QED  BY <1>5, <3>1 DEF Kaist!Owns
  <2> QED  BY <1>3, <2>1, <2>2
<1> QED  BY <1>4, <1>5 DEF out

\* An input of the pure parts waits for its decision, and then carries the answer.
AskedInv ==
    \/ step # "decide" /\ asked = [of |-> "none"]
    \/ step \in {"decide", "done"} /\ asked.of = "log" /\ "of" \in DOMAIN asked
    \/ step = "decide" /\ \E p \in RowProbes : asked = [of |-> "rows", in |-> p.rows, queries |-> p.queries]
    \/ step = "done" /\ \E p \in RowProbes :
          asked = [of |-> "rows", in |-> p.rows, queries |-> p.queries, out |-> Kaist!Associate(p.rows, p.queries)]

\* The campaign never touches such an input, nor comes to its decision.
LEMMA CampaignLeavesAsked ==
  ASSUME Kaist!Next, ~Kaist!Spoil, ~Kaist!Decide
  PROVE  asked' = asked /\ (step' = step \/ (step \notin {"decide", "done"} /\ step' # "decide"))
<1> USE DEF Kaist!Stays, Kaist!Goes, Kaist!Fails, Kaist!Command
<1>1. CASE Kaist!ValidatePaths \/ Kaist!BindInputs \/ Kaist!SnapshotBefore \/ Kaist!AdaptBag \/ Kaist!BindAdapted
           \/ Kaist!Preflight \/ Kaist!Launch \/ Kaist!EstimatorEnds
  BY <1>1 DEF Kaist!ValidatePaths, Kaist!BindInputs, Kaist!SnapshotBefore, Kaist!AdaptBag, Kaist!BindAdapted,
       Kaist!Preflight, Kaist!Launch, Kaist!EstimatorEnds
<1>2. CASE Kaist!BindSummaries \/ Kaist!ValidateTelemetry \/ Kaist!BindReference \/ Kaist!Convert
           \/ Kaist!StableDigest \/ Kaist!AssociateOutputs \/ Kaist!Evaluate \/ Kaist!Compress \/ Kaist!RoundTrip
  BY <1>2 DEF Kaist!BindSummaries, Kaist!ValidateTelemetry, Kaist!BindReference, Kaist!Convert,
       Kaist!StableDigest, Kaist!AssociateOutputs, Kaist!Evaluate, Kaist!Compress, Kaist!RoundTrip
<1>3. CASE Kaist!CompareArchive \/ Kaist!Checks \/ Kaist!SnapshotAfter \/ Kaist!InputsAfter \/ Kaist!Commit
           \/ Kaist!Return \/ Kaist!Interrupt \/ Kaist!Kill
  BY <1>3 DEF Kaist!CompareArchive, Kaist!Checks, Kaist!SnapshotAfter, Kaist!InputsAfter, Kaist!Commit,
       Kaist!Return, Kaist!Interrupt, Kaist!Kill
<1>4. CASE (\E f \in Kaist!Files : Kaist!Edit(f)) \/ Kaist!AdaptedAgain \/ Kaist!Report
  BY <1>4 DEF Kaist!Edit, Kaist!AdaptedAgain, Kaist!Report
<1> QED  BY <1>1, <1>2, <1>3, <1>4 DEF Kaist!Next

\* A callback gets a row exactly where that is unambiguous
\* (event_ready_association.py 94-123, 387-397), for every table of rows in order
\* and any queries.
THEOREM AssociationAlways == Kaist!Spec => []AssociationIsExact
<1>1. Kaist!Init => AskedInv
  BY DEF Kaist!Init, AskedInv
<1>2. AskedInv /\ [Kaist!Next]_(Kaist!vars) => AskedInv'
  <2> SUFFICES ASSUME AskedInv, [Kaist!Next]_(Kaist!vars) PROVE AskedInv'
    OBVIOUS
  <2>1. CASE UNCHANGED Kaist!vars
    BY <2>1 DEF Kaist!vars, AskedInv
  <2>2. CASE Kaist!Next /\ ~Kaist!Spoil /\ ~Kaist!Decide
    BY <2>2, CampaignLeavesAsked DEF AskedInv
  <2>3. CASE Kaist!Spoil
    <3>1. step = "decide" /\ step' = step /\ asked.of = "log"
      BY <2>3 DEF Kaist!Spoil
    <3>2. "of" \in DOMAIN asked
      BY <3>1 DEF AskedInv
    <3>3. PICK l : asked' = [asked EXCEPT !.in = l, !.left = @ - 1]
      BY <2>3 DEF Kaist!Spoil
    <3>4. asked'.of = "log" /\ "of" \in DOMAIN asked'
      BY <3>1, <3>2, <3>3
    <3> QED  BY <3>1, <3>4 DEF AskedInv
  <2>4. CASE Kaist!Decide
    <3>1. step = "decide" /\ step' = "done"
      BY <2>4 DEF Kaist!Decide
    <3>2. CASE asked.of = "log"
      <4>1. asked'.of = "log" /\ "of" \in DOMAIN asked'
        BY <2>4, <3>2 DEF Kaist!Decide
      <4> QED  BY <3>1, <4>1 DEF AskedInv
    <3>3. CASE \E p \in RowProbes : asked = [of |-> "rows", in |-> p.rows, queries |-> p.queries]
      BY <2>4, <3>1, <3>3 DEF Kaist!Decide, AskedInv
    <3> QED  BY <3>1, <3>2, <3>3 DEF AskedInv
  <2> QED  BY <2>1, <2>2, <2>3, <2>4
<1>3. AskedInv => AssociationIsExact
  <2> SUFFICES ASSUME AskedInv, asked.of = "rows", step = "done", NEW k \in 1..Len(asked.queries)
               PROVE  /\ asked.out[k].status = "MATCHED" => Kaist!Owns(asked.in, asked.queries, k, asked.out[k].row)
                      /\ \A i \in 1..Len(asked.in) :
                            Kaist!Owns(asked.in, asked.queries, k, i) => asked.out[k] = [status |-> "MATCHED", row |-> i]
    BY DEF AssociationIsExact, Kaist!AssociationIsExact
  <2>1. PICK p \in RowProbes :
          asked = [of |-> "rows", in |-> p.rows, queries |-> p.queries, out |-> Kaist!Associate(p.rows, p.queries)]
    BY DEF AskedInv
  <2>2. asked.in = p.rows /\ asked.queries = p.queries /\ asked.out = Kaist!Associate(p.rows, p.queries)
    BY <2>1
  <2>3. Table(p.rows) /\ p.queries \in Seq(Int)
    BY KaistAssumption DEF Table
  <2> QED  BY <2>2, <2>3, AssociateIsExact
<1> QED  BY <1>1, <1>2, <1>3, PTL DEF Kaist!Spec

-----------------------------------------------------------------------------
\* The trial

\* Its stages from the last check back to the first.
Postponed == {"finish", "classify", "publish", "seal", "ended"}
Compares == {"capture", "postflight"}
Reads == {"outputs"} \cup Compares
Listens == {"console"} \cup Reads
Closes == {"close"} \cup Listens
Linked == {"services", "estimator"} \cup Closes
Known == {"linkage"} \cup Linked
Counted == {"parameters", "identity"} \cup Known

Fields == {"before", "unchanged", "contract", "launch", "survived", "teardown", "managed", "numeric", "decoded",
           "state", "outputs", "continuity", "tail", "exits", "early", "terminal", "child", "captured", "linked",
           "link", "attempted", "closed", "mechanism", "status", "evidence"}
TrialShape ==
    /\ stage \in {"preflight", "census"} \cup Counted \cup Postponed
    /\ DOMAIN run = Fields /\ DOMAIN run.before = Trial!Inputs
    /\ DOMAIN run.link = {"before", "after", "exact"}
    /\ inputs \in [Trial!Inputs -> {0, 1}] /\ scored \in {0, 1}
    /\ truth.on \in [Trial!Inputs -> {0, 1}]

\* The order of things: the second comparison of the inputs comes after every
\* stage, the result after the classification, the verdict after the result.
TrialOrder ==
    /\ run.unchanged # "none" => stage \in Postponed
    /\ result # Trial!NoRun => result = run /\ stage \in {"seal", "ended"}
    /\ verdict # "none" => result # Trial!NoRun
    /\ stage \in {"linkage", "capture"} => Trial!Capture
    /\ ~Trial!Capture => run.captured /\ run.linked

\* The status and the validity are those of the other facts of the run.
Classified ==
    (stage \in {"publish", "seal"} \/ result # Trial!NoRun) =>
        run.status = Trial!ClassifyOutcome(run) /\ run.evidence = Trial!EvidenceValidity(run)

\* The inputs are the pinned ones up to where they were last looked at; an input
\* that has changed does not change back.
InputsPinned ==
    /\ stage \in {"census"} \cup Counted =>
          /\ run.before["config"] = 0 /\ run.before["launch"] = 0 /\ run.before["matrix"] = 0
          /\ run.before["binary"] = 0 \/ inputs["binary"] # 0
    /\ stage \in Counted => run.before["bag"] = 0
    /\ stage \in Known => run.before["binary"] = 0
    /\ stage \in Linked /\ Trial!Capture => run.link["before"] = 0
    /\ stage \in Closes => \A n \in Trial!Inputs : truth.on[n] = 0 \/ inputs[n] # 0
    /\ run.unchanged = "yes" => truth.on = Trial!Pinned

\* The trial is at one of the stages, or went through them all.
Behind(stages) == stage \in stages \/ run.unchanged = "yes"

\* What the runner learned is what the estimator did: from its process, ...
LaunchTold ==
    Behind(Closes) =>
        /\ truth.ran /\ truth.defects \subseteq Trial!Defects /\ Trial!Possible(truth.defects)
        /\ run.launch \in {"timedOut", "ended", "interrupted"}
        /\ run.launch = "timedOut" => Trial!Had("hang")
        /\ run.launch = "ended" => ~Trial!Had("hang")
        /\ run.survived <=> Trial!Had("stuck")

\* ... from the console, ...
ConsoleTold ==
    Behind(Reads) =>
        /\ run.contract => ~Trial!Had("unstarted") /\ Trial!RecoveryOff /\ Trial!PairingHolds
        /\ run.mechanism <=> Trial!Mechanism
        /\ run.numeric <=> ~Trial!Had("nonfinite")
        /\ run.decoded <=> ~Trial!Had("decode")
        /\ run.exits = Trial!ChildExits /\ run.child = Trial!Child
        /\ run.terminal <=> Trial!KaistS1 /\ Trial!Terminal

\* ... from the files, ...
OutputsTold ==
    Behind(Compares) =>
        /\ run.state = Trial!StateKind
        /\ run.outputs <=> Trial!StateKind = "valid" /\ ~Trial!Had("tables")
        /\ run.continuity <=> Trial!Continuity /\ Trial!RecoveredGap(run)
        /\ run.tail <=> Trial!Tail

\* ... and from the comparison with the scored run.
CaptureTold ==
    Behind({"postflight"}) /\ Trial!Capture =>
        /\ run.captured <=> ~Trial!Had("active")
        /\ run.linked => ~Trial!Had("differs")

\* Whatever is left alive was reported.
LeftAlive ==
    /\ stage \in {"preflight", "census", "parameters", "identity", "linkage", "services"} => alive = {}
    /\ stage \in {"estimator", "close"} => run.managed = Trial!Services
    /\ stage = "estimator" => alive = Trial!Services
    /\ stage = "close" => alive \subseteq Trial!Services \cup (IF run.survived THEN {"estimator"} ELSE {})
    /\ Behind(Listens) => run.managed = {} /\ (run.teardown /\ ~run.survived => alive = {})

TrialInv ==
    /\ TrialShape /\ TrialOrder /\ Classified /\ InputsPinned /\ LaunchTold /\ ConsoleTold /\ OutputsTold
    /\ CaptureTold /\ LeftAlive /\ RetainedIsTrue

\* No operation changes the request, and only the estimator the truth.
LEMMA TrialFixed ==
  ASSUME Trial!Next
  PROVE  req' = req /\ (truth' = truth \/ Trial!Estimator)
BY DEF Trial!Next, Trial!Change, Trial!Preflight, Trial!Census, Trial!Parameters, Trial!Identity, Trial!LinkScored,
   Trial!StartServices, Trial!Raises, Trial!Interrupted, Trial!Estimator, Trial!CloseServices, Trial!Console,
   Trial!Outputs, Trial!CaptureCheck, Trial!Postflight, Trial!FinishTrial, Trial!Classify, Trial!Publish, Trial!Seal,
   Trial!Killed, Trial!Validate

LEMMA RequestOps ==
  ASSUME req' = req
  PROVE  /\ Trial!Capture' <=> Trial!Capture
         /\ Trial!Kaist' <=> Trial!Kaist
         /\ Trial!KaistS1' <=> Trial!KaistS1
         /\ Trial!Services' = Trial!Services
BY DEF Trial!Capture, Trial!Kaist, Trial!KaistS1, Trial!Services

\* What the runner is told follows from the request and the truth.
LEMMA TruthOps ==
  ASSUME req' = req, truth' = truth
  PROVE  /\ Trial!Possible(truth.defects)' <=> Trial!Possible(truth.defects)
         /\ Trial!RecoveryOff' <=> Trial!RecoveryOff
         /\ Trial!Mechanism' <=> Trial!Mechanism
         /\ Trial!PairingHolds' <=> Trial!PairingHolds
         /\ Trial!Terminal' <=> Trial!Terminal
         /\ Trial!ChildExits' = Trial!ChildExits
         /\ Trial!Child' = Trial!Child
         /\ Trial!StateKind' = Trial!StateKind
         /\ Trial!Continuity' <=> Trial!Continuity
         /\ Trial!Tail' <=> Trial!Tail
<1>1. Trial!Possible(truth.defects)' <=> Trial!Possible(truth.defects)
  BY DEF Trial!Possible, Trial!KaistS1, Trial!Kaist, Trial!Capture
<1>2. /\ Trial!RecoveryOff' <=> Trial!RecoveryOff
      /\ Trial!Mechanism' <=> Trial!Mechanism
      /\ Trial!PairingHolds' <=> Trial!PairingHolds
      /\ Trial!Terminal' <=> Trial!Terminal
  BY DEF Trial!RecoveryOff, Trial!Mechanism, Trial!PairingHolds, Trial!Terminal, Trial!Early, Trial!Had,
     Trial!Kaist, Trial!KaistS1
<1>3. Trial!ChildExits' = Trial!ChildExits /\ Trial!Child' = Trial!Child /\ Trial!StateKind' = Trial!StateKind
  BY DEF Trial!ChildExits, Trial!Child, Trial!StateKind, Trial!Had
<1>4. (Trial!Continuity' <=> Trial!Continuity) /\ (Trial!Tail' <=> Trial!Tail)
  BY <1>3 DEF Trial!Continuity, Trial!Tail, Trial!Had
<1> QED  BY <1>1, <1>2, <1>3, <1>4

LEMMA TrialShapeStep ==
  ASSUME TrialShape, Trial!Next
  PROVE  TrialShape'
<1> USE DEF TrialShape, Trial!Works, Trial!Fails, Trial!world, Trial!disk, Postponed, Compares, Reads, Listens, Closes, Linked, Known, Counted, Fields, Trial!Inputs
<1>1. CASE Trial!Change
  BY <1>1 DEF Trial!Change
<1>2. CASE Trial!Preflight \/ Trial!Census
  BY <1>2 DEF Trial!Preflight, Trial!Census
<1>3. CASE Trial!Parameters \/ Trial!Identity
  BY <1>3 DEF Trial!Parameters, Trial!Identity
<1>4. CASE Trial!LinkScored \/ Trial!StartServices
  BY <1>4 DEF Trial!LinkScored, Trial!StartServices
<1>5. CASE Trial!Raises
  BY <1>5 DEF Trial!Raises
<1>6. CASE Trial!Interrupted
  BY <1>6 DEF Trial!Interrupted
<1>7. CASE Trial!Estimator
  <2>1. PICK d \in Trial!DefectSets : /\ Trial!Possible(d) /\ Trial!RunCommand(d)
                                       /\ truth' = [ran |-> TRUE, on |-> inputs, defects |-> d]
    BY <1>7 DEF Trial!Estimator
  <2>2. stage = "estimator" /\ stage' = "close" /\ UNCHANGED <<req, inputs, scored, result, sums, verdict>>
    BY <1>7 DEF Trial!Estimator
  <2>3. DOMAIN run' = Fields /\ run'.before = run.before /\ run'.link = run.link
    BY <2>1 DEF Trial!RunCommand
  <2>4. truth'.on = inputs
    BY <2>1
  <2> QED  BY <2>2, <2>3, <2>4
<1>8. CASE Trial!CloseServices
  BY <1>8 DEF Trial!CloseServices, Trial!FinishManaged
<1>9. CASE Trial!Console
  BY <1>9 DEF Trial!Console
<1>10. CASE Trial!Outputs
  BY <1>10 DEF Trial!Outputs
<1>11. CASE Trial!CaptureCheck
  BY <1>11 DEF Trial!CaptureCheck
<1>12. CASE Trial!Postflight
  BY <1>12 DEF Trial!Postflight
<1>13. CASE Trial!FinishTrial
  BY <1>13 DEF Trial!FinishTrial, Trial!FinishManaged
<1>14. CASE Trial!Classify
  BY <1>14 DEF Trial!Classify
<1>15. CASE Trial!Publish \/ Trial!Seal
  BY <1>15 DEF Trial!Publish, Trial!Seal
<1>16. CASE Trial!Killed
  BY <1>16 DEF Trial!Killed
<1>17. CASE Trial!Validate
  BY <1>17 DEF Trial!Validate
<1> QED  BY <1>1, <1>2, <1>3, <1>4, <1>5, <1>6, <1>7, <1>8, <1>9, <1>10, <1>11, <1>12, <1>13, <1>14, <1>15, <1>16, <1>17 DEF Trial!Next

\* Which operation writes which fact of the run.
LEMMA WritesLaunch ==
  ASSUME TrialShape, Trial!Next
  PROVE  Trial!Estimator \/ Trial!Interrupted \/ (run'.launch = run.launch /\ run'.survived = run.survived)
<1> USE DEF TrialShape, Fields, Trial!disk, Trial!world
<1>1. CASE Trial!Change
  BY <1>1 DEF Trial!Change
<1>2. CASE Trial!Preflight \/ Trial!Census
  BY <1>2 DEF Trial!Preflight, Trial!Census
<1>3. CASE Trial!Parameters \/ Trial!Identity
  BY <1>3 DEF Trial!Parameters, Trial!Identity
<1>4. CASE Trial!LinkScored \/ Trial!StartServices
  BY <1>4 DEF Trial!LinkScored, Trial!StartServices
<1>5. CASE Trial!Raises
  BY <1>5 DEF Trial!Raises
<1>6. CASE Trial!Interrupted
  BY <1>6
<1>7. CASE Trial!Estimator
  BY <1>7
<1>8. CASE Trial!CloseServices
  BY <1>8 DEF Trial!CloseServices, Trial!FinishManaged
<1>9. CASE Trial!Console
  BY <1>9 DEF Trial!Console
<1>10. CASE Trial!Outputs
  BY <1>10 DEF Trial!Outputs
<1>11. CASE Trial!CaptureCheck
  BY <1>11 DEF Trial!CaptureCheck
<1>12. CASE Trial!Postflight
  BY <1>12 DEF Trial!Postflight
<1>13. CASE Trial!FinishTrial
  BY <1>13 DEF Trial!FinishTrial, Trial!FinishManaged
<1>14. CASE Trial!Classify
  BY <1>14 DEF Trial!Classify
<1>15. CASE Trial!Publish \/ Trial!Seal
  BY <1>15 DEF Trial!Publish, Trial!Seal
<1>16. CASE Trial!Killed
  BY <1>16 DEF Trial!Killed
<1>17. CASE Trial!Validate
  BY <1>17 DEF Trial!Validate
<1> QED  BY <1>1, <1>2, <1>3, <1>4, <1>5, <1>6, <1>7, <1>8, <1>9, <1>10, <1>11, <1>12, <1>13, <1>14, <1>15, <1>16, <1>17 DEF Trial!Next

LEMMA WritesConsole ==
  ASSUME TrialShape, Trial!Next
  PROVE  \/ Trial!Console
         \/ /\ run'.mechanism = run.mechanism /\ run'.numeric = run.numeric /\ run'.decoded = run.decoded
            /\ run'.exits = run.exits /\ run'.child = run.child /\ run'.terminal = run.terminal
<1> USE DEF TrialShape, Fields, Trial!disk, Trial!world
<1>1. CASE Trial!Change
  BY <1>1 DEF Trial!Change
<1>2. CASE Trial!Preflight \/ Trial!Census
  BY <1>2 DEF Trial!Preflight, Trial!Census
<1>3. CASE Trial!Parameters \/ Trial!Identity
  BY <1>3 DEF Trial!Parameters, Trial!Identity
<1>4. CASE Trial!LinkScored \/ Trial!StartServices
  BY <1>4 DEF Trial!LinkScored, Trial!StartServices
<1>5. CASE Trial!Raises
  BY <1>5 DEF Trial!Raises
<1>6. CASE Trial!Interrupted
  BY <1>6 DEF Trial!Interrupted
<1>7. CASE Trial!Estimator
  BY <1>7 DEF Trial!Estimator, Trial!RunCommand
<1>8. CASE Trial!CloseServices
  BY <1>8 DEF Trial!CloseServices, Trial!FinishManaged
<1>9. CASE Trial!Console
  BY <1>9
<1>10. CASE Trial!Outputs
  BY <1>10 DEF Trial!Outputs
<1>11. CASE Trial!CaptureCheck
  BY <1>11 DEF Trial!CaptureCheck
<1>12. CASE Trial!Postflight
  BY <1>12 DEF Trial!Postflight
<1>13. CASE Trial!FinishTrial
  BY <1>13 DEF Trial!FinishTrial, Trial!FinishManaged
<1>14. CASE Trial!Classify
  BY <1>14 DEF Trial!Classify
<1>15. CASE Trial!Publish \/ Trial!Seal
  BY <1>15 DEF Trial!Publish, Trial!Seal
<1>16. CASE Trial!Killed
  BY <1>16 DEF Trial!Killed
<1>17. CASE Trial!Validate
  BY <1>17 DEF Trial!Validate
<1> QED  BY <1>1, <1>2, <1>3, <1>4, <1>5, <1>6, <1>7, <1>8, <1>9, <1>10, <1>11, <1>12, <1>13, <1>14, <1>15, <1>16, <1>17 DEF Trial!Next

LEMMA WritesContract ==
  ASSUME TrialShape, Trial!Next
  PROVE  run'.contract => run.contract \/ Trial!Identity \/ Trial!LinkScored
<1> USE DEF TrialShape, Fields, Trial!disk, Trial!world
<1>1. CASE Trial!Change
  BY <1>1 DEF Trial!Change
<1>2. CASE Trial!Preflight \/ Trial!Census
  BY <1>2 DEF Trial!Preflight, Trial!Census
<1>3. CASE Trial!Parameters \/ Trial!Identity
  BY <1>3 DEF Trial!Parameters, Trial!Identity
<1>4. CASE Trial!LinkScored \/ Trial!StartServices
  BY <1>4 DEF Trial!LinkScored, Trial!StartServices
<1>5. CASE Trial!Raises
  BY <1>5 DEF Trial!Raises
<1>6. CASE Trial!Interrupted
  BY <1>6 DEF Trial!Interrupted
<1>7. CASE Trial!Estimator
  BY <1>7 DEF Trial!Estimator, Trial!RunCommand
<1>8. CASE Trial!CloseServices
  BY <1>8 DEF Trial!CloseServices, Trial!FinishManaged
<1>9. CASE Trial!Console
  BY <1>9 DEF Trial!Console
<1>10. CASE Trial!Outputs
  BY <1>10 DEF Trial!Outputs
<1>11. CASE Trial!CaptureCheck
  BY <1>11 DEF Trial!CaptureCheck
<1>12. CASE Trial!Postflight
  BY <1>12 DEF Trial!Postflight
<1>13. CASE Trial!FinishTrial
  BY <1>13 DEF Trial!FinishTrial, Trial!FinishManaged
<1>14. CASE Trial!Classify
  BY <1>14 DEF Trial!Classify, Trial!PairingContract
<1>15. CASE Trial!Publish \/ Trial!Seal
  BY <1>15 DEF Trial!Publish, Trial!Seal
<1>16. CASE Trial!Killed
  BY <1>16 DEF Trial!Killed
<1>17. CASE Trial!Validate
  BY <1>17 DEF Trial!Validate
<1> QED  BY <1>1, <1>2, <1>3, <1>4, <1>5, <1>6, <1>7, <1>8, <1>9, <1>10, <1>11, <1>12, <1>13, <1>14, <1>15, <1>16, <1>17 DEF Trial!Next

LEMMA WritesOutputs ==
  ASSUME TrialShape, Trial!Next
  PROVE  \/ Trial!Outputs
         \/ /\ run'.state = run.state /\ run'.outputs = run.outputs
            /\ run'.continuity = run.continuity /\ run'.tail = run.tail
<1> USE DEF TrialShape, Fields, Trial!disk, Trial!world
<1>1. CASE Trial!Change
  BY <1>1 DEF Trial!Change
<1>2. CASE Trial!Preflight \/ Trial!Census
  BY <1>2 DEF Trial!Preflight, Trial!Census
<1>3. CASE Trial!Parameters \/ Trial!Identity
  BY <1>3 DEF Trial!Parameters, Trial!Identity
<1>4. CASE Trial!LinkScored \/ Trial!StartServices
  BY <1>4 DEF Trial!LinkScored, Trial!StartServices
<1>5. CASE Trial!Raises
  BY <1>5 DEF Trial!Raises
<1>6. CASE Trial!Interrupted
  BY <1>6 DEF Trial!Interrupted
<1>7. CASE Trial!Estimator
  BY <1>7 DEF Trial!Estimator, Trial!RunCommand
<1>8. CASE Trial!CloseServices
  BY <1>8 DEF Trial!CloseServices, Trial!FinishManaged
<1>9. CASE Trial!Console
  BY <1>9 DEF Trial!Console
<1>10. CASE Trial!Outputs
  BY <1>10
<1>11. CASE Trial!CaptureCheck
  BY <1>11 DEF Trial!CaptureCheck
<1>12. CASE Trial!Postflight
  BY <1>12 DEF Trial!Postflight
<1>13. CASE Trial!FinishTrial
  BY <1>13 DEF Trial!FinishTrial, Trial!FinishManaged
<1>14. CASE Trial!Classify
  BY <1>14 DEF Trial!Classify
<1>15. CASE Trial!Publish \/ Trial!Seal
  BY <1>15 DEF Trial!Publish, Trial!Seal
<1>16. CASE Trial!Killed
  BY <1>16 DEF Trial!Killed
<1>17. CASE Trial!Validate
  BY <1>17 DEF Trial!Validate
<1> QED  BY <1>1, <1>2, <1>3, <1>4, <1>5, <1>6, <1>7, <1>8, <1>9, <1>10, <1>11, <1>12, <1>13, <1>14, <1>15, <1>16, <1>17 DEF Trial!Next

LEMMA WritesCapture ==
  ASSUME TrialShape, Trial!Next
  PROVE  stage = "capture" \/ (run'.captured = run.captured /\ run'.linked = run.linked)
<1> USE DEF TrialShape, Fields, Trial!disk, Trial!world
<1>1. CASE Trial!Change
  BY <1>1 DEF Trial!Change
<1>2. CASE Trial!Preflight \/ Trial!Census
  BY <1>2 DEF Trial!Preflight, Trial!Census
<1>3. CASE Trial!Parameters \/ Trial!Identity
  BY <1>3 DEF Trial!Parameters, Trial!Identity
<1>4. CASE Trial!LinkScored \/ Trial!StartServices
  BY <1>4 DEF Trial!LinkScored, Trial!StartServices
<1>5. CASE Trial!Raises
  BY <1>5 DEF Trial!Raises
<1>6. CASE Trial!Interrupted
  BY <1>6 DEF Trial!Interrupted
<1>7. CASE Trial!Estimator
  BY <1>7 DEF Trial!Estimator, Trial!RunCommand
<1>8. CASE Trial!CloseServices
  BY <1>8 DEF Trial!CloseServices, Trial!FinishManaged
<1>9. CASE Trial!Console
  BY <1>9 DEF Trial!Console
<1>10. CASE Trial!Outputs
  BY <1>10 DEF Trial!Outputs
<1>11. CASE Trial!CaptureCheck
  BY <1>11 DEF Trial!CaptureCheck
<1>12. CASE Trial!Postflight
  BY <1>12 DEF Trial!Postflight
<1>13. CASE Trial!FinishTrial
  BY <1>13 DEF Trial!FinishTrial, Trial!FinishManaged
<1>14. CASE Trial!Classify
  BY <1>14 DEF Trial!Classify
<1>15. CASE Trial!Publish \/ Trial!Seal
  BY <1>15 DEF Trial!Publish, Trial!Seal
<1>16. CASE Trial!Killed
  BY <1>16 DEF Trial!Killed
<1>17. CASE Trial!Validate
  BY <1>17 DEF Trial!Validate
<1> QED  BY <1>1, <1>2, <1>3, <1>4, <1>5, <1>6, <1>7, <1>8, <1>9, <1>10, <1>11, <1>12, <1>13, <1>14, <1>15, <1>16, <1>17 DEF Trial!Next

LEMMA WritesUnchanged ==
  ASSUME TrialShape, Trial!Next
  PROVE  stage = "postflight" \/ run'.unchanged = run.unchanged
<1> USE DEF TrialShape, Fields, Trial!disk, Trial!world
<1>1. CASE Trial!Change
  BY <1>1 DEF Trial!Change
<1>2. CASE Trial!Preflight \/ Trial!Census
  BY <1>2 DEF Trial!Preflight, Trial!Census
<1>3. CASE Trial!Parameters \/ Trial!Identity
  BY <1>3 DEF Trial!Parameters, Trial!Identity
<1>4. CASE Trial!LinkScored \/ Trial!StartServices
  BY <1>4 DEF Trial!LinkScored, Trial!StartServices
<1>5. CASE Trial!Raises
  BY <1>5 DEF Trial!Raises
<1>6. CASE Trial!Interrupted
  BY <1>6 DEF Trial!Interrupted
<1>7. CASE Trial!Estimator
  BY <1>7 DEF Trial!Estimator, Trial!RunCommand
<1>8. CASE Trial!CloseServices
  BY <1>8 DEF Trial!CloseServices, Trial!FinishManaged
<1>9. CASE Trial!Console
  BY <1>9 DEF Trial!Console
<1>10. CASE Trial!Outputs
  BY <1>10 DEF Trial!Outputs
<1>11. CASE Trial!CaptureCheck
  BY <1>11 DEF Trial!CaptureCheck
<1>12. CASE Trial!Postflight
  BY <1>12 DEF Trial!Postflight
<1>13. CASE Trial!FinishTrial
  BY <1>13 DEF Trial!FinishTrial, Trial!FinishManaged
<1>14. CASE Trial!Classify
  BY <1>14 DEF Trial!Classify
<1>15. CASE Trial!Publish \/ Trial!Seal
  BY <1>15 DEF Trial!Publish, Trial!Seal
<1>16. CASE Trial!Killed
  BY <1>16 DEF Trial!Killed
<1>17. CASE Trial!Validate
  BY <1>17 DEF Trial!Validate
<1> QED  BY <1>1, <1>2, <1>3, <1>4, <1>5, <1>6, <1>7, <1>8, <1>9, <1>10, <1>11, <1>12, <1>13, <1>14, <1>15, <1>16, <1>17 DEF Trial!Next

LEMMA WritesBefore ==
  ASSUME TrialShape, Trial!Next
  PROVE  \/ Trial!Preflight \/ Trial!Census
         \/ run'.before = run.before
<1> USE DEF TrialShape, Fields, Trial!disk, Trial!world
<1>1. CASE Trial!Change
  BY <1>1 DEF Trial!Change
<1>2. CASE Trial!Preflight \/ Trial!Census
  BY <1>2
<1>3. CASE Trial!Parameters \/ Trial!Identity
  BY <1>3 DEF Trial!Parameters, Trial!Identity
<1>4. CASE Trial!LinkScored \/ Trial!StartServices
  BY <1>4 DEF Trial!LinkScored, Trial!StartServices
<1>5. CASE Trial!Raises
  BY <1>5 DEF Trial!Raises
<1>6. CASE Trial!Interrupted
  BY <1>6 DEF Trial!Interrupted
<1>7. CASE Trial!Estimator
  BY <1>7 DEF Trial!Estimator, Trial!RunCommand
<1>8. CASE Trial!CloseServices
  BY <1>8 DEF Trial!CloseServices, Trial!FinishManaged
<1>9. CASE Trial!Console
  BY <1>9 DEF Trial!Console
<1>10. CASE Trial!Outputs
  BY <1>10 DEF Trial!Outputs
<1>11. CASE Trial!CaptureCheck
  BY <1>11 DEF Trial!CaptureCheck
<1>12. CASE Trial!Postflight
  BY <1>12 DEF Trial!Postflight
<1>13. CASE Trial!FinishTrial
  BY <1>13 DEF Trial!FinishTrial, Trial!FinishManaged
<1>14. CASE Trial!Classify
  BY <1>14 DEF Trial!Classify
<1>15. CASE Trial!Publish \/ Trial!Seal
  BY <1>15 DEF Trial!Publish, Trial!Seal
<1>16. CASE Trial!Killed
  BY <1>16 DEF Trial!Killed
<1>17. CASE Trial!Validate
  BY <1>17 DEF Trial!Validate
<1> QED  BY <1>1, <1>2, <1>3, <1>4, <1>5, <1>6, <1>7, <1>8, <1>9, <1>10, <1>11, <1>12, <1>13, <1>14, <1>15, <1>16, <1>17 DEF Trial!Next

LEMMA TrialOrderStep ==
  ASSUME TrialShape, TrialOrder, Trial!Next
  PROVE  TrialOrder'
<1>r. (Trial!Capture' <=> Trial!Capture)
  BY TrialFixed, RequestOps
<1>u. stage = "postflight" \/ run'.unchanged = run.unchanged
  BY WritesUnchanged
<1>c. stage = "capture" \/ (run'.captured = run.captured /\ run'.linked = run.linked)
  BY WritesCapture
<1> USE DEF TrialOrder, TrialShape, Trial!disk, Trial!world, Postponed, Compares, Reads, Listens, Closes, Linked, Known, Counted
<1>1. CASE Trial!Change
  BY <1>1, <1>r, <1>u, <1>c DEF Trial!Change
<1>2. CASE Trial!Preflight \/ Trial!Census
  BY <1>2, <1>r, <1>u, <1>c DEF Trial!Preflight, Trial!Census
<1>3. CASE Trial!Parameters \/ Trial!Identity
  BY <1>3, <1>r, <1>u, <1>c DEF Trial!Parameters, Trial!Identity
<1>4. CASE Trial!LinkScored \/ Trial!StartServices
  BY <1>4, <1>r, <1>u, <1>c DEF Trial!LinkScored, Trial!StartServices
<1>5. CASE Trial!Raises
  BY <1>5, <1>r, <1>u, <1>c DEF Trial!Raises
<1>6. CASE Trial!Interrupted
  BY <1>6, <1>r, <1>u, <1>c DEF Trial!Interrupted
<1>7. CASE Trial!Estimator
  BY <1>7, <1>r, <1>u, <1>c DEF Trial!Estimator
<1>8. CASE Trial!CloseServices
  <2>1. stage = "close" /\ stage' = "console" /\ UNCHANGED <<result, verdict>>
    BY <1>8 DEF Trial!CloseServices, Trial!FinishManaged
  <2>2. run'.unchanged = run.unchanged /\ run'.captured = run.captured /\ run'.linked = run.linked
    BY <1>8, <2>1, <1>u, <1>c
  <2> QED  BY <2>1, <2>2, <1>r
<1>9. CASE Trial!Console
  BY <1>9, <1>r, <1>u, <1>c DEF Trial!Console
<1>10. CASE Trial!Outputs
  BY <1>10, <1>r, <1>u, <1>c DEF Trial!Outputs
<1>11. CASE Trial!CaptureCheck
  <2>1. stage = "capture" /\ stage' = "postflight" /\ UNCHANGED <<result, verdict>>
    BY <1>11 DEF Trial!CaptureCheck
  <2>2. run'.unchanged = run.unchanged
    BY <2>1, <1>u
  <2>3. Trial!Capture
    BY <2>1
  <2> QED  BY <2>1, <2>2, <2>3, <1>r
<1>12. CASE Trial!Postflight
  BY <1>12, <1>r, <1>u, <1>c DEF Trial!Postflight
<1>13. CASE Trial!FinishTrial
  BY <1>13, <1>r, <1>u, <1>c DEF Trial!FinishTrial, Trial!FinishManaged
<1>14. CASE Trial!Classify
  BY <1>14, <1>r, <1>u, <1>c DEF Trial!Classify
<1>15. CASE Trial!Publish \/ Trial!Seal
  BY <1>15, <1>r, <1>u, <1>c DEF Trial!Publish, Trial!Seal
<1>16. CASE Trial!Killed
  BY <1>16, <1>r, <1>u, <1>c DEF Trial!Killed
<1>17. CASE Trial!Validate
  BY <1>17, <1>r, <1>u, <1>c DEF Trial!Validate
<1> QED  BY <1>1, <1>2, <1>3, <1>4, <1>5, <1>6, <1>7, <1>8, <1>9, <1>10, <1>11, <1>12, <1>13, <1>14, <1>15, <1>16, <1>17 DEF Trial!Next

LEMMA InputsPinnedStep ==
  ASSUME TrialShape, TrialOrder, InputsPinned, Trial!Next
  PROVE  InputsPinned'
<1>0. req' = req /\ (Trial!Capture' <=> Trial!Capture)
  BY TrialFixed, RequestOps
<1> USE DEF TrialShape, Trial!Works, Trial!Fails, Trial!world, Trial!disk, Postponed, Compares, Reads, Listens, Closes, Linked, Known, Counted, Fields, TrialOrder, InputsPinned, Trial!Inputs
<1>1. CASE Trial!Change
  BY <1>1, <1>0 DEF Trial!Change
<1>2. CASE Trial!Preflight \/ Trial!Census
  BY <1>2, <1>0 DEF Trial!Preflight, Trial!Census, Trial!CanonicalPaths, Trial!CampaignBindings, Trial!MatrixBag
<1>3. CASE Trial!Parameters \/ Trial!Identity
  BY <1>3, <1>0 DEF Trial!Parameters, Trial!Identity, Trial!RuntimeIdentity
<1>4. CASE Trial!LinkScored \/ Trial!StartServices
  <2>1. CASE Trial!LinkScored
    <3>1. /\ stage = "linkage" /\ stage' = "services" /\ run'.before = run.before /\ run'.unchanged = run.unchanged
          /\ UNCHANGED <<inputs, truth>>
      BY <2>1 DEF Trial!LinkScored
    <3>2. run'.link["before"] = 0
      BY <2>1 DEF Trial!LinkScored
    <3> QED  BY <1>0, <3>1, <3>2
  <2>2. CASE Trial!StartServices
    <3>1. /\ stage = "services" /\ stage' = "estimator" /\ run'.before = run.before /\ run'.unchanged = run.unchanged
          /\ run'.link = run.link /\ UNCHANGED <<inputs, truth>>
      BY <2>2 DEF Trial!StartServices
    <3> QED  BY <1>0, <3>1
  <2> QED  BY <1>4, <2>1, <2>2
<1>5. CASE Trial!Raises
  BY <1>5, <1>0 DEF Trial!Raises
<1>6. CASE Trial!Interrupted
  BY <1>6, <1>0 DEF Trial!Interrupted
<1>7. CASE Trial!Estimator
  <2>1. PICK d \in Trial!DefectSets : /\ Trial!Possible(d) /\ Trial!RunCommand(d)
                                       /\ truth' = [ran |-> TRUE, on |-> inputs, defects |-> d]
    BY <1>7 DEF Trial!Estimator
  <2>2. stage = "estimator" /\ stage' = "close" /\ UNCHANGED <<req, inputs, scored, result, sums, verdict>>
    BY <1>7 DEF Trial!Estimator
  <2>3. run'.unchanged = run.unchanged /\ run'.before = run.before /\ run'.link = run.link
    BY <2>1 DEF Trial!RunCommand
  <2>4. truth'.on = inputs
    BY <2>1
  <2> QED  BY <1>0, <2>2, <2>3, <2>4
<1>8. CASE Trial!CloseServices
  BY <1>8, <1>0 DEF Trial!CloseServices, Trial!FinishManaged
<1>9. CASE Trial!Console
  BY <1>9, <1>0 DEF Trial!Console
<1>10. CASE Trial!Outputs
  BY <1>10, <1>0 DEF Trial!Outputs
<1>11. CASE Trial!CaptureCheck
  BY <1>11, <1>0 DEF Trial!CaptureCheck
<1>12. CASE Trial!Postflight
  BY <1>12, <1>0 DEF Trial!Postflight, Trial!Pinned
<1>13. CASE Trial!FinishTrial
  BY <1>13, <1>0 DEF Trial!FinishTrial, Trial!FinishManaged
<1>14. CASE Trial!Classify
  BY <1>14, <1>0 DEF Trial!Classify
<1>15. CASE Trial!Publish \/ Trial!Seal
  BY <1>15, <1>0 DEF Trial!Publish, Trial!Seal
<1>16. CASE Trial!Killed
  BY <1>16, <1>0 DEF Trial!Killed
<1>17. CASE Trial!Validate
  BY <1>17, <1>0 DEF Trial!Validate
<1> QED  BY <1>1, <1>2, <1>3, <1>4, <1>5, <1>6, <1>7, <1>8, <1>9, <1>10, <1>11, <1>12, <1>13, <1>14, <1>15, <1>16, <1>17 DEF Trial!Next

\* The operation that brings the trial to the stages behind it.
LEMMA ReachesClose ==
  ASSUME TrialShape, TrialOrder, Trial!Next
  PROVE  Behind(Closes)' => Trial!Estimator \/ (Behind(Closes) /\ truth' = truth /\ ~Trial!Interrupted)
<1>u. stage = "postflight" \/ run'.unchanged = run.unchanged
  BY WritesUnchanged
<1>s. Trial!Interrupted => ~Behind(Closes)'
  <2> SUFFICES ASSUME Trial!Interrupted PROVE ~Behind(Closes)'
    OBVIOUS
  <2>1. stage' = "finish" /\ stage \notin Postponed /\ run'.unchanged = run.unchanged
    BY DEF Trial!Interrupted, Postponed, TrialShape, Fields
  <2> QED  BY <2>1 DEF Behind, TrialOrder, Closes, Listens, Reads, Compares
<1> USE DEF Behind, TrialOrder, TrialShape, Trial!disk, Trial!world, Postponed, Compares, Reads, Listens, Closes, Linked, Known, Counted
<1>1. CASE Trial!Change
  BY <1>1, <1>u, <1>s DEF Trial!Change
<1>2. CASE Trial!Preflight \/ Trial!Census
  BY <1>2, <1>u, <1>s DEF Trial!Preflight, Trial!Census
<1>3. CASE Trial!Parameters \/ Trial!Identity
  BY <1>3, <1>u, <1>s DEF Trial!Parameters, Trial!Identity
<1>4. CASE Trial!LinkScored \/ Trial!StartServices
  BY <1>4, <1>u, <1>s DEF Trial!LinkScored, Trial!StartServices
<1>5. CASE Trial!Raises
  BY <1>5, <1>u, <1>s DEF Trial!Raises
<1>6. CASE Trial!Interrupted
  BY <1>6, <1>u, <1>s DEF Trial!Interrupted
<1>7. CASE Trial!Estimator
  BY <1>7
<1>8. CASE Trial!CloseServices
  BY <1>8, <1>u, <1>s DEF Trial!CloseServices, Trial!FinishManaged
<1>9. CASE Trial!Console
  BY <1>9, <1>u, <1>s DEF Trial!Console
<1>10. CASE Trial!Outputs
  BY <1>10, <1>u, <1>s DEF Trial!Outputs
<1>11. CASE Trial!CaptureCheck
  BY <1>11, <1>u, <1>s DEF Trial!CaptureCheck
<1>12. CASE Trial!Postflight
  BY <1>12, <1>u, <1>s DEF Trial!Postflight
<1>13. CASE Trial!FinishTrial
  BY <1>13, <1>u, <1>s DEF Trial!FinishTrial, Trial!FinishManaged
<1>14. CASE Trial!Classify
  BY <1>14, <1>u, <1>s DEF Trial!Classify
<1>15. CASE Trial!Publish \/ Trial!Seal
  BY <1>15, <1>u, <1>s DEF Trial!Publish, Trial!Seal
<1>16. CASE Trial!Killed
  BY <1>16, <1>u, <1>s DEF Trial!Killed
<1>17. CASE Trial!Validate
  BY <1>17, <1>u, <1>s DEF Trial!Validate
<1> QED  BY <1>1, <1>2, <1>3, <1>4, <1>5, <1>6, <1>7, <1>8, <1>9, <1>10, <1>11, <1>12, <1>13, <1>14, <1>15, <1>16, <1>17 DEF Trial!Next

LEMMA ReachesRead ==
  ASSUME TrialShape, TrialOrder, Trial!Next
  PROVE  Behind(Reads)' => Trial!Console \/ (Behind(Reads) /\ truth' = truth)
<1>u. stage = "postflight" \/ run'.unchanged = run.unchanged
  BY WritesUnchanged
<1> USE DEF Behind, TrialOrder, TrialShape, Trial!disk, Trial!world, Postponed, Compares, Reads, Listens, Closes, Linked, Known, Counted
<1>1. CASE Trial!Change
  BY <1>1, <1>u DEF Trial!Change
<1>2. CASE Trial!Preflight \/ Trial!Census
  BY <1>2, <1>u DEF Trial!Preflight, Trial!Census
<1>3. CASE Trial!Parameters \/ Trial!Identity
  BY <1>3, <1>u DEF Trial!Parameters, Trial!Identity
<1>4. CASE Trial!LinkScored \/ Trial!StartServices
  BY <1>4, <1>u DEF Trial!LinkScored, Trial!StartServices
<1>5. CASE Trial!Raises
  BY <1>5, <1>u DEF Trial!Raises
<1>6. CASE Trial!Interrupted
  BY <1>6, <1>u DEF Trial!Interrupted
<1>7. CASE Trial!Estimator
  BY <1>7, <1>u DEF Trial!Estimator
<1>8. CASE Trial!CloseServices
  BY <1>8, <1>u DEF Trial!CloseServices, Trial!FinishManaged
<1>9. CASE Trial!Console
  BY <1>9
<1>10. CASE Trial!Outputs
  BY <1>10, <1>u DEF Trial!Outputs
<1>11. CASE Trial!CaptureCheck
  BY <1>11, <1>u DEF Trial!CaptureCheck
<1>12. CASE Trial!Postflight
  BY <1>12, <1>u DEF Trial!Postflight
<1>13. CASE Trial!FinishTrial
  BY <1>13, <1>u DEF Trial!FinishTrial, Trial!FinishManaged
<1>14. CASE Trial!Classify
  BY <1>14, <1>u DEF Trial!Classify
<1>15. CASE Trial!Publish \/ Trial!Seal
  BY <1>15, <1>u DEF Trial!Publish, Trial!Seal
<1>16. CASE Trial!Killed
  BY <1>16, <1>u DEF Trial!Killed
<1>17. CASE Trial!Validate
  BY <1>17, <1>u DEF Trial!Validate
<1> QED  BY <1>1, <1>2, <1>3, <1>4, <1>5, <1>6, <1>7, <1>8, <1>9, <1>10, <1>11, <1>12, <1>13, <1>14, <1>15, <1>16, <1>17 DEF Trial!Next

LEMMA ReachesCompare ==
  ASSUME TrialShape, TrialOrder, Trial!Next
  PROVE  Behind(Compares)' => Trial!Outputs \/ (Behind(Compares) /\ truth' = truth)
<1>u. stage = "postflight" \/ run'.unchanged = run.unchanged
  BY WritesUnchanged
<1> USE DEF Behind, TrialOrder, TrialShape, Trial!disk, Trial!world, Postponed, Compares, Reads, Listens, Closes, Linked, Known, Counted
<1>1. CASE Trial!Change
  BY <1>1, <1>u DEF Trial!Change
<1>2. CASE Trial!Preflight \/ Trial!Census
  BY <1>2, <1>u DEF Trial!Preflight, Trial!Census
<1>3. CASE Trial!Parameters \/ Trial!Identity
  BY <1>3, <1>u DEF Trial!Parameters, Trial!Identity
<1>4. CASE Trial!LinkScored \/ Trial!StartServices
  BY <1>4, <1>u DEF Trial!LinkScored, Trial!StartServices
<1>5. CASE Trial!Raises
  BY <1>5, <1>u DEF Trial!Raises
<1>6. CASE Trial!Interrupted
  BY <1>6, <1>u DEF Trial!Interrupted
<1>7. CASE Trial!Estimator
  BY <1>7, <1>u DEF Trial!Estimator
<1>8. CASE Trial!CloseServices
  BY <1>8, <1>u DEF Trial!CloseServices, Trial!FinishManaged
<1>9. CASE Trial!Console
  BY <1>9, <1>u DEF Trial!Console
<1>10. CASE Trial!Outputs
  BY <1>10
<1>11. CASE Trial!CaptureCheck
  BY <1>11, <1>u DEF Trial!CaptureCheck
<1>12. CASE Trial!Postflight
  BY <1>12, <1>u DEF Trial!Postflight
<1>13. CASE Trial!FinishTrial
  BY <1>13, <1>u DEF Trial!FinishTrial, Trial!FinishManaged
<1>14. CASE Trial!Classify
  BY <1>14, <1>u DEF Trial!Classify
<1>15. CASE Trial!Publish \/ Trial!Seal
  BY <1>15, <1>u DEF Trial!Publish, Trial!Seal
<1>16. CASE Trial!Killed
  BY <1>16, <1>u DEF Trial!Killed
<1>17. CASE Trial!Validate
  BY <1>17, <1>u DEF Trial!Validate
<1> QED  BY <1>1, <1>2, <1>3, <1>4, <1>5, <1>6, <1>7, <1>8, <1>9, <1>10, <1>11, <1>12, <1>13, <1>14, <1>15, <1>16, <1>17 DEF Trial!Next

LEMMA ReachesPostflight ==
  ASSUME TrialShape, TrialOrder, Trial!Next
  PROVE  Trial!Capture /\ Behind({"postflight"})' => Trial!CaptureCheck \/ (Behind({"postflight"}) /\ truth' = truth)
<1>u. stage = "postflight" \/ run'.unchanged = run.unchanged
  BY WritesUnchanged
<1> USE DEF Behind, TrialOrder, TrialShape, Trial!disk, Trial!world, Postponed, Compares, Reads, Listens, Closes, Linked, Known, Counted
<1>1. CASE Trial!Change
  BY <1>1, <1>u DEF Trial!Change
<1>2. CASE Trial!Preflight \/ Trial!Census
  BY <1>2, <1>u DEF Trial!Preflight, Trial!Census
<1>3. CASE Trial!Parameters \/ Trial!Identity
  BY <1>3, <1>u DEF Trial!Parameters, Trial!Identity
<1>4. CASE Trial!LinkScored \/ Trial!StartServices
  BY <1>4, <1>u DEF Trial!LinkScored, Trial!StartServices
<1>5. CASE Trial!Raises
  BY <1>5, <1>u DEF Trial!Raises
<1>6. CASE Trial!Interrupted
  BY <1>6, <1>u DEF Trial!Interrupted
<1>7. CASE Trial!Estimator
  BY <1>7, <1>u DEF Trial!Estimator
<1>8. CASE Trial!CloseServices
  BY <1>8, <1>u DEF Trial!CloseServices, Trial!FinishManaged
<1>9. CASE Trial!Console
  BY <1>9, <1>u DEF Trial!Console
<1>10. CASE Trial!Outputs
  BY <1>10, <1>u DEF Trial!Outputs
<1>11. CASE Trial!CaptureCheck
  BY <1>11
<1>12. CASE Trial!Postflight
  BY <1>12, <1>u DEF Trial!Postflight
<1>13. CASE Trial!FinishTrial
  BY <1>13, <1>u DEF Trial!FinishTrial, Trial!FinishManaged
<1>14. CASE Trial!Classify
  BY <1>14, <1>u DEF Trial!Classify
<1>15. CASE Trial!Publish \/ Trial!Seal
  BY <1>15, <1>u DEF Trial!Publish, Trial!Seal
<1>16. CASE Trial!Killed
  BY <1>16, <1>u DEF Trial!Killed
<1>17. CASE Trial!Validate
  BY <1>17, <1>u DEF Trial!Validate
<1> QED  BY <1>1, <1>2, <1>3, <1>4, <1>5, <1>6, <1>7, <1>8, <1>9, <1>10, <1>11, <1>12, <1>13, <1>14, <1>15, <1>16, <1>17 DEF Trial!Next

LEMMA LaunchToldStep ==
  ASSUME TrialShape, TrialOrder, LaunchTold, Trial!Next
  PROVE  LaunchTold'
<1> SUFFICES ASSUME Behind(Closes)'
             PROVE  /\ truth'.ran /\ truth'.defects \subseteq Trial!Defects /\ Trial!Possible(truth.defects)'
                    /\ run'.launch \in {"timedOut", "ended", "interrupted"}
                    /\ run'.launch = "timedOut" => "hang" \in truth'.defects
                    /\ run'.launch = "ended" => "hang" \notin truth'.defects
                    /\ run'.survived <=> "stuck" \in truth'.defects
  BY DEF LaunchTold, Trial!Had
<1>0. req' = req
  BY TrialFixed
<1>1. CASE Trial!Estimator
  <2>1. PICK d \in Trial!DefectSets : /\ Trial!Possible(d) /\ Trial!RunCommand(d)
                                       /\ truth' = [ran |-> TRUE, on |-> inputs, defects |-> d]
    BY <1>1 DEF Trial!Estimator
  <2>3. truth'.ran /\ truth'.defects = d
    BY <2>1
  <2>4. d \subseteq Trial!Defects
    BY DEF Trial!DefectSets
  <2>5. Trial!Possible(truth.defects)'
    BY <1>0, <2>1, <2>3 DEF Trial!Possible, Trial!KaistS1, Trial!Kaist, Trial!Capture
  <2>6. /\ run'.launch \in {"timedOut", "ended", "interrupted"}
        /\ run'.launch = "timedOut" => "hang" \in d
        /\ run'.launch = "ended" => "hang" \notin d
        /\ run'.survived <=> "stuck" \in d
    BY <2>1 DEF Trial!RunCommand, TrialShape, Fields
  <2> QED  BY <2>3, <2>4, <2>5, <2>6
<1>2. CASE ~Trial!Estimator
  <2>1. Behind(Closes) /\ truth' = truth /\ ~Trial!Interrupted
    BY <1>2, ReachesClose
  <2>2. run'.launch = run.launch /\ run'.survived = run.survived
    BY <1>2, <2>1, WritesLaunch
  <2>3. Trial!Possible(truth.defects)' <=> Trial!Possible(truth.defects)
    BY <1>0, <2>1, TruthOps
  <2> QED  BY <2>1, <2>2, <2>3 DEF LaunchTold, Trial!Had
<1> QED  BY <1>1, <1>2

LEMMA ConsoleToldStep ==
  ASSUME TrialShape, TrialOrder, ConsoleTold, Trial!Next
  PROVE  ConsoleTold'
<1> SUFFICES ASSUME Behind(Reads)'
             PROVE  /\ run'.contract => ~Trial!Had("unstarted")' /\ Trial!RecoveryOff' /\ Trial!PairingHolds'
                    /\ run'.mechanism <=> Trial!Mechanism'
                    /\ run'.numeric <=> ~Trial!Had("nonfinite")'
                    /\ run'.decoded <=> ~Trial!Had("decode")'
                    /\ run'.exits = Trial!ChildExits' /\ run'.child = Trial!Child'
                    /\ run'.terminal <=> Trial!KaistS1' /\ Trial!Terminal'
  BY DEF ConsoleTold
<1>0. req' = req /\ (Trial!KaistS1' <=> Trial!KaistS1)
  BY TrialFixed, RequestOps
<1>1. truth' = truth
  BY ReachesRead DEF Trial!Console
<1>2. /\ Trial!RecoveryOff' <=> Trial!RecoveryOff
      /\ Trial!Mechanism' <=> Trial!Mechanism
      /\ Trial!PairingHolds' <=> Trial!PairingHolds
      /\ Trial!Terminal' <=> Trial!Terminal
      /\ Trial!ChildExits' = Trial!ChildExits
      /\ Trial!Child' = Trial!Child
  BY <1>0, <1>1, TruthOps
<1>3. \A x : Trial!Had(x)' <=> Trial!Had(x)
  BY <1>1 DEF Trial!Had
<1>4. CASE Trial!Console
  <2>1. /\ run'.contract => ~Trial!Had("unstarted") /\ Trial!RecoveryOff /\ Trial!PairingHolds
        /\ run'.mechanism = Trial!Mechanism
        /\ run'.numeric = ~Trial!Had("nonfinite")
        /\ run'.decoded = ~Trial!Had("decode")
        /\ run'.exits = Trial!ChildExits /\ run'.child = Trial!Child
        /\ run'.terminal = (Trial!KaistS1 /\ Trial!Terminal)
    BY <1>4 DEF Trial!Console, TrialShape, Fields
  <2> QED  BY <1>0, <1>2, <1>3, <2>1
<1>5. CASE ~Trial!Console
  <2>1. Behind(Reads)
    BY <1>5, ReachesRead
  <2>2. ~Trial!Identity /\ ~Trial!LinkScored
    BY <2>1 DEF Behind, Reads, Compares, TrialOrder, Postponed, Trial!Identity, Trial!LinkScored
  <2>3. run'.contract => run.contract
    BY <2>2, WritesContract
  <2>4. /\ run'.mechanism = run.mechanism /\ run'.numeric = run.numeric /\ run'.decoded = run.decoded
        /\ run'.exits = run.exits /\ run'.child = run.child /\ run'.terminal = run.terminal
    BY <1>5, WritesConsole
  <2> QED  BY <1>0, <1>2, <1>3, <2>1, <2>3, <2>4 DEF ConsoleTold
<1> QED  BY <1>4, <1>5

LEMMA OutputsToldStep ==
  ASSUME TrialShape, TrialOrder, OutputsTold, Trial!Next
  PROVE  OutputsTold'
<1> SUFFICES ASSUME Behind(Compares)'
             PROVE  /\ run'.state = Trial!StateKind'
                    /\ run'.outputs <=> Trial!StateKind' = "valid" /\ ~Trial!Had("tables")'
                    /\ run'.continuity <=> Trial!Continuity' /\ Trial!RecoveredGap(run)'
                    /\ run'.tail <=> Trial!Tail'
  BY DEF OutputsTold
<1>0. req' = req
  BY TrialFixed
<1>1. truth' = truth
  BY ReachesCompare DEF Trial!Outputs
<1>2. /\ Trial!StateKind' = Trial!StateKind
      /\ Trial!Continuity' <=> Trial!Continuity
      /\ Trial!Tail' <=> Trial!Tail
  BY <1>0, <1>1, TruthOps
<1>3. \A x : Trial!Had(x)' <=> Trial!Had(x)
  BY <1>1 DEF Trial!Had
<1>4. CASE Trial!Outputs
  <2>1. /\ run'.state = Trial!StateKind
        /\ run'.outputs = (Trial!StateKind = "valid" /\ ~Trial!Had("tables"))
        /\ run'.continuity = (Trial!Continuity /\ Trial!RecoveredGap(run))
        /\ run'.tail = Trial!Tail /\ run'.mechanism = run.mechanism
    BY <1>4 DEF Trial!Outputs, TrialShape, Fields
  <2>2. Trial!RecoveredGap(run)' <=> Trial!RecoveredGap(run)
    BY <1>0, <2>1 DEF Trial!RecoveredGap, Trial!KaistS1, Trial!Kaist
  <2> QED  BY <1>2, <1>3, <2>1, <2>2
<1>5. CASE ~Trial!Outputs
  <2>1. Behind(Compares)
    BY <1>5, ReachesCompare
  <2>2. ~Trial!Console
    BY <2>1 DEF Behind, Compares, TrialOrder, Postponed, Trial!Console
  <2>3. /\ run'.state = run.state /\ run'.outputs = run.outputs
        /\ run'.continuity = run.continuity /\ run'.tail = run.tail
    BY <1>5, WritesOutputs
  <2>4. run'.mechanism = run.mechanism
    BY <2>2, WritesConsole
  <2>5. Trial!RecoveredGap(run)' <=> Trial!RecoveredGap(run)
    BY <1>0, <2>4 DEF Trial!RecoveredGap
  <2> QED  BY <1>2, <1>3, <2>1, <2>3, <2>5 DEF OutputsTold
<1> QED  BY <1>4, <1>5

LEMMA CaptureToldStep ==
  ASSUME TrialShape, TrialOrder, CaptureTold, Trial!Next
  PROVE  CaptureTold'
<1>0. Trial!Capture' <=> Trial!Capture
  BY TrialFixed, RequestOps
<1> SUFFICES ASSUME Behind({"postflight"})', Trial!Capture
             PROVE  /\ run'.captured <=> ~Trial!Had("active")'
                    /\ run'.linked => ~Trial!Had("differs")'
  BY <1>0 DEF CaptureTold
<1>1. truth' = truth
  BY ReachesPostflight DEF Trial!CaptureCheck
<1>3. \A x : Trial!Had(x)' <=> Trial!Had(x)
  BY <1>1 DEF Trial!Had
<1>4. CASE Trial!CaptureCheck
  <2>1. /\ run'.captured = ~Trial!Had("active")
        /\ run'.linked => (scored = IF Trial!Had("differs") THEN 2 ELSE 0)
    BY <1>4 DEF Trial!CaptureCheck, TrialShape, Fields
  <2>2. scored # 2
    BY DEF TrialShape
  <2> QED  BY <1>3, <2>1, <2>2
<1>5. CASE ~Trial!CaptureCheck
  <2>1. Behind({"postflight"})
    BY <1>5, ReachesPostflight
  <2>2. stage # "capture"
    BY <2>1 DEF Behind, TrialOrder, Postponed
  <2>3. run'.captured = run.captured /\ run'.linked = run.linked
    BY <2>2, WritesCapture
  <2> QED  BY <1>3, <2>1, <2>3 DEF CaptureTold
<1> QED  BY <1>4, <1>5

\* The classification looks at these facts only.
LEMMA OutcomeOfFacts ==
  ASSUME NEW r, NEW s, r.launch = s.launch, r.survived = s.survived, r.teardown = s.teardown, r.contract = s.contract,
         r.numeric = s.numeric, r.decoded = s.decoded, r.state = s.state, r.outputs = s.outputs,
         r.continuity = s.continuity, r.tail = s.tail, r.exits = s.exits, r.child = s.child,
         r.captured = s.captured, r.linked = s.linked, r.unchanged = s.unchanged
  PROVE  /\ Trial!ClassifyOutcome(r) = Trial!ClassifyOutcome(s)
         /\ Trial!EvidenceValidity(r) = Trial!EvidenceValidity(s)
<1>1. /\ Trial!Abnormal(r) <=> Trial!Abnormal(s)
      /\ Trial!TeardownOk(r) <=> Trial!TeardownOk(s)
      /\ Trial!ExactU0Teardown(r) <=> Trial!ExactU0Teardown(s)
  BY DEF Trial!Abnormal, Trial!TeardownOk, Trial!ExactU0Teardown
<1>2. Trial!ClassifyOutcome(r) = Trial!ClassifyOutcome(s)
  BY <1>1 DEF Trial!ClassifyOutcome
<1>3. Trial!EvidenceValidity(r) = Trial!EvidenceValidity(s)
  BY <1>1 DEF Trial!EvidenceValidity
<1> QED  BY <1>2, <1>3

LEMMA ReachesPublish ==
  ASSUME TrialShape, TrialOrder, Trial!Next
  PROVE  stage' \in {"publish", "seal"} \/ result' # Trial!NoRun =>
           Trial!Classify \/ (run' = run /\ (stage \in {"publish", "seal"} \/ result # Trial!NoRun))
<1> USE DEF TrialOrder, TrialShape, Trial!disk, Trial!world, Postponed, Compares, Reads, Listens, Closes, Linked, Known, Counted
<1>1. CASE Trial!Change
  BY <1>1 DEF Trial!Change
<1>2. CASE Trial!Preflight \/ Trial!Census
  BY <1>2 DEF Trial!Preflight, Trial!Census
<1>3. CASE Trial!Parameters \/ Trial!Identity
  BY <1>3 DEF Trial!Parameters, Trial!Identity
<1>4. CASE Trial!LinkScored \/ Trial!StartServices
  BY <1>4 DEF Trial!LinkScored, Trial!StartServices
<1>5. CASE Trial!Raises
  BY <1>5 DEF Trial!Raises
<1>6. CASE Trial!Interrupted
  BY <1>6 DEF Trial!Interrupted
<1>7. CASE Trial!Estimator
  BY <1>7 DEF Trial!Estimator
<1>8. CASE Trial!CloseServices
  BY <1>8 DEF Trial!CloseServices, Trial!FinishManaged
<1>9. CASE Trial!Console
  BY <1>9 DEF Trial!Console
<1>10. CASE Trial!Outputs
  BY <1>10 DEF Trial!Outputs
<1>11. CASE Trial!CaptureCheck
  BY <1>11 DEF Trial!CaptureCheck
<1>12. CASE Trial!Postflight
  BY <1>12 DEF Trial!Postflight
<1>13. CASE Trial!FinishTrial
  BY <1>13 DEF Trial!FinishTrial, Trial!FinishManaged
<1>14. CASE Trial!Classify
  BY <1>14
<1>15. CASE Trial!Publish \/ Trial!Seal
  BY <1>15 DEF Trial!Publish, Trial!Seal
<1>16. CASE Trial!Killed
  BY <1>16 DEF Trial!Killed
<1>17. CASE Trial!Validate
  BY <1>17 DEF Trial!Validate
<1> QED  BY <1>1, <1>2, <1>3, <1>4, <1>5, <1>6, <1>7, <1>8, <1>9, <1>10, <1>11, <1>12, <1>13, <1>14, <1>15, <1>16, <1>17 DEF Trial!Next

LEMMA ClassifiedStep ==
  ASSUME TrialShape, TrialOrder, Classified, Trial!Next
  PROVE  Classified'
<1> SUFFICES ASSUME stage' \in {"publish", "seal"} \/ result' # Trial!NoRun
             PROVE  run'.status = Trial!ClassifyOutcome(run)' /\ run'.evidence = Trial!EvidenceValidity(run)'
  BY DEF Classified, Trial!NoRun, Trial!Inputs
<1>0. req' = req
  BY TrialFixed
<1>1. /\ Trial!ClassifyOutcome(run)' = Trial!ClassifyOutcome(run')
      /\ Trial!EvidenceValidity(run)' = Trial!EvidenceValidity(run')
  <2>1. /\ Trial!Abnormal(run)' <=> Trial!Abnormal(run')
        /\ Trial!TeardownOk(run)' <=> Trial!TeardownOk(run')
        /\ Trial!ExactU0Teardown(run)' <=> Trial!ExactU0Teardown(run')
    BY <1>0 DEF Trial!Abnormal, Trial!TeardownOk, Trial!ExactU0Teardown, Trial!Kaist
  <2> QED  BY <2>1 DEF Trial!ClassifyOutcome, Trial!EvidenceValidity
<1>2. CASE Trial!Classify
  <2> DEFINE r == [run EXCEPT !.contract = IF Trial!KaistS1 /\ run.launch # "none" THEN Trial!PairingContract(run) ELSE @]
  <2>1. run' = [r EXCEPT !.attempted = run.launch # "none",
                         !.closed = run.launch # "none" /\ ~run.survived /\ run.teardown,
                         !.status = Trial!ClassifyOutcome(r), !.evidence = Trial!EvidenceValidity(r)]
    BY <1>2 DEF Trial!Classify
  <2>2. DOMAIN r = Fields
    BY DEF TrialShape
  <2> HIDE DEF r
  <2>3. run'.status = Trial!ClassifyOutcome(r) /\ run'.evidence = Trial!EvidenceValidity(r)
    BY <2>1, <2>2 DEF Fields
  <2>4. /\ r.launch = run'.launch /\ r.survived = run'.survived /\ r.teardown = run'.teardown
        /\ r.contract = run'.contract /\ r.numeric = run'.numeric /\ r.decoded = run'.decoded
        /\ r.state = run'.state /\ r.outputs = run'.outputs /\ r.continuity = run'.continuity /\ r.tail = run'.tail
        /\ r.exits = run'.exits /\ r.child = run'.child /\ r.captured = run'.captured /\ r.linked = run'.linked
        /\ r.unchanged = run'.unchanged
    BY <2>1, <2>2 DEF Fields
  <2>5. /\ Trial!ClassifyOutcome(r) = Trial!ClassifyOutcome(run')
        /\ Trial!EvidenceValidity(r) = Trial!EvidenceValidity(run')
    BY <2>4, OutcomeOfFacts
  <2> QED  BY <1>1, <2>3, <2>5
<1>3. CASE ~Trial!Classify
  <2>1. run' = run /\ (stage \in {"publish", "seal"} \/ result # Trial!NoRun)
    BY <1>3, ReachesPublish
  <2> QED  BY <1>1, <2>1 DEF Classified
<1> QED  BY <1>2, <1>3

LEMMA WritesTeardown ==
  ASSUME TrialShape, Trial!Next
  PROVE  \/ stage \in {"services", "close", "finish"}
         \/ run'.teardown = run.teardown /\ run'.managed = run.managed
<1> USE DEF TrialShape, Fields, Trial!disk, Trial!world
<1>1. CASE Trial!Change
  BY <1>1 DEF Trial!Change
<1>2. CASE Trial!Preflight \/ Trial!Census
  BY <1>2 DEF Trial!Preflight, Trial!Census
<1>3. CASE Trial!Parameters \/ Trial!Identity
  BY <1>3 DEF Trial!Parameters, Trial!Identity
<1>4. CASE Trial!LinkScored \/ Trial!StartServices
  BY <1>4 DEF Trial!LinkScored, Trial!StartServices
<1>5. CASE Trial!Raises
  BY <1>5 DEF Trial!Raises
<1>6. CASE Trial!Interrupted
  BY <1>6 DEF Trial!Interrupted
<1>7. CASE Trial!Estimator
  BY <1>7 DEF Trial!Estimator, Trial!RunCommand
<1>8. CASE Trial!CloseServices
  BY <1>8 DEF Trial!CloseServices, Trial!FinishManaged
<1>9. CASE Trial!Console
  BY <1>9 DEF Trial!Console
<1>10. CASE Trial!Outputs
  BY <1>10 DEF Trial!Outputs
<1>11. CASE Trial!CaptureCheck
  BY <1>11 DEF Trial!CaptureCheck
<1>12. CASE Trial!Postflight
  BY <1>12 DEF Trial!Postflight
<1>13. CASE Trial!FinishTrial
  BY <1>13 DEF Trial!FinishTrial, Trial!FinishManaged
<1>14. CASE Trial!Classify
  BY <1>14 DEF Trial!Classify
<1>15. CASE Trial!Publish \/ Trial!Seal
  BY <1>15 DEF Trial!Publish, Trial!Seal
<1>16. CASE Trial!Killed
  BY <1>16 DEF Trial!Killed
<1>17. CASE Trial!Validate
  BY <1>17 DEF Trial!Validate
<1> QED  BY <1>1, <1>2, <1>3, <1>4, <1>5, <1>6, <1>7, <1>8, <1>9, <1>10, <1>11, <1>12, <1>13, <1>14, <1>15, <1>16, <1>17 DEF Trial!Next

LEMMA LeftAliveStep ==
  ASSUME TrialShape, TrialOrder, LeftAlive, Trial!Next
  PROVE  LeftAlive'
<1>r. Trial!Services' = Trial!Services
  BY TrialFixed, RequestOps
<1>u. stage = "postflight" \/ run'.unchanged = run.unchanged
  BY WritesUnchanged
<1>t. stage \in {"services", "close", "finish"} \/ (run'.teardown = run.teardown /\ run'.managed = run.managed)
  BY WritesTeardown
<1>l. Trial!Estimator \/ Trial!Interrupted \/ run'.survived = run.survived
  BY WritesLaunch
<1> USE DEF LeftAlive, Behind, TrialOrder, TrialShape, Trial!disk, Trial!world, Postponed, Compares, Reads, Listens, Closes, Linked, Known, Counted
<1>1. CASE Trial!Change
  BY <1>1, <1>r, <1>u, <1>t DEF Trial!Change
<1>2. CASE Trial!Preflight \/ Trial!Census
  BY <1>2, <1>r, <1>u, <1>t DEF Trial!Preflight, Trial!Census
<1>3. CASE Trial!Parameters \/ Trial!Identity
  BY <1>3, <1>r, <1>u, <1>t DEF Trial!Parameters, Trial!Identity
<1>4. CASE Trial!LinkScored \/ Trial!StartServices
  <2>1. CASE Trial!LinkScored
    BY <1>r, <1>u, <2>1 DEF Trial!LinkScored
  <2>2. CASE Trial!StartServices
    <3>1. /\ stage = "services" /\ stage' = "estimator" /\ alive' = alive \cup Trial!Services
          /\ run'.managed = Trial!Services
      BY <2>2 DEF Trial!StartServices, Fields
    <3> QED  BY <1>r, <1>u, <3>1
  <2> QED  BY <1>4, <2>1, <2>2
<1>5. CASE Trial!Raises
  BY <1>5, <1>r, <1>u, <1>t DEF Trial!Raises
<1>6. CASE Trial!Interrupted
  BY <1>6, <1>r, <1>u, <1>t DEF Trial!Interrupted
<1>7. CASE Trial!Estimator
  <2>1. PICK d \in Trial!DefectSets : /\ Trial!Possible(d) /\ Trial!RunCommand(d)
                                       /\ truth' = [ran |-> TRUE, on |-> inputs, defects |-> d]
    BY <1>7 DEF Trial!Estimator
  <2>2. stage = "estimator" /\ stage' = "close" /\ UNCHANGED <<req, inputs, scored, result, sums, verdict>>
    BY <1>7 DEF Trial!Estimator
  <2>3. run'.survived <=> "stuck" \in d
    BY <2>1 DEF Trial!RunCommand, TrialShape, Fields
  <2>4. alive' = alive \cup (IF "stuck" \in d THEN {"estimator"} ELSE {})
    BY <2>1 DEF Trial!RunCommand
  <2>5. run'.managed = run.managed /\ run'.unchanged = run.unchanged
    BY <1>u, <1>t, <2>2
  <2> QED  BY <1>r, <2>2, <2>3, <2>4, <2>5
<1>8. CASE Trial!CloseServices
  <2>1. stage = "close" /\ stage' = "console" /\ run'.managed = {} /\ run'.survived = run.survived
    BY <1>8 DEF Trial!CloseServices, Trial!FinishManaged, Fields
  <2>2. (run'.teardown /\ ~run.survived) => alive' = {}
    BY <1>8, <2>1 DEF Trial!CloseServices, Trial!FinishManaged, Fields
  <2> QED  BY <2>1, <2>2
<1>9. CASE Trial!Console
  <2>1. run'.survived = run.survived /\ alive' = alive
    BY <1>9 DEF Trial!Console, Fields
  <2> QED  BY <1>9, <1>t, <1>u, <2>1 DEF Trial!Console
<1>10. CASE Trial!Outputs
  <2>1. run'.survived = run.survived /\ alive' = alive
    BY <1>10 DEF Trial!Outputs, Fields
  <2> QED  BY <1>10, <1>t, <1>u, <2>1 DEF Trial!Outputs
<1>11. CASE Trial!CaptureCheck
  <2>1. run'.survived = run.survived /\ alive' = alive
    BY <1>11 DEF Trial!CaptureCheck, Fields
  <2> QED  BY <1>11, <1>t, <1>u, <2>1 DEF Trial!CaptureCheck
<1>12. CASE Trial!Postflight
  <2>1. stage = "postflight" /\ stage' = "finish" /\ alive' = alive /\ run'.survived = run.survived
    BY <1>12 DEF Trial!Postflight, Fields
  <2> QED  BY <1>t, <2>1
<1>13. CASE Trial!FinishTrial
  <2>1. stage = "finish" /\ stage' = "classify" /\ run'.managed = {} /\ run'.survived = run.survived
    BY <1>13 DEF Trial!FinishTrial, Trial!FinishManaged, Fields
  <2>2. ASSUME run.unchanged = "yes"
        PROVE  alive' = alive /\ run'.teardown = run.teardown
    <3>1. run.managed = {}
      BY <2>2
    <3> QED  BY <1>13, <3>1 DEF Trial!FinishTrial, Trial!FinishManaged, Fields
  <2> QED  BY <1>u, <2>1, <2>2
<1>14. CASE Trial!Classify
  <2>1. stage = "classify" /\ stage' = "publish" /\ alive' = alive /\ run'.survived = run.survived
    BY <1>14 DEF Trial!Classify, Fields
  <2> QED  BY <1>t, <1>u, <2>1
<1>15. CASE Trial!Publish \/ Trial!Seal
  BY <1>15, <1>r, <1>u, <1>t DEF Trial!Publish, Trial!Seal
<1>16. CASE Trial!Killed
  BY <1>16, <1>r, <1>u, <1>t DEF Trial!Killed
<1>17. CASE Trial!Validate
  BY <1>17, <1>r, <1>u, <1>t DEF Trial!Validate
<1> QED  BY <1>1, <1>2, <1>3, <1>4, <1>5, <1>6, <1>7, <1>8, <1>9, <1>10, <1>11, <1>12, <1>13, <1>14, <1>15, <1>16, <1>17 DEF Trial!Next

\* Once there is a result nothing that it is about changes.
LEMMA ResultStays ==
  ASSUME TrialShape, TrialOrder, result # Trial!NoRun, Trial!Next
  PROVE  /\ result' = result /\ truth' = truth /\ alive' = alive
         /\ Trial!Validate \/ verdict' = verdict
<1> USE DEF TrialOrder, Trial!disk, Trial!world
<1>1. CASE Trial!Change
  BY <1>1 DEF Trial!Change
<1>2. CASE Trial!Preflight \/ Trial!Census
  BY <1>2 DEF Trial!Preflight, Trial!Census
<1>3. CASE Trial!Parameters \/ Trial!Identity
  BY <1>3 DEF Trial!Parameters, Trial!Identity
<1>4. CASE Trial!LinkScored \/ Trial!StartServices
  BY <1>4 DEF Trial!LinkScored, Trial!StartServices
<1>5. CASE Trial!Raises
  BY <1>5 DEF Trial!Raises
<1>6. CASE Trial!Interrupted
  BY <1>6 DEF Trial!Interrupted
<1>7. CASE Trial!Estimator
  BY <1>7 DEF Trial!Estimator
<1>8. CASE Trial!CloseServices
  BY <1>8 DEF Trial!CloseServices, Trial!FinishManaged
<1>9. CASE Trial!Console
  BY <1>9 DEF Trial!Console
<1>10. CASE Trial!Outputs
  BY <1>10 DEF Trial!Outputs
<1>11. CASE Trial!CaptureCheck
  BY <1>11 DEF Trial!CaptureCheck
<1>12. CASE Trial!Postflight
  BY <1>12 DEF Trial!Postflight
<1>13. CASE Trial!FinishTrial
  BY <1>13 DEF Trial!FinishTrial, Trial!FinishManaged
<1>14. CASE Trial!Classify
  BY <1>14 DEF Trial!Classify
<1>15. CASE Trial!Publish \/ Trial!Seal
  BY <1>15 DEF Trial!Publish, Trial!Seal
<1>16. CASE Trial!Killed
  BY <1>16 DEF Trial!Killed
<1>17. CASE Trial!Validate
  BY <1>17 DEF Trial!Validate
<1> QED  BY <1>1, <1>2, <1>3, <1>4, <1>5, <1>6, <1>7, <1>8, <1>9, <1>10, <1>11, <1>12, <1>13, <1>14, <1>15, <1>16, <1>17 DEF Trial!Next

\* What a status says of the facts it was derived from.
LEMMA StatusMeans ==
  ASSUME NEW r
  PROVE  LET st == Trial!ClassifyOutcome(r)
         IN  /\ st = "TIMED_OUT" <=> r.launch = "timedOut"
             /\ r.launch = "interrupted" => st = "INTERRUPTED"
             /\ st \in Trial!Eligible =>
                   /\ r.launch # "timedOut" /\ r.launch # "interrupted" /\ r.numeric /\ r.outputs /\ r.decoded
                   /\ r.continuity /\ r.tail /\ r.state \notin {"missing", "empty", "invalid"}
                   /\ Trial!Abnormal(r) => Trial!ExactU0Teardown(r)
             /\ st = "COMPLETED" => ~Trial!ExactU0Teardown(r)
             /\ st = "COMPLETED_WITH_TEARDOWN_DEFECT" => Trial!ExactU0Teardown(r)
             /\ st \in {"NO_INITIALIZATION", "ESTIMATOR_CRASH"} => r.state \in {"missing", "empty"}
             /\ st = "NO_INITIALIZATION" => ~Trial!Abnormal(r)
             /\ st = "ESTIMATOR_CRASH" => Trial!Abnormal(r)
<1> DEFINE st == Trial!ClassifyOutcome(r)
<1>1. (st = "TIMED_OUT" <=> r.launch = "timedOut") /\ (r.launch = "interrupted" => st = "INTERRUPTED")
  BY DEF Trial!ClassifyOutcome
<1>2. ASSUME st \in Trial!Eligible
      PROVE  /\ r.launch # "timedOut" /\ r.launch # "interrupted" /\ r.numeric /\ r.outputs /\ r.decoded
             /\ r.continuity /\ r.tail /\ r.state \notin {"missing", "empty", "invalid"}
             /\ Trial!Abnormal(r) => Trial!ExactU0Teardown(r)
  BY <1>2 DEF Trial!ClassifyOutcome, Trial!Eligible
<1>3. st = "COMPLETED" => ~Trial!ExactU0Teardown(r)
  BY DEF Trial!ClassifyOutcome
<1>4. st = "COMPLETED_WITH_TEARDOWN_DEFECT" => Trial!ExactU0Teardown(r)
  BY DEF Trial!ClassifyOutcome
<1>5. st \in {"NO_INITIALIZATION", "ESTIMATOR_CRASH"} => r.state \in {"missing", "empty"}
  BY DEF Trial!ClassifyOutcome
<1>6. (st = "NO_INITIALIZATION" => ~Trial!Abnormal(r)) /\ (st = "ESTIMATOR_CRASH" => Trial!Abnormal(r))
  BY DEF Trial!ClassifyOutcome
<1> QED  BY <1>1, <1>2, <1>3, <1>4, <1>5, <1>6

LEMMA VerdictStays ==
  ASSUME TrialShape, Trial!Next
  PROVE  Trial!Validate \/ verdict' = verdict
<1> USE DEF Trial!disk, Trial!world
<1>1. CASE Trial!Change
  BY <1>1 DEF Trial!Change
<1>2. CASE Trial!Preflight \/ Trial!Census
  BY <1>2 DEF Trial!Preflight, Trial!Census
<1>3. CASE Trial!Parameters \/ Trial!Identity
  BY <1>3 DEF Trial!Parameters, Trial!Identity
<1>4. CASE Trial!LinkScored \/ Trial!StartServices
  BY <1>4 DEF Trial!LinkScored, Trial!StartServices
<1>5. CASE Trial!Raises
  BY <1>5 DEF Trial!Raises
<1>6. CASE Trial!Interrupted
  BY <1>6 DEF Trial!Interrupted
<1>7. CASE Trial!Estimator
  BY <1>7 DEF Trial!Estimator
<1>8. CASE Trial!CloseServices
  BY <1>8 DEF Trial!CloseServices, Trial!FinishManaged
<1>9. CASE Trial!Console
  BY <1>9 DEF Trial!Console
<1>10. CASE Trial!Outputs
  BY <1>10 DEF Trial!Outputs
<1>11. CASE Trial!CaptureCheck
  BY <1>11 DEF Trial!CaptureCheck
<1>12. CASE Trial!Postflight
  BY <1>12 DEF Trial!Postflight
<1>13. CASE Trial!FinishTrial
  BY <1>13 DEF Trial!FinishTrial, Trial!FinishManaged
<1>14. CASE Trial!Classify
  BY <1>14 DEF Trial!Classify
<1>15. CASE Trial!Publish \/ Trial!Seal
  BY <1>15 DEF Trial!Publish, Trial!Seal
<1>16. CASE Trial!Killed
  BY <1>16 DEF Trial!Killed
<1>17. CASE Trial!Validate
  BY <1>17
<1> QED  BY <1>1, <1>2, <1>3, <1>4, <1>5, <1>6, <1>7, <1>8, <1>9, <1>10, <1>11, <1>12, <1>13, <1>14, <1>15, <1>16, <1>17 DEF Trial!Next

\* What an accepted run reports is what happened: the receipt of its close says
\* that it went through every stage, so each of the facts is the one told.
LEMMA ReceiptMeans ==
  ASSUME TrialShape, InputsPinned, LaunchTold, ConsoleTold, OutputsTold, CaptureTold, LeftAlive, Trial!CloseReceipt(run)
  PROVE  /\ truth.ran /\ truth.on = Trial!Pinned /\ alive = {}
         /\ ~Trial!Had("stuck") /\ ~Trial!Had("unstarted") /\ ~Trial!Had("miscount")
         /\ Trial!Had("recovery") => Trial!Kaist /\ ~run.mechanism
<1>1. /\ run.unchanged = "yes" /\ run.contract /\ run.teardown /\ ~run.survived
  BY DEF Trial!CloseReceipt, Trial!TeardownOk
<1>2. truth.on = Trial!Pinned
  BY <1>1 DEF InputsPinned
<1>3. truth.ran /\ ~Trial!Had("stuck") /\ Trial!Possible(truth.defects)
  BY <1>1 DEF LaunchTold, Behind
<1>4. alive = {}
  BY <1>1 DEF LeftAlive, Behind
<1>5. ~Trial!Had("unstarted") /\ Trial!RecoveryOff /\ Trial!PairingHolds /\ (run.mechanism <=> Trial!Mechanism)
  BY <1>1 DEF ConsoleTold, Behind
<1>6. ~Trial!Had("miscount")
  <2>1. Trial!Had("miscount") => Trial!KaistS1
    BY <1>3 DEF Trial!Possible, Trial!Had
  <2> QED  BY <1>5, <2>1 DEF Trial!PairingHolds
<1>7. Trial!Had("recovery") => Trial!Kaist /\ ~run.mechanism
  BY <1>5 DEF Trial!RecoveryOff, Trial!Mechanism
<1> QED  BY <1>2, <1>3, <1>4, <1>5, <1>6, <1>7

\* A capture that links with a closed bag has neither of its own defects.
LEMMA CaptureMeans ==
  ASSUME TrialOrder, LaunchTold, CaptureTold, run.unchanged = "yes", run.captured, run.linked
  PROVE  ~Trial!Had("active") /\ ~Trial!Had("differs")
<1>1. CASE Trial!Capture
  BY <1>1 DEF CaptureTold, Behind
<1>2. CASE ~Trial!Capture
  <2>1. Trial!Possible(truth.defects)
    BY DEF LaunchTold, Behind
  <2> QED  BY <1>2, <2>1 DEF Trial!Possible, Trial!Had
<1> QED  BY <1>1, <1>2

\* A run that completed has no defect but the ones its status names.
LEMMA EligibleMeans ==
  ASSUME TrialShape, TrialOrder, Classified, LaunchTold, ConsoleTold, OutputsTold, CaptureTold,
         run.unchanged = "yes", run.captured, run.linked, run.contract, ~run.survived,
         run.status = Trial!ClassifyOutcome(run), Trial!KaistEvidence(run), run.status \in Trial!Eligible
  PROVE  /\ truth.defects \ {"recovery"} \subseteq Trial!Owned[run.status]
         /\ req.adapter = "rotation" /\ Trial!KaistS1 => run.mechanism
<1>1. /\ run.launch # "timedOut" /\ run.launch # "interrupted" /\ run.numeric /\ run.outputs /\ run.decoded
      /\ run.continuity /\ run.tail /\ run.state \notin {"missing", "empty", "invalid"}
      /\ Trial!Abnormal(run) => Trial!ExactU0Teardown(run)
      /\ run.status = "COMPLETED" => ~Trial!ExactU0Teardown(run)
  BY StatusMeans
<1>2. /\ truth.defects \subseteq Trial!Defects /\ Trial!Possible(truth.defects) /\ run.launch = "ended"
      /\ ~Trial!Had("hang") /\ ~Trial!Had("stuck")
  BY <1>1 DEF LaunchTold, Behind
<1>3. /\ ~Trial!Had("unstarted") /\ Trial!PairingHolds /\ ~Trial!Had("nonfinite") /\ ~Trial!Had("decode")
      /\ run.exits = Trial!ChildExits /\ run.child = Trial!Child
      /\ run.terminal <=> Trial!KaistS1 /\ Trial!Terminal
  BY <1>1 DEF ConsoleTold, Behind
<1>4. /\ run.state = Trial!StateKind /\ ~Trial!Had("tables") /\ Trial!Continuity /\ Trial!RecoveredGap(run)
      /\ Trial!Tail
  BY <1>1 DEF OutputsTold, Behind
<1>5. ~Trial!Had("active") /\ ~Trial!Had("differs")
  BY CaptureMeans
<1>6. ~Trial!Had("missing") /\ ~Trial!Had("empty") /\ ~Trial!Had("invalid") /\ ~Trial!Had("noEarly")
  BY <1>1, <1>4 DEF Trial!StateKind
<1>7. ~Trial!Had("gap") /\ ~Trial!Had("tail")
  BY <1>4 DEF Trial!Continuity, Trial!Tail
<1>8. /\ Trial!Had("miscount") => Trial!KaistS1
      /\ Trial!Had("noTerminal") => Trial!KaistS1
      /\ Trial!Had("unproven") => Trial!KaistS1
  BY <1>2 DEF Trial!Possible, Trial!Had
<1>9. Trial!KaistS1 => run.terminal /\ run.child = "clean"
  BY DEF Trial!KaistEvidence, Trial!CleanTerminal
<1>10. ~Trial!Had("miscount") /\ ~Trial!Had("noTerminal") /\ ~Trial!Had("unproven")
  BY <1>3, <1>8, <1>9 DEF Trial!PairingHolds, Trial!Terminal, Trial!Child
<1>11. ~Trial!Had("failed")
  <2> SUFFICES ASSUME Trial!Had("failed") PROVE FALSE
    OBVIOUS
  <2>1. 1 \in run.exits
    BY <1>3 DEF Trial!ChildExits
  <2>2. Trial!Abnormal(run)
    BY <1>2, <2>1 DEF Trial!Abnormal
  <2>3. run.exits = {6}
    BY <1>1, <2>2 DEF Trial!ExactU0Teardown
  <2> QED  BY <2>1, <2>3
<1>12. Trial!Had("abort") => run.status = "COMPLETED_WITH_TEARDOWN_DEFECT"
  <2> SUFFICES ASSUME Trial!Had("abort") PROVE run.status # "COMPLETED"
    BY DEF Trial!Eligible
  <2>1. 6 \in run.exits
    BY <1>3 DEF Trial!ChildExits
  <2>2. Trial!Abnormal(run)
    BY <1>2, <2>1 DEF Trial!Abnormal
  <2> QED  BY <1>1, <2>2
<1>13. ASSUME NEW x \in truth.defects, x # "recovery"
       PROVE  x = "abort"
  <2>1. x \in Trial!Defects
    BY <1>2, <1>13
  <2>2. x # "hang" /\ x # "stuck" /\ x # "unstarted" /\ x # "nonfinite" /\ x # "decode"
    BY <1>2, <1>3, <1>13 DEF Trial!Had
  <2>3. x # "tables" /\ x # "active" /\ x # "differs" /\ x # "gap" /\ x # "tail"
    BY <1>4, <1>5, <1>7, <1>13 DEF Trial!Had
  <2>4. x # "missing" /\ x # "empty" /\ x # "invalid" /\ x # "noEarly"
    BY <1>6, <1>13 DEF Trial!Had
  <2>5. x # "miscount" /\ x # "noTerminal" /\ x # "unproven" /\ x # "failed"
    BY <1>10, <1>11, <1>13 DEF Trial!Had
  <2> QED  BY <1>13, <2>1, <2>2, <2>3, <2>4, <2>5 DEF Trial!Defects
<1>14. truth.defects \ {"recovery"} \subseteq Trial!Owned[run.status]
  <2>1. CASE run.status = "COMPLETED"
    <3>1. ~Trial!Had("abort")
      BY <2>1, <1>12
    <3> QED  BY <2>1, <3>1, <1>13 DEF Trial!Had
  <2>2. CASE run.status = "COMPLETED_WITH_TEARDOWN_DEFECT"
    <3>1. Trial!Owned[run.status] = {"abort"}
      BY <2>2 DEF Trial!Owned
    <3> QED  BY <3>1, <1>13
  <2> QED  BY <2>1, <2>2 DEF Trial!Eligible
<1>15. req.adapter = "rotation" /\ Trial!KaistS1 => run.mechanism
  BY <1>4 DEF Trial!RecoveredGap, Trial!KaistS1
<1> QED  BY <1>14, <1>15

LEMMA FailureMeans ==
  ASSUME TrialShape, TrialOrder, LaunchTold, ConsoleTold, OutputsTold, run.unchanged = "yes", run.contract,
         run.status = Trial!ClassifyOutcome(run), run.status # "INTERRUPTED"
  PROVE  /\ run.status = "TIMED_OUT" <=> Trial!Had("hang")
         /\ run.status \in {"NO_INITIALIZATION", "ESTIMATOR_CRASH"} =>
               Trial!Had("missing") \/ Trial!Had("empty") \/ Trial!Had("noEarly")
         /\ run.status = "NO_INITIALIZATION" => ~Trial!Had("failed") /\ ~Trial!Had("abort")
         /\ run.status = "ESTIMATOR_CRASH" => Trial!Had("failed") \/ Trial!Had("abort")
<1>1. /\ run.status = "TIMED_OUT" <=> run.launch = "timedOut"
      /\ run.launch # "interrupted"
      /\ run.status \in {"NO_INITIALIZATION", "ESTIMATOR_CRASH"} => run.state \in {"missing", "empty"}
      /\ run.status = "NO_INITIALIZATION" => ~Trial!Abnormal(run)
      /\ run.status = "ESTIMATOR_CRASH" => Trial!Abnormal(run)
  BY StatusMeans
<1>2. /\ run.launch \in {"timedOut", "ended", "interrupted"}
      /\ run.launch = "timedOut" => Trial!Had("hang")
      /\ run.launch = "ended" => ~Trial!Had("hang")
  BY DEF LaunchTold, Behind
<1>3. ~Trial!Had("unstarted") /\ run.exits = Trial!ChildExits /\ run.child = Trial!Child
  BY DEF ConsoleTold, Behind
<1>4. run.state = Trial!StateKind
  BY DEF OutputsTold, Behind
<1>5. run.state \in {"missing", "empty"} => Trial!Had("missing") \/ Trial!Had("empty") \/ Trial!Had("noEarly")
  BY <1>3, <1>4 DEF Trial!StateKind
<1>6. Trial!Abnormal(run) => Trial!Had("failed") \/ Trial!Had("abort")
  BY <1>3 DEF Trial!Abnormal, Trial!ChildExits, Trial!Child
<1>7. Trial!Had("failed") \/ Trial!Had("abort") => Trial!Abnormal(run)
  BY <1>2, <1>3 DEF Trial!Abnormal, Trial!ChildExits
<1> QED  BY <1>1, <1>2, <1>5, <1>6, <1>7

LEMMA RetainedStep ==
  ASSUME TrialInv, Trial!Next
  PROVE  RetainedIsTrue'
<1>0. req' = req /\ (Trial!Capture' <=> Trial!Capture) /\ (Trial!Kaist' <=> Trial!Kaist) /\ (Trial!KaistS1' <=> Trial!KaistS1)
  BY TrialFixed, RequestOps
<1> USE DEF TrialInv
<1>1. CASE Trial!Validate
  <2>1. result # Trial!NoRun /\ result = run /\ UNCHANGED <<req, truth, alive, result>>
    BY <1>1 DEF Trial!Validate, TrialOrder
  <2>2. run.status = Trial!ClassifyOutcome(run) /\ run.evidence = Trial!EvidenceValidity(run)
    BY <2>1 DEF Classified
  <2>3. ASSUME verdict' = "retained"
        PROVE  Trial!RetainedIsTrue'
    <3>1. Trial!CloseReceipt(run) /\ Trial!KaistEvidence(run) /\ run.status \in Trial!Algorithm /\ run.evidence = "VALID"
      BY <1>1, <2>1, <2>3 DEF Trial!Validate, Trial!Classification
    <3>2. /\ truth.ran /\ truth.on = Trial!Pinned /\ alive = {}
          /\ ~Trial!Had("stuck") /\ ~Trial!Had("unstarted") /\ ~Trial!Had("miscount")
          /\ Trial!Had("recovery") => Trial!Kaist /\ ~run.mechanism
      BY <3>1, ReceiptMeans
    <3>3. run.unchanged = "yes" /\ run.contract /\ ~run.survived /\ run.captured /\ run.linked
      BY <2>2, <3>1 DEF Trial!CloseReceipt, Trial!TeardownOk, Trial!EvidenceValidity
    <3>4. ~Trial!Had("active") /\ ~Trial!Had("differs")
      BY <3>3, CaptureMeans
    <3>5. run.status \in Trial!Eligible =>
            /\ truth.defects \ {"recovery"} \subseteq Trial!Owned[run.status]
            /\ req.adapter = "rotation" /\ Trial!KaistS1 => run.mechanism
      BY <2>2, <3>1, <3>3, EligibleMeans
    <3>6. run.status # "INTERRUPTED"
      BY <3>1 DEF Trial!Algorithm, Trial!Eligible
    <3>7. /\ run.status = "TIMED_OUT" <=> Trial!Had("hang")
          /\ run.status \in {"NO_INITIALIZATION", "ESTIMATOR_CRASH"} =>
                Trial!Had("missing") \/ Trial!Had("empty") \/ Trial!Had("noEarly")
          /\ run.status = "NO_INITIALIZATION" => ~Trial!Had("failed") /\ ~Trial!Had("abort")
          /\ run.status = "ESTIMATOR_CRASH" => Trial!Had("failed") \/ Trial!Had("abort")
      BY <2>2, <3>3, <3>6, FailureMeans
    <3>8. truth.defects \cap {"unstarted", "miscount", "stuck", "active", "differs"} = {}
      BY <3>2, <3>4 DEF Trial!Had
    <3>9. /\ run.status \in {"NO_INITIALIZATION", "ESTIMATOR_CRASH"} => truth.defects \cap {"missing", "empty", "noEarly"} # {}
          /\ run.status = "NO_INITIALIZATION" => truth.defects \cap {"failed", "abort"} = {}
          /\ run.status = "ESTIMATOR_CRASH" => truth.defects \cap {"failed", "abort"} # {}
      BY <3>7 DEF Trial!Had
    <3>10. truth'.defects = truth.defects /\ result' = run /\ truth' = truth /\ alive' = alive
      BY <2>1
    <3>11. Trial!Owned' = Trial!Owned /\ Trial!Pinned' = Trial!Pinned
      BY DEF Trial!Owned, Trial!Pinned
    <3> QED  BY <1>0, <3>2, <3>5, <3>7, <3>8, <3>9, <3>10, <3>11 DEF Trial!RetainedIsTrue, Trial!Had
  <2>4. ASSUME verdict' = "mismatch"
        PROVE  Trial!MismatchIsProven'
    <3>1. Trial!CloseReceipt(run) /\ Trial!Classification(run) = "mismatch"
      BY <1>1, <2>1, <2>4 DEF Trial!Validate
    <3>2. Trial!Capture
      BY <3>1 DEF Trial!Classification
    <3>3. Trial!CaptureLinkage(run, TRUE)
      BY <1>1, <2>1, <2>4, <3>2 DEF Trial!Validate
    <3>4. Trial!Had("differs")
      BY <3>3 DEF Trial!CaptureLinkage
    <3>5. truth.ran /\ truth.on = Trial!Pinned /\ alive = {}
      BY <3>1, ReceiptMeans
    <3> QED  BY <1>0, <2>1, <3>2, <3>4, <3>5 DEF Trial!MismatchIsProven, Trial!Had
  <2>5. /\ verdict' # "retained" => Trial!RetainedIsTrue'
        /\ verdict' # "mismatch" => Trial!MismatchIsProven'
    BY DEF Trial!RetainedIsTrue, Trial!MismatchIsProven
  <2> QED  BY <2>3, <2>4, <2>5 DEF RetainedIsTrue
<1>2. CASE ~Trial!Validate /\ result # Trial!NoRun
  <2>1. result' = result /\ truth' = truth /\ alive' = alive /\ verdict' = verdict
    BY <1>2, ResultStays
  <2>2. Trial!RetainedIsTrue' <=> Trial!RetainedIsTrue
    BY <1>0, <2>1 DEF Trial!RetainedIsTrue, Trial!Owned, Trial!Pinned, Trial!Inputs, Trial!Eligible
  <2>3. Trial!MismatchIsProven' <=> Trial!MismatchIsProven
    BY <1>0, <2>1 DEF Trial!MismatchIsProven, Trial!Pinned, Trial!Inputs
  <2> QED  BY <2>2, <2>3 DEF RetainedIsTrue
<1>3. CASE ~Trial!Validate /\ result = Trial!NoRun
  <2>1. verdict = "none"
    BY <1>3 DEF TrialOrder
  <2>2. verdict' = verdict
    BY <1>3, VerdictStays
  <2> QED  BY <2>1, <2>2 DEF RetainedIsTrue, Trial!RetainedIsTrue, Trial!MismatchIsProven
<1> QED  BY <1>1, <1>2, <1>3

LEMMA TrialInvInit ==
  ASSUME Trial!Init
  PROVE  TrialInv
<1>1. TrialShape
  BY DEF Trial!Init, TrialShape, Trial!NoRun, Fields, Trial!Pinned, Trial!Inputs
<1>2. TrialOrder /\ Classified
  BY DEF Trial!Init, TrialOrder, Classified, Trial!NoRun
<1>3. /\ stage = "preflight" /\ run.unchanged = "none" /\ alive = {} /\ verdict = "none"
  BY DEF Trial!Init, Trial!NoRun
<1>4. InputsPinned /\ LeftAlive
  BY <1>3 DEF InputsPinned, LeftAlive, Behind, Counted, Known, Linked, Closes, Listens, Reads, Compares
<1>5. LaunchTold /\ ConsoleTold /\ OutputsTold /\ CaptureTold
  BY <1>3 DEF LaunchTold, ConsoleTold, OutputsTold, CaptureTold, Behind, Closes, Listens, Reads, Compares
<1>6. RetainedIsTrue
  BY <1>3 DEF RetainedIsTrue, Trial!RetainedIsTrue, Trial!MismatchIsProven
<1> QED  BY <1>1, <1>2, <1>4, <1>5, <1>6 DEF TrialInv

LEMMA TrialInvStep ==
  ASSUME TrialInv, [Trial!Next]_(Trial!vars)
  PROVE  TrialInv'
<1>1. CASE Trial!Next
  <2> USE <1>1 DEF TrialInv
  <2>1. TrialShape' /\ TrialOrder' /\ Classified' /\ InputsPinned'
    BY TrialShapeStep, TrialOrderStep, ClassifiedStep, InputsPinnedStep
  <2>2. LaunchTold' /\ ConsoleTold' /\ OutputsTold' /\ CaptureTold' /\ LeftAlive'
    BY LaunchToldStep, ConsoleToldStep, OutputsToldStep, CaptureToldStep, LeftAliveStep
  <2>3. RetainedIsTrue'
    BY RetainedStep
  <2> QED  BY <2>1, <2>2, <2>3
<1>2. CASE UNCHANGED Trial!vars
  <2> USE <1>2 DEF Trial!vars, TrialInv
  <2>1. TrialShape' /\ TrialOrder' /\ InputsPinned'
    BY DEF TrialShape, TrialOrder, InputsPinned, Trial!Capture, Trial!Inputs, Trial!Pinned
  <2>2. req' = req /\ truth' = truth /\ run' = run
    OBVIOUS
  <2>3. Classified'
    BY DEF Classified, Trial!ClassifyOutcome, Trial!EvidenceValidity, Trial!Abnormal, Trial!TeardownOk,
       Trial!ExactU0Teardown, Trial!Kaist
  <2>4. LaunchTold' /\ CaptureTold'
    BY <2>2, TruthOps, RequestOps DEF LaunchTold, CaptureTold, Behind, Trial!Had
  <2>5. ConsoleTold'
    BY <2>2, TruthOps, RequestOps DEF ConsoleTold, Behind, Trial!Had
  <2>6. OutputsTold'
    BY <2>2, TruthOps, RequestOps DEF OutputsTold, Behind, Trial!Had, Trial!RecoveredGap
  <2>7. LeftAlive'
    BY <2>2, RequestOps DEF LeftAlive, Behind
  <2>8. RetainedIsTrue'
    BY <2>2, RequestOps DEF RetainedIsTrue, Trial!RetainedIsTrue, Trial!MismatchIsProven, Trial!Owned, Trial!Pinned,
       Trial!Inputs, Trial!Eligible
  <2> QED  BY <2>1, <2>3, <2>4, <2>5, <2>6, <2>7, <2>8
<1> QED  BY <1>1, <1>2

\* What the campaign retains is true of the estimator that ran: it ran on the
\* pinned inputs, nothing of it is left alive, its status names the defects it had,
\* and a capture kept as a mismatch does differ.  Behind it: run_trial of both
\* runners, classify_outcome, classify_evidence_validity and the campaign's
\* validate_sequence_result, for any requests and any number of exceptions,
\* interrupts, kills and changes of the files.
THEOREM RetainedAlways == Trial!Spec => []RetainedIsTrue
<1>1. Trial!Init => TrialInv
  BY TrialInvInit
<1>2. TrialInv /\ [Trial!Next]_(Trial!vars) => TrialInv'
  BY TrialInvStep
<1>3. TrialInv => RetainedIsTrue
  BY DEF TrialInv
<1> QED  BY <1>1, <1>2, <1>3, PTL DEF Trial!Spec
=============================================================================
