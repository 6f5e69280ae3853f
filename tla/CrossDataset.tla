---------------------------- MODULE CrossDataset ----------------------------
\* The cross-dataset campaign: cross_dataset_campaign.py runs every cell of the
\* matrix (a row and a system) in the scored lane, evaluates a pair once both its
\* cells are closed, then replays the cells in the capture lane and bundles their
\* geometry; cross_dataset_aggregate.py makes the report.
\*
\* Campaigns die and are started again, two may run on one artifact root, and the
\* runners and tools they launch survive them.  TrialRunner models what happens
\* inside one cell; here a cell publishes one of the outcomes found there.
EXTENDS Naturals, Sequences, FiniteSets

CONSTANTS Rows,        \* the matrix: <<[full, rotation, tum], ...>>
          MaxStarts,   \* campaign processes
          MaxTogether, \* of them at a time
          MaxFaults,   \* outcomes other than a full success, kills, edits, drift
          MaxRemovals  \* result directories an operator takes away

ASSUME MatrixAssumption == Rows \in Seq([full : BOOLEAN, rotation : BOOLEAN, tum : BOOLEAN])
ASSUME BoundAssumption == {MaxStarts, MaxTogether, MaxFaults, MaxRemovals} \subseteq Nat

VARIABLES camp,      \* campaign processes: [pc, lane, row, step, got]
          job,       \* what each has launched: [item, step, of, status, exit]
          art,       \* result directories: [st, gen, of, status, edited]
          claims,    \* how often each was created
          current,   \* campaign processes that know the last event of the log
          leftover,  \* an unfinished event was left behind
          finished,  \* lanes with a finish event
          opened,    \* rows whose reference has been opened
          drift,     \* what no longer is as pinned: the worktrees, a bag
          agg,       \* the aggregator: [pc, cells, derived]
          faults, removals

vars == <<camp, job, art, claims, current, leftover, finished, opened, drift, agg, faults, removals>>
log == <<current, leftover, finished>>
store == <<art, claims, opened>>

Ids == 1 .. MaxStarts
Systems == {"U0", "S1"}
\* select_rows, with every row selected.
Orders == 1 .. Len(Rows)

-----------------------------------------------------------------------------
\* The matrix and the plan of a lane

\* load_matrix: the system that goes first alternates with the rows.
SystemOrder(r) == IF r % 2 = 1 THEN <<"U0", "S1">> ELSE <<"S1", "U0">>

Cells(lane) == {lane} \X Orders \X Systems
Pair(r) == <<"pair", r, "both">>
Mechanism(r) == <<"mechanism", r, "both">>
Reference(r) == <<"tum", r, "both">>

Items == Cells("scored") \cup Cells("capture") \cup Cells("geometry")
         \cup {Pair(r) : r \in {q \in Orders : Rows[q].full}}
         \cup {Mechanism(r) : r \in {q \in Orders : Rows[q].rotation}}
         \cup {Reference(r) : r \in {q \in Orders : Rows[q].tum}}
IsCell(i) == i[1] \in {"scored", "capture"}

\* _post_scored_pair: what follows the two scored cells of a row.
PostScored(r) ==
    (IF Rows[r].full THEN <<Pair(r)>> ELSE <<>>)
    \o (IF Rows[r].full /\ Rows[r].rotation THEN <<Mechanism(r)>> ELSE <<>>)
    \o (IF Rows[r].tum THEN <<Reference(r)>> ELSE <<>>)

RowPlan(lane, r) ==
    LET order == SystemOrder(r)
        cells(l) == [k \in 1 .. 2 |-> <<l, r, order[k]>>]
    IN  cells(lane) \o (IF lane = "scored" THEN PostScored(r) ELSE cells("geometry"))

\* The build_..._command functions: what a launched program is pointed at.
Sources == [i \in Items |->
    CASE i[1] = "scored" -> {}
      [] i[1] = "capture" -> {<<"scored", i[2], i[3]>>}
      [] i[1] = "geometry" -> {<<"capture", i[2], i[3]>>, <<"scored", i[2], i[3]>>}
      [] i[1] = "tum" -> {<<"scored", i[2], "U0">>}
      [] OTHER -> {<<"scored", i[2], s>> : s \in Systems}]

-----------------------------------------------------------------------------
Over(pc) == [pc |-> pc, lane |-> "scored", row |-> 1, step |-> 1, got |-> {}]
Nothing == [st |-> "none", gen |-> 0, of |-> <<>>, status |-> "none", edited |-> "no"]
NoJob == [item |-> Pair(1), step |-> "idle", of |-> <<>>, status |-> "none", exit |-> 0]

Init ==
    /\ camp = [p \in Ids |-> Over("new")]
    /\ job = [p \in Ids |-> NoJob]
    /\ art = [i \in Items |-> Nothing] /\ claims = [i \in Items |-> 0]
    /\ current = {} /\ leftover = FALSE /\ finished = {} /\ opened = {} /\ drift = {}
    /\ agg = [pc |-> "cells", cells |-> <<>>, derived |-> <<>>]
    /\ faults = 0 /\ removals = 0

Works == UNCHANGED faults
Fails == faults < MaxFaults /\ faults' = faults + 1

Goto(p, pc) == camp' = [camp EXCEPT ![p].pc = pc]
Stop(p) == camp' = [camp EXCEPT ![p] = Over("stopped")]
Item(p) == RowPlan(camp[p].lane, camp[p].row)[camp[p].step]
Gens(i) == [s \in Sources[i] |-> art[s].gen]

-----------------------------------------------------------------------------
\* What a reader makes of a result directory

\* _validate_checksum_set: every listed file has its digest, the result is listed.
ChecksumSet(i) == art[i].st = "sealed" /\ art[i].edited # "content"

\* verify_checksum_bundle, _verify_checksum_directory, verify_checksum_directory:
\* and no file is there that is not listed.
ChecksumBundle(i) == ChecksumSet(i) /\ art[i].edited # "extra"
ChecksumDirectory(i) == ChecksumSet(i) /\ art[i].edited # "extra"
AggregateDirectory(i) == ChecksumSet(i) /\ art[i].edited # "extra"

\* validate_sequence_result accepts it; a fatal status is read but not retained.
Retained(i) == ChecksumSet(i) /\ art[i].status \in {"eligible", "failed", "mismatch"}

\* _validate_kaist_rotation_mechanism: one file, no checksums, but made from the
\* results that are there now.
MechanismHolds(i) == art[i].st = "sealed" /\ art[i].of = Gens(i)

\* Mutant: the manifest being there is enough.
SimplePublishedPresent(i) == art[i].st \in {"unsealed", "sealed"}
\* _validate_simple_published_result and the manifest of a geometry bundle: the
\* checksums and the sequence, not the results it was made from.
SimplePublished(i) == ChecksumSet(i)

Valid(i) == CASE IsCell(i) -> Retained(i)
              [] i[1] = "mechanism" -> MechanismHolds(i)
              [] OTHER -> SimplePublished(i)

-----------------------------------------------------------------------------
\* The event log

\* EventLog.append: the next event is a new directory, renamed into place; it is
\* there already when another process has appended.
Record(p, next) ==
    IF p \in current
    THEN current' = {p} /\ camp' = [camp EXCEPT ![p] = next] /\ UNCHANGED leftover
    ELSE Stop(p) /\ UNCHANGED <<current, leftover>>

\* On to the next step of the row, with what the row has got so far, or to the
\* next row.
Advance(p, got) ==
    IF camp[p].step < Len(RowPlan(camp[p].lane, camp[p].row))
    THEN [camp[p] EXCEPT !.pc = "look", !.step = @ + 1, !.got = got]
    ELSE [camp[p] EXCEPT !.pc = "look", !.row = @ + 1, !.step = 1, !.got = {}]
Passed(p) == Advance(p, camp[p].got)
Retain(p, i) ==
    Advance(p, IF art[i].status = "eligible" THEN camp[p].got \cup {i[3]} ELSE camp[p].got)

\* validate_static_inputs: the files and the bags of the matrix are there.
StaticInputs == "bags" \notin drift
\* preflight_all_kaist_gate_populations: what the estimators will be shown of each
\* KAIST bag is what was frozen.
GatePopulations == "bags" \notin drift
\* validate_git_pins.
GitPins == "git" \notin drift
\* EventLog._load refuses an unfinished event.
LogLoads == ~leftover

Start(p, lane) ==
    /\ camp[p].pc = "new" /\ \A q \in Ids : q < p => camp[q].pc # "new"
    /\ Cardinality({q \in Ids : camp[q].pc \notin {"new", "stopped", "done"}}) < MaxTogether
    /\ StaticInputs /\ GatePopulations /\ GitPins /\ LogLoads
    /\ camp' = [camp EXCEPT ![p] = [@ EXCEPT !.pc = "start", !.lane = lane]]
    /\ current' = current \cup {p}
    /\ UNCHANGED <<job, store, leftover, finished, drift, agg, faults, removals>>

StartEvent(p) ==
    /\ camp[p].pc = "start"
    /\ Record(p, [camp[p] EXCEPT !.pc = IF camp[p].lane = "capture" THEN "gate" ELSE "look"])
    /\ UNCHANGED <<job, store, finished, drift, agg, faults, removals>>

\* Mutant: the gate looks at the cells that are there.
CaptureGatePresent(p) ==
    /\ camp[p].pc = "gate"
    /\ IF \A i \in Cells("scored") : art[i].st # "none" => Retained(i) THEN Goto(p, "look") ELSE Stop(p)
    /\ UNCHANGED <<job, store, log, drift, agg, faults, removals>>
\* validate_capture_prerequisites.
CaptureGate(p) ==
    /\ camp[p].pc = "gate"
    /\ IF \A i \in Cells("scored") : Retained(i) THEN Goto(p, "look") ELSE Stop(p)
    /\ UNCHANGED <<job, store, log, drift, agg, faults, removals>>

-----------------------------------------------------------------------------
\* One step of the plan

\* The pair is not evaluated unless both its cells are eligible.
Skipped(p) == Item(p)[1] = "pair" /\ camp[p].got # Systems

\* _existing_result and the first half of each _run_or_adopt: adopt what is
\* valid, refuse what is there and is not, launch what is not there.
Look(p) ==
    /\ camp[p].pc = "look" /\ camp[p].row \in Orders
    /\ \/ /\ Skipped(p) /\ Record(p, Passed(p))
       \/ /\ ~Skipped(p) /\ Valid(Item(p))
          /\ Record(p, IF IsCell(Item(p)) THEN Retain(p, Item(p)) ELSE Passed(p))
       \/ /\ ~Skipped(p) /\ ~Valid(Item(p)) /\ UNCHANGED <<current, leftover>>
          /\ IF art[Item(p)].st = "none" THEN Goto(p, "launch") ELSE Stop(p)
    /\ UNCHANGED <<job, store, finished, drift, agg, faults, removals>>

\* _run_cell up to the launch, after the cooldown; the tools after a pair are
\* launched as they are, the mechanism into a directory made for it.
Launch(p) ==
    LET i == Item(p)
        begins == job' = [job EXCEPT ![p] = [NoJob EXCEPT !.item = i, !.step = "begin"]]
    IN
    /\ camp[p].pc = "launch"
    /\ CASE IsCell(i) /\ art[i].st = "none" /\ GitPins
              -> Goto(p, "wait") /\ begins /\ UNCHANGED store
         [] i[1] = "mechanism" /\ art[i].st = "none"
              -> /\ Goto(p, "wait") /\ begins
                 /\ art' = [art EXCEPT ![i] = [Nothing EXCEPT !.st = "open", !.gen = claims[i] + 1]]
                 /\ claims' = [claims EXCEPT ![i] = @ + 1] /\ UNCHANGED opened
         [] ~IsCell(i) /\ i[1] # "mechanism" -> Goto(p, "wait") /\ begins /\ UNCHANGED store
         [] OTHER -> Stop(p) /\ UNCHANGED <<job, store>>
    /\ UNCHANGED <<log, drift, agg, faults, removals>>

Present(i) == art[i].st \in {"unsealed", "sealed"}

\* What becomes of a launched program's result: "go on", "stop" after an event,
\* "raise" without one.
\* _run_cell after the runner; the exit code is compared after the event.
CellCloses(i, exit) ==
    CASE ~GitPins \/ ~Present(i) -> "stop"
      [] GitPins /\ Present(i) /\ ~ChecksumSet(i) -> "raise"
      [] OTHER -> IF Retained(i) /\ exit = (IF art[i].status = "eligible" THEN 0 ELSE 2)
                  THEN "go on" ELSE "stop"

\* _run_or_adopt_pair_evaluation, _run_or_adopt_tum_extraction, _post_capture_geometry.
ToolCloses(i, exit) ==
    CASE exit # 0 \/ ~Present(i) -> "stop"
      [] OTHER -> IF SimplePublished(i) THEN "go on" ELSE "raise"

\* _run_or_adopt_kaist_rotation_mechanism.
MechanismCloses(i, exit) ==
    CASE ~Present(i) -> "stop"
      [] Present(i) /\ ~MechanismHolds(i) -> "raise"
      [] OTHER -> IF exit = (IF art[i].status = "pass" THEN 0 ELSE 2) THEN "go on" ELSE "stop"

Close(p) ==
    LET i == Item(p)
        outcome == CASE IsCell(i) -> CellCloses(i, job[p].exit)
                     [] i[1] = "mechanism" -> MechanismCloses(i, job[p].exit)
                     [] OTHER -> ToolCloses(i, job[p].exit)
    IN
    /\ camp[p].pc = "wait" /\ job[p].step = "done"
    /\ job' = [job EXCEPT ![p] = NoJob]
    /\ CASE outcome = "go on" -> Record(p, IF IsCell(i) THEN Retain(p, i) ELSE Passed(p))
         [] outcome = "stop" -> Record(p, Over("stopped"))
         [] OTHER -> Stop(p) /\ UNCHANGED <<current, leftover>>
    /\ UNCHANGED <<store, finished, drift, agg, faults, removals>>

Finish(p) ==
    /\ camp[p].pc = "look" /\ camp[p].row \notin Orders
    /\ Record(p, Over("done"))
    /\ finished' = IF p \in current THEN finished \cup {camp[p].lane} ELSE finished
    /\ UNCHANGED <<job, store, drift, agg, faults, removals>>

\* A campaign that dies leaves what it launched running, and perhaps an event
\* that was not renamed yet.
Killed(p) ==
    /\ camp[p].pc \notin {"new", "stopped", "done"} /\ Fails
    /\ Stop(p) /\ leftover' \in {leftover, TRUE}
    /\ UNCHANGED <<job, store, current, finished, drift, agg, removals>>

-----------------------------------------------------------------------------
\* The launched programs

Exits(p, code) == job' = [job EXCEPT ![p].step = "done", ![p].exit = code]
Writes(i, a) == art' = [art EXCEPT ![i] = a]
Creates(i) ==
    /\ Writes(i, [Nothing EXCEPT !.st = "open", !.gen = claims[i] + 1])
    /\ claims' = [claims EXCEPT ![i] = @ + 1]
Outside == <<camp, log, drift, agg, removals>>

\* The runner of a cell creates its directory, or leaves if it is there.
Claim(p) ==
    LET i == job[p].item IN
    /\ job[p].step = "begin" /\ IsCell(i)
    /\ IF art[i].st = "none"
       THEN Creates(i) /\ job' = [job EXCEPT ![p].step = "run", ![p].of = Gens(i)]
       ELSE Exits(p, 2) /\ UNCHANGED <<art, claims>>
    /\ UNCHANGED <<opened, faults, Outside>>

\* TrialRunner: what it finds out about the run.  A capture whose scored run is
\* unusable, or changed meanwhile, is not evidence of anything.
CellRuns(p) ==
    LET i == job[p].item
        linked == \A s \in Sources[i] : Retained(s)
        unchanged == job[p].of = Gens(i)
    IN
    /\ job[p].step = "run" /\ art[i].st = "open"
    /\ \E status \in {"eligible", "failed", "fatal"} \cup (IF i[1] = "capture" THEN {"mismatch"} ELSE {}) :
         /\ IF status = "eligible" THEN Works ELSE Fails
         /\ Writes(i, [art[i] EXCEPT !.st = "unsealed", !.of = job[p].of,
                       !.status = IF linked /\ unchanged /\ drift = {} THEN status ELSE "fatal"])
    /\ job' = [job EXCEPT ![p].step = "seal"]
    /\ UNCHANGED <<claims, opened, Outside>>

\* SHA256SUMS is the last file of every directory.
Seal(p) ==
    LET i == job[p].item IN
    /\ job[p].step = "seal" /\ Present(i)
    /\ Writes(i, [art[i] EXCEPT !.st = "sealed"])
    /\ Exits(p, IF IsCell(i) /\ art[i].status # "eligible" THEN 2 ELSE 0)
    /\ UNCHANGED <<claims, opened, faults, Outside>>

\* validate_run: the tables are what an eligible result lists; its checksum set is
\* not read.  _validate_matrix_binding: matrix and bag are those of both runs.
EligibleRun(i) == Present(i) /\ art[i].edited # "content" /\ art[i].status = "eligible"
MatrixBinding == drift = {}
PairInputs(i) == (\A s \in Sources[i] : EligibleRun(s)) /\ MatrixBinding

\* _load_result; _matrix_rotation_declared_binding.
ClosedResult(i) == ChecksumBundle(i) /\ drift = {}
MechanismInputs(i) == \A s \in Sources[i] : ClosedResult(s)

\* load_close_receipt and the checks of the bag.
CloseReceipt(i) == ChecksumSet(i)
ReferenceInputs(i) == (\A s \in Sources[i] : CloseReceipt(s)) /\ "bags" \notin drift

\* The bundler reads the capture and follows its link to the scored run.
SequenceResult(i) == ChecksumDirectory(i)
SelectedInputs == GitPins
ScoredLinkage(capture) ==
    /\ \A s \in Sources[capture] : SequenceResult(s)
    /\ art[capture].of = Gens(capture)
GeometryInputs(i) ==
    LET capture == <<"capture", i[2], i[3]>> IN
    SequenceResult(capture) /\ SelectedInputs /\ ScoredLinkage(capture)

InputsHold(i) == CASE i[1] = "pair" -> PairInputs(i)
                   [] i[1] = "mechanism" -> MechanismInputs(i)
                   [] i[1] = "tum" -> ReferenceInputs(i)
                   [] OTHER -> GeometryInputs(i)

\* Whether the tool goes on to open the reference of the row.
\* evaluate_rotation_post_pair: the S1 run shows a whole recovery and has its tables.
MechanismEvaluable(i) == art[<<"scored", i[2], "S1">>].status = "eligible"
\* build_bundle: the capture is exactly the scored run; a partial reference is not
\* drawn.
GeometryOpens(i) == Rows[i[2]].full /\ art[<<"capture", i[2], i[3]>>].status = "eligible"

OpensReference(i) == CASE i[1] = "mechanism" -> MechanismEvaluable(i)
                       [] i[1] = "geometry" -> GeometryOpens(i)
                       [] OTHER -> TRUE

\* A tool validates what it was pointed at before it opens the reference.
Open(p) ==
    LET i == job[p].item IN
    /\ job[p].step = "begin" /\ ~IsCell(i)
    /\ IF InputsHold(i) /\ (i[1] = "mechanism" \/ art[i].st = "none")
       THEN /\ job' = [job EXCEPT ![p].step = "evaluate", ![p].of = Gens(i),
                       ![p].status = IF OpensReference(i) THEN "pass" ELSE "fail"]
            /\ opened' = IF OpensReference(i) THEN opened \cup {i[2]} ELSE opened
       ELSE Exits(p, 2) /\ UNCHANGED opened
    /\ UNCHANGED <<art, claims, faults, Outside>>

\* Before it publishes, a tool looks again at what it has read: the pair at every
\* identity of its runs, the mechanism and the bundle at results and checksums, the
\* extraction at its bag only.
PairUnchanged(p) ==
    LET i == job[p].item IN job[p].of = Gens(i) /\ (\A s \in Sources[i] : EligibleRun(s)) /\ drift = {}
MechanismUnchanged(p) == job[p].of = Gens(job[p].item) /\ GitPins
GeometryUnchanged(p) == job[p].of = Gens(job[p].item) /\ drift = {}

Published(p, st) ==
    [st |-> st, gen |-> claims[job[p].item] + 1, of |-> job[p].of, status |-> job[p].status, edited |-> "no"]
Gives(p, a, next) ==
    /\ Writes(job[p].item, a) /\ claims' = [claims EXCEPT ![job[p].item] = @ + 1]
    /\ job' = [job EXCEPT ![p].step = next[1], ![p].exit = next[2]]
Evaluates(p, kind) == job[p].step = "evaluate" /\ job[p].item[1] = kind /\ UNCHANGED <<opened, Outside>>
GivesUp(p) == Exits(p, 2) /\ Works /\ UNCHANGED <<art, claims>>

\* _publish_pair_result: the directory is renamed into place, whole, or not at all.
PublishPair(p) ==
    /\ Evaluates(p, "pair")
    /\ IF PairUnchanged(p) /\ art[job[p].item].st = "none"
       THEN Works /\ Gives(p, Published(p, "sealed"), <<"done", 0>>) ELSE GivesUp(p)

\* One new file, whether the recovery passes or not.
PublishMechanism(p) ==
    /\ Evaluates(p, "mechanism")
    /\ IF MechanismUnchanged(p) /\ art[job[p].item].st = "open"
       THEN \/ Works /\ Gives(p, Published(p, "sealed"), <<"done", IF job[p].status = "pass" THEN 0 ELSE 2>>)
            \/ Fails /\ Gives(p, [Published(p, "sealed") EXCEPT !.status = "fail"], <<"done", 2>>)
       ELSE GivesUp(p)

\* The extraction and the bundle create their directory and fill it, the
\* checksums last.
PublishReference(p) ==
    /\ Evaluates(p, "tum")
    /\ IF "bags" \notin drift /\ art[job[p].item].st = "none"
       THEN Works /\ Gives(p, Published(p, "unsealed"), <<"seal", 0>>) ELSE GivesUp(p)

PublishBundle(p) ==
    /\ Evaluates(p, "geometry")
    /\ IF GeometryUnchanged(p) /\ art[job[p].item].st = "none"
       THEN Works /\ Gives(p, Published(p, "unsealed"), <<"seal", 0>>) ELSE GivesUp(p)

\* The tool or runner dies where it stands.  The bundler takes its own directory
\* back when it is an exception that ends it.
JobDies(p) ==
    LET i == job[p].item IN
    /\ job[p].step \in {"begin", "run", "evaluate", "seal"} /\ Fails
    /\ Exits(p, 9)
    /\ \/ UNCHANGED art
       \/ i[1] = "geometry" /\ job[p].step = "seal" /\ Writes(i, Nothing)
    /\ UNCHANGED <<claims, opened, Outside>>

-----------------------------------------------------------------------------
\* The surroundings

\* Results are taken away between campaigns, and not from under a runner or tool.
InUse(i) == \E p \in Ids : \/ camp[p].pc \notin {"new", "stopped", "done"}
                           \/ job[p].step \notin {"idle", "done"} /\ job[p].item = i

TakeAway(i) ==
    /\ removals < MaxRemovals /\ art[i].st # "none" /\ ~InUse(i)
    /\ art' = [art EXCEPT ![i] = Nothing] /\ removals' = removals + 1
    /\ UNCHANGED <<camp, job, claims, log, opened, drift, agg, faults>>

Edit(i) ==
    /\ art[i].st = "sealed" /\ art[i].edited = "no" /\ i[1] # "mechanism" /\ Fails
    /\ \E e \in {"content", "extra"} : art' = [art EXCEPT ![i].edited = e]
    /\ UNCHANGED <<camp, job, claims, log, opened, drift, agg, removals>>

Drift ==
    /\ drift = {} /\ Fails /\ \E d \in {"git", "bags"} : drift' = {d}
    /\ UNCHANGED <<camp, job, store, log, agg, removals>>

-----------------------------------------------------------------------------
\* cross_dataset_aggregate.py

\* _validate_run_bindings: protocol, matrix, runner and every other input of the
\* run are still there as it found them.
RunBindings == drift = {}
\* _validate_capture_linkage: before and after the capture, the linked result was
\* the one that is there.
CaptureLinked(i) == art[i].of = Gens(i)

\* Exactly the planned results are there, each retained.
CellsHold ==
    /\ \A i \in Cells("scored") \cup Cells("capture") : Retained(i) /\ AggregateDirectory(i)
    /\ RunBindings /\ \A i \in Cells("capture") : CaptureLinked(i)

AggregateCells ==
    /\ agg.pc = "cells" /\ CellsHold
    /\ agg' = [agg EXCEPT !.pc = "derived",
                          !.cells = [i \in Cells("scored") \cup Cells("capture") |-> art[i]]]
    /\ UNCHANGED <<camp, job, store, log, drift, faults, removals>>

ExpectedPairs == {r \in Orders : Rows[r].full /\ \A s \in Systems : agg.cells[<<"scored", r, s>>].status = "eligible"}
Read(i) == [s \in Sources[i] |-> agg.cells[s].gen]

\* Mutant: the pair results are validated the way the campaign adopts them.
PairsHoldSimply == \A r \in {q \in Orders : Rows[q].full} :
                IF r \in ExpectedPairs THEN SimplePublished(Pair(r)) ELSE ~Present(Pair(r))
\* _validate_pair_result, _validate_geometry, _validate_mechanism: made from the
\* results the aggregator has read.
PairsHold == \A r \in {q \in Orders : Rows[q].full} :
                IF r \in ExpectedPairs
                THEN AggregateDirectory(Pair(r)) /\ art[Pair(r)].of = Read(Pair(r))
                ELSE ~Present(Pair(r))
GeometryHolds == \A i \in Cells("geometry") : AggregateDirectory(i) /\ art[i].of = Read(i)
MechanismsHold == \A r \in {q \in Orders : Rows[q].rotation} :
                art[Mechanism(r)].st = "sealed" /\ art[Mechanism(r)].of = Read(Mechanism(r))

Derived == {i \in Items : ~IsCell(i) /\ i[1] # "tum" /\ art[i].st # "none"}

AggregateDerived ==
    /\ agg.pc = "derived"
    /\ agg' = IF PairsHold /\ GeometryHolds /\ MechanismsHold
              THEN [agg EXCEPT !.pc = "published", !.derived = [i \in Derived |-> art[i]]]
              ELSE [agg EXCEPT !.pc = "cells", !.cells = <<>>]
    /\ UNCHANGED <<camp, job, store, log, drift, faults, removals>>

-----------------------------------------------------------------------------
Next ==
    \/ \E p \in Ids :
         \/ \E lane \in {"scored", "capture"} : Start(p, lane)
         \/ StartEvent(p) \/ CaptureGate(p) \/ Look(p) \/ Launch(p) \/ Close(p) \/ Finish(p) \/ Killed(p)
         \/ Claim(p) \/ CellRuns(p) \/ Seal(p) \/ Open(p) \/ JobDies(p)
         \/ PublishPair(p) \/ PublishMechanism(p) \/ PublishReference(p) \/ PublishBundle(p)
    \/ \E i \in Items : TakeAway(i) \/ Edit(i)
    \/ Drift \/ AggregateCells \/ AggregateDerived

Spec == Init /\ [][Next]_vars

-----------------------------------------------------------------------------
\* Whatever dies, is started again or runs beside another campaign, the reference
\* of a row is opened, and the capture lane reaches its estimators, only after
\* the scored cells they wait for are closed for good.
\* (An operator who takes a scored result away reopens it.)
BoundaryHolds ==
    removals = 0 =>
      /\ \A r \in opened : \A s \in Systems : art[<<"scored", r, s>>].st = "sealed"
      /\ (\E i \in Cells("capture") : claims[i] > 0) => \A i \in Cells("scored") : art[i].st = "sealed"

\* A finish event stands for the whole lane: every cell retained, every pair of
\* eligible cells evaluated, every reference and bundle there, whoever made them.
FinishedIsComplete ==
    removals = 0 =>
      \A lane \in finished : \A r \in Orders : \A k \in DOMAIN RowPlan(lane, r) :
         LET i == RowPlan(lane, r)[k] IN
         \/ art[i].st = "sealed" /\ (IsCell(i) => art[i].status # "fatal")
         \/ (i[1] = "pair" /\ \E s \in Sources[i] : art[s].status # "eligible")

\* The report tells one story: every comparison, mechanism and bundle in it was
\* made from the very results it lists, also when results were taken away and
\* made again under an adopted comparison, and while the aggregator read.
ReportIsOneStory ==
    agg.pc = "published" =>
      /\ \A i \in DOMAIN agg.derived :
           agg.derived[i].edited = "no" /\ \A s \in Sources[i] : agg.derived[i].of[s] = agg.cells[s].gen
      /\ \A i \in Cells("capture") :
           LET s == <<"scored", i[2], i[3]>> IN agg.cells[i].of[s] = agg.cells[s].gen
=============================================================================
