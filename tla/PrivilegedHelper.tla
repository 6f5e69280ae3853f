-------------------------- MODULE PrivilegedHelper --------------------------
(***************************************************************************)
(* The root helper of the timing campaign: HelperSession and the data-free *)
(* reversibility trial of cp2_timing_privileged_helper.py over the backend *)
(* of cp2_timing_privileged_backend.py.  A session captures the prior host *)
(* state, makes it durable in a journal, changes the host, lets the client *)
(* take Runs pairs of observations while a guardian thread samples the     *)
(* population, restores the host and seals a receipt.  A session that is   *)
(* killed leaves a pending journal, which blocks every later session until *)
(* recover_pending has restored from it.                                   *)
(*                                                                         *)
(* Controls 1..Steps are what apply changes, in its order; Dma, the last,  *)
(* is a descriptor of the helper and goes with it.  A digest is the value  *)
(* digested; a record that ran into a failed write makes its file torn.    *)
(***************************************************************************)
EXTENDS Integers, Sequences, FiniteSets

CONSTANTS
    Steps,        \* persistent controls of the frozen profile
    Runs,         \* FORMAL_RUN_COUNT
    MaxSamples,   \* GuardianEvidenceContract.maximum_observation_count
    MaxSessions,  \* bound: helper processes started
    MaxFaults,    \* bound: operations that fail or commands that are wrong
    MaxKills      \* bound: helpers killed

VARIABLES
    changed,   \* controls of the host that are not at their prior value
    journal,   \* the pending file: [at, whole, sid]
    h,         \* the helper process
    guard,     \* the guardian thread: "off", "waiting", "sampling", "ended", "failed"
    script,    \* the transcript: a sequence of events
    gev,       \* guardian evidence: [rows, sealed, late]
    cev,       \* control evidence: [phases, whole, sealed]
    archive,   \* what finished sessions left: a sequence
    faults, kills, sessions

files == <<script, gev, cev>>
budget == <<faults, kills, sessions>>
vars == <<changed, journal, h, guard, files, archive, budget>>

Persistent == 1..Steps
Dma == Steps + 1
Controls == 1..Dma

None == "none"
Success == <<"prior", "applied", "restored">>
FailClosed == <<"prior", "restored">>
NoJournal == [at |-> "absent", whole |-> TRUE, sid |-> 0]
NoGev == [rows |-> 0, sealed |-> FALSE, late |-> FALSE]
NoCev == [phases |-> <<>>, whole |-> TRUE, sealed |-> FALSE]

\* A helper that is not there.
Off == [pc |-> "off", kind |-> None, sid |-> 0, state |-> "new", pos |-> 0, slot |-> 0,
        prior |-> FALSE, held |-> FALSE, mutable |-> FALSE, preflight |-> FALSE,
        started |-> FALSE, active |-> FALSE, stops |-> 0, seal |-> FALSE, poperr |-> FALSE,
        tried |-> FALSE, try |-> None, abnormal |-> FALSE, errs |-> FALSE, err |-> None]

Init ==
    /\ changed = {} /\ journal = NoJournal /\ h = Off /\ guard = "off"
    /\ script = <<>> /\ gev = NoGev /\ cev = NoCev /\ archive = <<>>
    /\ faults = 0 /\ kills = 0 /\ sessions = 0

-----------------------------------------------------------------------------
\* Failing operations, journal and evidence files

Fails == faults < MaxFaults /\ faults' = faults + 1 /\ UNCHANGED <<kills, sessions>>
Works == UNCHANGED budget

\* _DurableJournal.append raised: the record may have gone out in part.
TearJournal == journal' \in {journal, [journal EXCEPT !.whole = FALSE]}

\* _verify_complete_chain, then the pending file is renamed.
CompleteJournal == journal.whole /\ journal' = NoJournal

\* ControlEvidenceWriter.append: the phases that may follow.
MayAppend(c, phase) ==
    /\ ~c.sealed /\ c.whole
    /\ phase \in CASE c.phases = <<>> -> {"prior"}
                   [] c.phases = <<"prior">> -> {"applied", "restored"}
                   [] c.phases = <<"prior", "applied">> -> {"restored"}
                   [] OTHER -> {}

AppendPhase(phase) ==
    MayAppend(cev, phase) /\ cev' = [cev EXCEPT !.phases = Append(@, phase)]

\* A row that could not be written whole is found by every later read.
TearEvidence == cev' \in {cev, [cev EXCEPT !.whole = FALSE]}

\* ControlEvidenceWriter.seal.
MaySeal(c) == ~c.sealed /\ c.whole /\ c.phases \in {Success, FailClosed}

\* GuardianEvidenceWriter.append; after the seal it only leaves its mark.
GuardianAppend ==
    IF gev.sealed THEN gev' = [gev EXCEPT !.late = TRUE]
    ELSE gev.rows < MaxSamples /\ gev' = [gev EXCEPT !.rows = @ + 1]

-----------------------------------------------------------------------------
\* The session's state machine

SuccessNames ==
    <<"challenge", "hello", "apply">> \o [k \in 1..2 * Runs |-> "observation"] \o <<"restore">>

\* _ALLOWED_TRANSITIONS; slot tells the observed states apart.
Allowed(from) ==
    CASE from = "new" -> {"authenticated", "closed"}
      [] from = "authenticated" -> {"capturing_prior", "restoring", "closed"}
      [] from = "capturing_prior" -> {"prior_captured", "restoring", "indeterminate", "closed"}
      [] from = "prior_captured" -> {"applying", "restoring", "indeterminate"}
      [] from = "applying" -> {"applied", "restoring", "indeterminate"}
      [] from = "applied" -> {"observed", "restoring", "indeterminate"}
      [] from = "restoring" -> {"restored", "indeterminate"}
      [] from \in {"restored", "indeterminate"} -> {"closed"}
      [] from = "closed" -> {}
      [] from = "observed" -> {"observed", "restoring", "indeterminate"}

\* The exception handlers of run: out of the requested restoration the error
\* reaches the inner handler, from anywhere else the outer one.
Raised(e) ==
    [h EXCEPT
        !.pc = IF h.try = "outer" THEN "close" ELSE "except",
        !.try = CASE h.try = "normal" -> "inner" [] OTHER -> "outer",
        !.err = IF h.try \in {"inner", "outer"} THEN "indeterminate" ELSE e,
        !.state = IF h.try \in {"inner", "outer"} /\ "indeterminate" \in Allowed(h.state)
                  THEN "indeterminate" ELSE h.state]

\* An error after the transition to state s.
RaisedFrom(s) ==
    [Raised("error") EXCEPT !.state = IF @ = "indeterminate" THEN @ ELSE s]

Goto(l) == [h EXCEPT !.pc = l]

\* The trial's helper ends and lets go of its descriptors.
TrialDies == h' = Off /\ changed' = changed \ {Dma}

\* An event of the transcript; what the verifier compares is in its fields.
Event(e) == [e |-> e, sid |-> h.sid, k |-> 0, phases |-> <<>>, rows |-> 0, down |-> FALSE]

-----------------------------------------------------------------------------
\* Starting a helper

\* One helper at a time holds the directory; a trial or a session begins by
\* looking for a pending journal.
Start ==
    /\ h = Off /\ sessions < MaxSessions /\ sessions' = sessions + 1
    /\ guard = "off"
    /\ script' = <<>> /\ gev' = NoGev /\ cev' = NoCev
    /\ \E kind \in {"session", "trial"} :
        h' = [Off EXCEPT !.pc = "preflight", !.kind = kind, !.sid = sessions + 1]
    /\ UNCHANGED <<changed, journal, guard, archive, faults, kills>>

\* DurableJournalStore.pending at the start of run: whatever is pending, whole
\* or torn, ends the session.
Preflight ==
    /\ h.pc = "preflight" /\ h.kind = "session"
    /\ h' = IF journal.at = "pending" THEN Raised("indeterminate")
            ELSE [Goto("hello") EXCEPT !.preflight = TRUE]
    /\ UNCHANGED <<changed, journal, guard, files, archive, budget>>

\* DurableJournalStore._load: the chain of the pending file is whole.
Loadable == journal.at = "pending" /\ journal.whole

\* production_main: a pending journal is recovered and nothing else is done.
TrialPreflight ==
    /\ h.pc = "preflight" /\ h.kind = "trial"
    /\ \/ /\ journal.at = "absent" /\ h' = Goto("capture") /\ UNCHANGED archive
       \/ /\ Loadable
          /\ h' = [Goto("recover") EXCEPT !.prior = TRUE] /\ UNCHANGED archive
       \/ /\ journal.at = "pending" /\ ~Loadable
          /\ h' = Off /\ UNCHANGED archive
    /\ UNCHANGED <<changed, journal, guard, files, budget>>

\* _handshake; a refused peer, a wrong hello or a broken connection raises with
\* the events that were already written.
Handshake ==
    /\ h.pc = "hello"
    /\ \/ /\ Works /\ script' = <<Event("challenge"), Event("hello")>>
          /\ h' = [Goto("apply") EXCEPT !.state = "authenticated"]
       \/ /\ Fails
          /\ \E n \in 0..2 :
              /\ script' = SubSeq(<<Event("challenge"), Event("hello")>>, 1, n)
              /\ h' = [Raised("error") EXCEPT
                          !.state = IF n = 2 THEN "authenticated" ELSE @]
    /\ UNCHANGED <<changed, journal, guard, gev, cev, archive>>

-----------------------------------------------------------------------------
\* _apply

\* _receive_exact_command, and capture_prior.
CapturePrior ==
    /\ h.pc \in {"apply", "capture"}
    /\ \/ /\ Works
          /\ h' = [Goto("journal") EXCEPT !.state = "capturing_prior", !.prior = TRUE]
       \/ /\ Fails
          /\ \E received \in BOOLEAN :
              h' = IF h.kind = "trial" THEN Off
                   ELSE [Raised("error") EXCEPT
                           !.state = IF received THEN "capturing_prior" ELSE @]
    /\ UNCHANGED <<changed, journal, guard, files, archive>>

\* DurableJournalStore.create: a failure leaves no file, a torn one or a whole
\* one, and no handle on it.
CreateJournal ==
    /\ h.pc = "journal"
    /\ \/ /\ Works /\ journal' = [at |-> "pending", whole |-> TRUE, sid |-> h.sid]
          /\ h' = [Goto(IF h.kind = "trial" THEN "controls" ELSE "evidence") EXCEPT
                      !.held = TRUE, !.pos = 1]
       \/ /\ Fails
          /\ journal' \in {journal} \cup {[at |-> "pending", whole |-> w, sid |-> h.sid] :
                                              w \in BOOLEAN}
          /\ h' = IF h.kind = "trial" THEN Off ELSE Raised("error")
    /\ UNCHANGED <<changed, guard, files, archive>>

\* The prior state becomes evidence and the journal says so; from here on the
\* host may be changed.
PriorEvidence ==
    /\ h.pc = "evidence"
    /\ \/ /\ Works /\ AppendPhase("prior")
          /\ h' = [Goto("controls") EXCEPT !.state = "applying", !.mutable = TRUE]
          /\ UNCHANGED journal
       \/ /\ Fails /\ h' = Raised("error")
          /\ \/ TearEvidence /\ UNCHANGED journal
             \/ AppendPhase("prior") /\ TearJournal
    /\ UNCHANGED <<changed, guard, script, gev, archive>>

\* One step of the backend's apply.  A step may fail and still have changed the
\* control; the trial journals both boundaries of it.
ApplyStep ==
    /\ h.pc = "controls" /\ h.pos <= Dma
    /\ \/ /\ Works /\ changed' = changed \cup {h.pos} /\ UNCHANGED journal
          /\ h' = [h EXCEPT !.pos = @ + 1]
       \/ /\ Fails
          /\ changed' \in {changed, changed \cup {h.pos}}
          /\ IF h.kind = "trial" THEN TearJournal ELSE UNCHANGED journal
          /\ h' = IF h.kind = "trial" THEN [Goto("restore") EXCEPT !.err = "error"]
                  ELSE Raised("error")
    /\ UNCHANGED <<guard, files, archive>>

\* validate_applied reads the whole state back before it becomes evidence.
ValidateApplied ==
    /\ h.pc = "controls" /\ h.pos > Dma
    /\ \/ /\ Works /\ changed = Controls
          /\ IF h.kind = "trial" THEN h' = Goto("restore") /\ UNCHANGED cev
             ELSE AppendPhase("applied") /\ h' = Goto("guard")
       \/ /\ Fails
          /\ IF h.kind = "trial"
             THEN h' = [Goto("restore") EXCEPT !.err = "error"] /\ UNCHANGED cev
             ELSE /\ h' = Raised("error")
                  /\ \/ TearEvidence
                     \/ cev' = [cev EXCEPT !.phases = Append(@, "applied")]
    /\ UNCHANGED <<changed, journal, guard, script, gev, archive>>

\* start_population_guard: the first sample is taken before the thread exists.
StartGuard ==
    /\ h.pc = "guard"
    /\ \/ /\ Works /\ GuardianAppend /\ guard' = "waiting"
          /\ h' = [Goto("applied") EXCEPT !.started = TRUE, !.active = TRUE]
       \/ /\ Fails /\ UNCHANGED <<gev, guard>>
          /\ h' = [Raised("error") EXCEPT !.active = TRUE]
    /\ UNCHANGED <<changed, journal, script, cev, archive>>

\* The end of _apply: the guardian is still well, the journal knows, the
\* transcript has the checkpoint, the client is told.
AcknowledgeApply ==
    /\ h.pc = "applied"
    /\ LET event == [Event("apply") EXCEPT !.phases = cev.phases] IN
       \/ /\ Works /\ guard # "failed" /\ script' = Append(script, event)
          /\ h' = [Goto("observe") EXCEPT !.state = "applied", !.slot = 1]
          /\ UNCHANGED journal
       \/ /\ guard = "failed" /\ Works
          /\ h' = Raised("error") /\ UNCHANGED <<script, journal>>
       \/ /\ Fails
          /\ \/ TearJournal /\ h' = Raised("error") /\ UNCHANGED script
             \/ /\ script' = Append(script, event) /\ UNCHANGED journal
                /\ h' = [Raised("error") EXCEPT !.state = "applied"]
    /\ UNCHANGED <<changed, guard, gev, cev, archive>>

-----------------------------------------------------------------------------
\* The guardian thread

\* _guardian_loop wakes up at its deadline.
GuardWakes ==
    /\ guard = "waiting" /\ guard' = "sampling"
    /\ UNCHANGED <<changed, journal, h, files, archive, budget>>

\* What a sample in progress can come to: appended, or the population, the
\* surfaces, the telemetry, the cadence or the observation bound are wrong.
SampleEnds(well) ==
    IF well THEN changed = Controls /\ gev.rows < MaxSamples /\ Works
    ELSE IF changed = Controls /\ gev.rows < MaxSamples THEN Fails ELSE Works

\* _guardian_once, and the loop's look at the stop event.
GuardSamples ==
    /\ guard \in {"sampling", "stopping"}
    /\ \/ /\ SampleEnds(TRUE) /\ GuardianAppend
          /\ guard' = IF guard = "sampling" THEN "waiting" ELSE "ended"
       \/ SampleEnds(FALSE) /\ guard' = "failed" /\ UNCHANGED gev
    /\ UNCHANGED <<changed, journal, h, script, cev, archive>>

\* The stop event is set and the thread is joined for five seconds: an idle
\* thread ends, one that samples ends, fails or is still at it.
JoinTo(end) ==
    /\ guard' = end
    /\ \/ guard \in {"waiting", "ended"} /\ end = "ended" /\ Works
       \/ guard \in {"off", "failed"} /\ end = guard /\ Works
       \/ guard \in {"sampling", "stopping"} /\ end = "ended" /\ SampleEnds(TRUE)
       \/ guard \in {"sampling", "stopping"} /\ end = "failed" /\ SampleEnds(FALSE)
       \/ guard \in {"sampling", "stopping"} /\ end = "stopping" /\ Fails

RowsAfter(end) ==
    IF guard \in {"sampling", "stopping"} /\ end = "ended" THEN gev.rows + 1 ELSE gev.rows

\* GuardianEvidenceWriter.seal, with the rows of the joined thread.
SealGuardian == gev' = [gev EXCEPT !.rows = RowsAfter("ended"), !.sealed = TRUE]

\* _stop_population_guard_once: stop_population_guard must prove its coverage
\* up to the end, then the evidence is sealed; good says whether both did.
StopOnce(good) ==
    \/ good /\ JoinTo("ended") /\ SealGuardian
    \/ /\ ~good /\ \E end \in {"failed", "stopping"} : JoinTo(end)
       /\ UNCHANGED gev
    \/ /\ ~good /\ guard \in {"waiting", "ended"} /\ guard' = "ended" /\ Fails
       /\ UNCHANGED gev

-----------------------------------------------------------------------------
\* _observe

Phase(k) == IF k % 2 = 1 THEN "pre" ELSE "post"
LastSlot == 2 * Runs

\* _validate_raw_observation_receipt: the receipt is the slot's, complete, equal
\* to its raw bytes, and shows every control applied.  Counters are not compared.
ReceiptValid == changed = Controls

\* The command must name the next slot and the guardian must be well.
Observe ==
    /\ h.pc = "observe" /\ h.slot <= LastSlot
    /\ \/ /\ Works /\ guard # "failed" /\ ReceiptValid
          /\ \E down \in BOOLEAN :
              h' = [Goto("record") EXCEPT !.errs = down /\ Phase(h.slot) = "post"]
       \/ /\ guard = "failed" \/ ~ReceiptValid
          /\ Works /\ h' = Raised("error")
       \/ Fails /\ h' = Raised("error")
    /\ UNCHANGED <<changed, journal, guard, files, archive>>

\* The last observation stops the guardian.
StopGuardAtEnd ==
    /\ h.pc = "record" /\ h.slot = LastSlot /\ h.stops = 0
    /\ \E good \in BOOLEAN :
        /\ StopOnce(good)
        /\ h' = IF good THEN [h EXCEPT !.stops = 1, !.active = FALSE, !.seal = TRUE]
                ELSE [Raised("error") EXCEPT !.stops = 1]
    /\ UNCHANGED <<changed, journal, script, cev, archive>>

\* The observation is journalled, becomes an event, and is acknowledged.
RecordObservation ==
    /\ h.pc = "record" /\ (h.slot = LastSlot => h.seal)
    /\ LET event == [Event("observation") EXCEPT !.k = h.slot, !.down = h.errs,
                        !.rows = IF h.slot = LastSlot THEN gev.rows ELSE 0]
           on == [h EXCEPT !.state = "observed", !.slot = h.slot + 1, !.errs = FALSE]
       IN
       \/ /\ Works /\ script' = Append(script, event)
          /\ h' = [on EXCEPT !.pc = IF h.slot = LastSlot THEN "asked" ELSE "observe"]
          /\ UNCHANGED journal
       \/ /\ Fails
          /\ \/ TearJournal /\ h' = Raised("error") /\ UNCHANGED script
             \/ /\ script' = Append(script, event) /\ UNCHANGED journal
                /\ h' = [Raised("error") EXCEPT !.state = "observed"]
    /\ UNCHANGED <<changed, guard, gev, cev, archive>>

\* The restore command.
AskRestore ==
    /\ h.pc = "asked"
    /\ \/ Works /\ h' = [Goto("restore") EXCEPT !.try = "normal"]
       \/ Fails /\ h' = Raised("error")
    /\ UNCHANGED <<changed, journal, guard, files, archive>>

-----------------------------------------------------------------------------
\* _restore, requested or in an emergency, and the trial's

\* _emergency_restore: nothing to do without a prior state and a journal, and
\* no second attempt from "indeterminate".
Emergency ==
    /\ h.pc = "except"
    /\ LET me == [h EXCEPT !.abnormal = TRUE]
           nothing == ~h.prior \/ ~h.held \/ h.state \in {"restored", "closed"}
           open == h.state = "restoring" \/ "restoring" \in Allowed(h.state)
       IN
       \/ /\ nothing /\ Works /\ UNCHANGED journal
          /\ h' = [me EXCEPT !.pc = IF h.try = "inner" THEN "except" ELSE "close",
                             !.try = "outer"]
       \/ /\ ~nothing /\ ((Works /\ UNCHANGED journal) \/ (Fails /\ TearJournal))
          /\ h' = IF open THEN [me EXCEPT !.pc = "restore"]
                  ELSE [me EXCEPT !.pc = "close", !.err = "indeterminate"]
    /\ UNCHANGED <<changed, guard, files, archive>>

\* The restoration is journalled, then the guardian is stopped - if that was
\* not tried before; its error waits until the host is restored.
RestoreBegins ==
    /\ h.pc = "restore"
    /\ LET unstopped == h.started /\ ~h.seal /\ h.stops = 0
           on == [Goto("undo") EXCEPT !.state = "restoring", !.pos = Dma + 1,
                      !.errs = FALSE, !.tried = TRUE]
       IN
       \/ /\ unstopped /\ UNCHANGED <<changed, journal>>
          /\ \E good \in BOOLEAN :
              /\ StopOnce(good)
              /\ h' = [on EXCEPT !.stops = 1, !.active = ~good, !.seal = good,
                                 !.poperr = ~good]
       \/ /\ ~unstopped /\ Works /\ UNCHANGED <<changed, journal, guard, gev>>
          /\ h' = [on EXCEPT !.poperr = h.started /\ ~h.seal]
       \/ /\ Fails /\ TearJournal /\ UNCHANGED <<guard, gev>>
          /\ IF h.kind = "trial" THEN TrialDies
             ELSE UNCHANGED changed /\ h' = RaisedFrom("restoring")
    /\ UNCHANGED <<script, cev, archive>>

\* One attempt of the backend's restore: the guardian if it is still active,
\* then the controls, newest first.  A failure is noted and the rest is still
\* attempted; the trial journals both boundaries of each attempt.
RestoreStep ==
    /\ h.pc = "undo" /\ h.pos > 0
    /\ \/ /\ h.pos > Dma /\ h.active
          /\ \E end \in {"off", "ended", "failed", "stopping"} :
              /\ JoinTo(end)
              /\ gev' = [gev EXCEPT !.rows = RowsAfter(end)]
              /\ h' = [h EXCEPT !.active = (end = "stopping"), !.pos = @ - 1,
                                !.errs = @ \/ end = "stopping"]
          /\ UNCHANGED <<changed, journal>>
       \/ /\ h.pos > Dma /\ ~h.active
          /\ h' = [h EXCEPT !.pos = @ - 1] /\ Works
          /\ UNCHANGED <<changed, journal, guard, gev>>
       \/ /\ h.pos <= Dma /\ Works /\ changed' = changed \ {h.pos}
          /\ h' = [h EXCEPT !.pos = @ - 1]
          /\ UNCHANGED <<journal, guard, gev>>
       \/ /\ h.pos <= Dma /\ Fails /\ changed' \in {changed, changed \ {h.pos}}
          /\ IF h.kind = "trial" THEN TearJournal ELSE UNCHANGED journal
          /\ h' = [h EXCEPT !.pos = @ - 1, !.errs = TRUE]
          /\ UNCHANGED <<guard, gev>>
    /\ UNCHANGED <<script, cev, archive>>

\* Mutant: the host is not read back and the errors are not looked at.
ValidateRestoredBlind ==
    /\ h.pc = "undo" /\ h.pos = 0 /\ Works
    /\ h' = [Goto("proof") EXCEPT !.mutable = FALSE]
    /\ UNCHANGED <<changed, journal, guard, files, archive>>

\* restore's collected errors, validate_restored, the guardian's error, the
\* comparison with the prior state.
ValidateRestored ==
    /\ h.pc = "undo" /\ h.pos = 0
    /\ \E ok \in BOOLEAN :
        /\ IF ok \/ h.errs \/ h.poperr \/ changed # {} THEN Works ELSE Fails
        /\ IF ok /\ ~h.errs /\ ~h.poperr /\ changed = {}
           THEN h' = [Goto("proof") EXCEPT !.mutable = FALSE] /\ UNCHANGED changed
           ELSE IF h.kind = "trial" THEN TrialDies
           ELSE h' = Raised("error") /\ UNCHANGED changed
    /\ UNCHANGED <<journal, guard, files, archive>>

\* The restored state becomes evidence, once; the evidence is sealed, once.
SealControlEvidence ==
    /\ h.pc = "proof" /\ h.kind = "session"
    /\ LET row == IF cev.phases # <<>> /\ cev.phases[Len(cev.phases)] = "restored"
                  THEN cev ELSE [cev EXCEPT !.phases = Append(@, "restored")]
       IN
       \/ /\ cev.sealed \/ ((row = cev \/ MayAppend(cev, "restored")) /\ MaySeal(row))
          /\ Works /\ h' = Goto("complete")
          /\ cev' = IF cev.sealed THEN cev ELSE [row EXCEPT !.sealed = TRUE]
       \/ /\ ~cev.sealed /\ ~((row = cev \/ MayAppend(cev, "restored")) /\ MaySeal(row))
          /\ Works /\ h' = Raised("error") /\ UNCHANGED cev
       \/ /\ ~cev.sealed /\ MayAppend(cev, "restored")
          /\ Fails /\ (cev' = row \/ TearEvidence)
          /\ \E e \in {"error", "indeterminate"} : h' = Raised(e)
    /\ UNCHANGED <<changed, journal, guard, script, gev, archive>>

\* _DurableJournal.complete, then the state, the transcript and the answer.  A
\* failed fsync comes after the rename.
CompleteRestore ==
    /\ h.pc = "complete"
    /\ LET event == [Event("restore") EXCEPT !.phases = cev.phases, !.down = h.abnormal]
       IN
       \/ /\ CompleteJournal /\ Works
          /\ h' = [h EXCEPT !.state = "restored", !.try = "outer",
                            !.pc = IF h.try = "inner" THEN "except" ELSE "close"]
          /\ script' = Append(script, event)
       \/ /\ ~journal.whole /\ Works /\ h' = Raised("error") /\ UNCHANGED <<journal, script>>
       \/ /\ Fails
          /\ \/ (TearJournal \/ CompleteJournal) /\ h' = Raised("error") /\ UNCHANGED script
             \/ /\ CompleteJournal /\ h.try = "normal"
                /\ script' = Append(script, event)
                /\ h' = [Raised("error") EXCEPT !.state = "restored"]
    /\ UNCHANGED <<changed, guard, gev, cev, archive>>

\* The trial's last steps: descriptors, the last record, the rename.
CompleteTrial ==
    /\ h.pc = "proof" /\ h.kind = "trial"
    /\ \/ CompleteJournal /\ Works
       \/ ~journal.whole /\ UNCHANGED journal /\ Works
       \/ Fails /\ (TearJournal \/ CompleteJournal)
    /\ TrialDies
    /\ UNCHANGED <<guard, files, archive>>

-----------------------------------------------------------------------------
\* The end of a session

\* _seal_terminal_receipt, and the files beside the receipt; passed says whether
\* every descriptor was closed.
LeftBehind(passed) ==
    LET proved == h.preflight /\ ~h.mutable /\ h.err # "indeterminate"
        names == [i \in DOMAIN script |-> script[i].e]
        success == /\ h.err = None /\ passed /\ proved /\ ~h.abnormal
                   /\ h.stops = 1 /\ h.seal /\ cev.sealed /\ cev.phases = Success
                   /\ h.state = "restored" /\ names = SuccessNames
    IN
    [sid |-> h.sid,
     receipt |-> [sid |-> IF Len(script) > 1 THEN h.sid ELSE 0,
         status |-> CASE success -> "success"
                      [] ~success /\ proved /\ passed -> "fail_closed"
                      [] OTHER -> "indeterminate",
         proved |-> proved, passed |-> passed, abnormal |-> h.abnormal,
         stops |-> h.stops, script |-> script,
         rows |-> IF h.seal THEN gev.rows ELSE 0,
         cseal |-> IF cev.sealed THEN cev.phases ELSE <<>>],
     script |-> script, gev |-> [sid |-> h.sid, rows |-> gev.rows],
     cev |-> [sid |-> h.sid, phases |-> cev.phases],
     host |-> changed \ {Dma}, mutable |-> h.mutable, tried |-> h.tried]

\* Every descriptor is closed whatever happened; then the receipt is sealed.
Close ==
    /\ h.pc = "close"
    /\ \E ok \in BOOLEAN, end \in {"off", "ended", "failed", "stopping"} :
        /\ IF h.active THEN JoinTo(end) /\ ok
           ELSE end = "off" /\ UNCHANGED guard /\ (IF ok THEN Works ELSE Fails)
        /\ archive' = Append(archive,
               LeftBehind(/\ ok /\ ~(h.active /\ end = "stopping")
                          /\ ~gev.late /\ cev.whole))
    /\ changed' = changed \ {Dma} /\ h' = Goto("exit")
    /\ UNCHANGED <<journal, files>>

\* The process is gone once its guardian thread is.
Exit ==
    /\ h.pc = "exit" /\ guard \in {"off", "ended", "failed"}
    /\ h' = Off /\ guard' = "off"
    /\ UNCHANGED <<changed, journal, files, archive, budget>>

\* A kill takes the descriptor and the guardian along; the record being written
\* may be left in part.
Kill ==
    /\ h # Off /\ kills < MaxKills /\ kills' = kills + 1
    /\ h' = Off /\ guard' = "off" /\ changed' = changed \ {Dma}
    /\ IF h.held \/ h.pc = "recover" THEN TearJournal ELSE UNCHANGED journal
    /\ UNCHANGED <<files, archive, faults, sessions>>

-----------------------------------------------------------------------------
\* recover_pending

\* Mutant: the last control is forgotten.
RecoverBeginsLow ==
    /\ h.pc = "recover"
    /\ \/ Works /\ UNCHANGED journal /\ h' = [Goto("recovering") EXCEPT !.pos = Steps - 1]
       \/ Fails /\ TearJournal /\ h' = Off
    /\ UNCHANGED <<changed, guard, files, archive>>

\* The replacement control plane is authenticated, the recovery is journalled.
RecoverBegins ==
    /\ h.pc = "recover"
    /\ \/ Works /\ UNCHANGED journal /\ h' = [Goto("recovering") EXCEPT !.pos = Steps]
       \/ Fails /\ TearJournal /\ h' = Off
    /\ UNCHANGED <<changed, guard, files, archive>>

RecoverStep ==
    /\ h.pc = "recovering" /\ h.pos > 0
    /\ \/ Works /\ changed' = changed \ {h.pos} /\ h' = [h EXCEPT !.pos = @ - 1]
       \/ /\ Fails /\ changed' \in {changed, changed \ {h.pos}}
          /\ h' = [h EXCEPT !.pos = @ - 1, !.errs = TRUE]
    /\ UNCHANGED <<journal, guard, files, archive>>

\* validate_external_recovery observes the host; only then is the journal
\* completed.  Any failure leaves it pending.
RecoverCompletes ==
    /\ h.pc = "recovering" /\ h.pos = 0 /\ h' = Off
    /\ \/ ~h.errs /\ changed = {} /\ CompleteJournal /\ Works
       \/ (h.errs \/ changed # {}) /\ UNCHANGED journal /\ Works
       \/ ~h.errs /\ changed = {} /\ Fails /\ (TearJournal \/ CompleteJournal)
    /\ UNCHANGED <<changed, guard, files, archive>>

-----------------------------------------------------------------------------
\* verify_transcript_bytes: detached verification of the four files of a
\* session - receipt r, transcript t, guardian evidence g, control evidence c

\* The receipt's counts and digests are the transcript's.
TerminalBinds(r, t) == r.script = t

\* The events are a prefix of the frozen order, with or without the restoration.
EventOrder(t) ==
    LET names == [i \in DOMAIN t |-> t[i].e]
        restore == names # <<>> /\ names[Len(names)] = "restore"
        kept == IF restore THEN SubSeq(names, 1, Len(names) - 1) ELSE names
    IN Len(kept) < Len(SuccessNames) /\ kept = SubSeq(SuccessNames, 1, Len(kept))

\* What each status must go with.
StatusHolds(r, t) ==
    CASE r.status = "success" ->
            /\ Len(t) = Len(SuccessNames) /\ ~r.abnormal /\ r.proved /\ r.passed
            /\ r.stops = 1 /\ r.cseal # <<>>
      [] r.status = "fail_closed" -> r.proved /\ r.passed
      [] OTHER -> ~(r.proved /\ r.passed)

\* The session's identity follows from the two nonces.
HandshakeBinds(r, t) == Len(t) >= 2 => t[2].sid = r.sid

\* verify_control_evidence_bytes: the seal is this session's, its rows are the
\* file's, and the restored state is the prior one.
ControlEvidenceHolds(c, seal, r) ==
    /\ c.sid = r.sid /\ c.phases = seal.phases /\ seal.phases \in {Success, FailClosed}

\* _verify_control_checkpoint: a prefix of the sealed rows.
CheckpointHolds(c, phases) ==
    Len(phases) \in 1..Len(c.phases) /\ phases = SubSeq(c.phases, 1, Len(phases))

\* Mutant: the rows are not bound to the session.
GuardianEvidenceCounted(g, rows, r) == g.rows = rows /\ rows > 0

\* verify_guardian_evidence_bytes: the rows are all there and this session's.
GuardianEvidenceHolds(g, rows, r) == g.sid = r.sid /\ g.rows = rows /\ rows > 0

\* The observations are the frozen slots in their order; only the last carries
\* the guardian's seal; no counter runs backwards.
ObservationsHold(r, t, g) ==
    \A k \in 1..LastSlot :
        LET o == t[3 + k] IN
        /\ o.k = k /\ ~o.down
        /\ IF k = LastSlot THEN GuardianEvidenceHolds(g, o.rows, r) /\ o.rows = r.rows
           ELSE o.rows = 0

Verify(r, t, g, c) ==
    /\ TerminalBinds(r, t) /\ EventOrder(t) /\ StatusHolds(r, t) /\ HandshakeBinds(r, t)
    /\ LET last == t[Len(t)] IN
       CASE r.status = "success" ->
              /\ ControlEvidenceHolds(c, last, r) /\ last.phases = Success
              /\ CheckpointHolds(c, t[3].phases) /\ Len(t[3].phases) = 2
              /\ last.phases = r.cseal /\ ~last.down
              /\ ObservationsHold(r, t, g)
         [] r.status # "success" /\ r.cseal # <<>> ->
              /\ t # <<>> /\ last.e = "restore"
              /\ ControlEvidenceHolds(c, last, r) /\ last.phases = r.cseal
         [] OTHER -> TRUE

-----------------------------------------------------------------------------
Session ==
    \/ Start \/ Preflight \/ Handshake \/ CapturePrior \/ CreateJournal \/ PriorEvidence
    \/ ApplyStep \/ ValidateApplied \/ StartGuard \/ AcknowledgeApply
    \/ Observe \/ StopGuardAtEnd \/ RecordObservation \/ AskRestore
    \/ Emergency \/ RestoreBegins \/ RestoreStep \/ ValidateRestored
    \/ SealControlEvidence \/ CompleteRestore \/ Close \/ Exit

Recovery == RecoverBegins \/ RecoverStep \/ RecoverCompletes

Next ==
    \/ Session \/ TrialPreflight \/ CompleteTrial \/ Recovery
    \/ GuardWakes \/ GuardSamples \/ Kill

Spec == Init /\ [][Next]_vars

\* A recovery that runs goes on running.
LiveSpec == Spec /\ WF_vars(Recovery)

-----------------------------------------------------------------------------
(***************************************************************************)
(* PendingCoversHost: a persistent control is off its prior value only     *)
(* while a pending journal is on disk, through failures, emergency         *)
(* restorations, kills and recoveries (create before apply, complete after *)
(* the restoration is validated).                                          *)
(***************************************************************************)
PendingCoversHost == changed \cap Persistent # {} => journal.at = "pending"

(***************************************************************************)
(* ReceiptIsTrue: a terminal receipt that claims the restoration is proved *)
(* was sealed over a host at its prior state, and one that claims success  *)
(* followed a guardian that was stopped once and never appended after its  *)
(* seal (_seal_terminal_receipt).                                          *)
(***************************************************************************)
ReceiptIsTrue ==
    \A i \in DOMAIN archive :
        LET a == archive[i] IN
        /\ a.receipt.proved => a.host = {}
        /\ a.receipt.status = "success" =>
               a.receipt.stops = 1 /\ a.gev.rows = a.receipt.rows /\ ~a.mutable

(***************************************************************************)
(* VerifierIsExact: the detached verifier accepts what a session that      *)
(* closed as success or fail_closed left behind, unless a counter ran      *)
(* backwards, and accepts a success only when all four files are of one    *)
(* session.                                                                *)
(***************************************************************************)
VerifierIsExact ==
    /\ \A i \in DOMAIN archive :
         LET a == archive[i] IN
         a.receipt.status # "indeterminate" /\ (\A k \in DOMAIN a.script : ~a.script[k].down
                                                    \/ a.script[k].e = "restore")
            => Verify(a.receipt, a.script, a.gev, a.cev)
    /\ \A i, j, k, l \in DOMAIN archive :
         archive[i].receipt.status = "success"
         /\ Verify(archive[i].receipt, archive[j].script, archive[k].gev, archive[l].cev)
            => {i, j, k, l} = {i}

(***************************************************************************)
(* RecoveryRestores: a recovery from a whole pending journal in which      *)
(* nothing fails and nobody is killed ends with the host at its prior      *)
(* state and no journal pending (recover_pending).                         *)
(***************************************************************************)
RecoveryRestores ==
    h.pc = "recover" /\ faults = MaxFaults /\ kills = MaxKills
        ~> journal.at = "absent" /\ changed = {}

(***************************************************************************)
(* JournalFailureStillRestores: "A journal failure cannot justify skipping *)
(* host restoration" (_emergency_restore): a session that ends by itself   *)
(* and leaves the host changed has at least tried to restore it.           *)
(***************************************************************************)
JournalFailureStillRestores ==
    \A i \in DOMAIN archive : archive[i].host # {} => archive[i].tried
=============================================================================
