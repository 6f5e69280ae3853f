---------------------------- MODULE HostControls ----------------------------
(***************************************************************************)
(* HostControlTransaction of cp2_timing_controls.py: capture the host's    *)
(* settings, journal them, fork a guardian, change the settings, and put   *)
(* them back - on return, on an exception, on a signal, after a crash.     *)
(*                                                                         *)
(* Controls 1..Globals are kernel modules, services and sysfs writes in    *)
(* the order apply changes them; the last two, Local, are the process      *)
(* affinity and the DMA-latency descriptor, which end with the process.    *)
(* A control is either at its captured prior value or in changed.          *)
(***************************************************************************)
EXTENDS Integers, FiniteSets

CONSTANTS
    Globals,      \* number of global controls in the frozen profile
    Preset,       \* controls apply skips: module loaded, service inactive
    Guarded,      \* enable_guardian
    Settle,       \* a signal is handled between commands, not during one
    MaxFaults,    \* bound: operations that fail
    MaxSignals,   \* bound: SIGINT, SIGTERM or SIGHUP deliveries
    MaxKills      \* bound: SIGKILLs of the transaction or the guardian

ASSUME ControlAssumption == Globals \in Nat \ {0} /\ Preset \subseteq 1..Globals
ASSUME SwitchAssumption == Guarded \in BOOLEAN /\ Settle \in BOOLEAN
ASSUME FaultAssumption == {MaxFaults, MaxSignals, MaxKills} \subseteq Nat

VARIABLES
    changed,   \* controls of the host that are not at their prior value
    inflight,  \* the control whose command runs, or 0
    state,     \* HostControlTransaction.state
    pc,        \* what the transaction does next; "dead" once killed
    pos,       \* the control apply or restore is at
    errs,      \* restore's error list is not empty
    abnormal,  \* had_abnormal_recovery
    handlers,  \* the signal handlers are installed
    frame,     \* what the signal handler interrupted
    receipts,  \* the control-state receipts taken
    journal,   \* "none", "whole", or "torn" by a failed append
    guardian,  \* the forked child; "reaped" once the parent knows its end
    gpos, gerrs,  \* the guardian's position and errors
    operator,  \* recover_control_journal: "away", "recovering", "proved", "failed"
    opos, operrs,
    late,      \* history: a command had its effect after its caller died
    faults, signals, kills

host == <<changed, inflight>>
txn == <<state, pc, pos, errs, abnormal, handlers, frame, receipts>>
ward == <<guardian, gpos, gerrs>>
manual == <<operator, opos, operrs>>
budget == <<faults, signals, kills, late>>
vars == <<host, txn, journal, ward, manual, budget>>

Global == 1..Globals
Local == {Globals + 1, Globals + 2}
Controls == Global \cup Local
Last == Globals + 2
NoFrame == [pc |-> "none", pos |-> 0]

Init ==
    /\ changed = {} /\ inflight = 0
    /\ state = "new" /\ pc = "new" /\ pos = 0 /\ errs = FALSE /\ abnormal = FALSE
    /\ handlers = FALSE /\ frame = NoFrame /\ receipts = {}
    /\ journal = "none"
    /\ guardian = "none" /\ gpos = 0 /\ gerrs = FALSE
    /\ operator = "away" /\ opos = 0 /\ operrs = FALSE
    /\ faults = 0 /\ signals = 0 /\ kills = 0 /\ late = FALSE

-----------------------------------------------------------------------------
\* What a step of the program can come to

\* A host command or a journal append either works or raises.
Outcome(ok) ==
    /\ ok \/ faults < MaxFaults
    /\ faults' = IF ok THEN faults ELSE faults + 1
    /\ UNCHANGED <<signals, kills, late>>

\* _JournalHandle.append: a record that could not be written whole tears the
\* journal; later appends do not notice.
AppendRecord(ok) ==
    journal' \in IF ok \/ journal = "none" THEN {journal} ELSE {journal, "torn"}

\* restore, from its first line to the first control.
EnterRestore ==
    /\ state' = "restoring" /\ pc' = "restore" /\ pos' = Last /\ errs' = FALSE

-----------------------------------------------------------------------------
\* apply

\* The privilege, topology or capture step raised: nothing has happened.
ApplyRefused ==
    /\ pc = "new" /\ pc' = "over"
    /\ UNCHANGED <<host, state, pos, errs, abnormal, handlers, frame, receipts,
                   journal, ward, manual, budget>>

\* _capture and _JournalHandle.create; a failed create leaves no journal behind.
Capture ==
    /\ pc = "new"
    /\ receipts' = {"prior"}
    /\ \E ok \in BOOLEAN :
        /\ Outcome(ok)
        /\ IF ok THEN /\ journal' = "whole" /\ state' = "journaled" /\ pc' = "fork"
                      /\ UNCHANGED <<pos, errs>>
                 ELSE journal' = "none" /\ EnterRestore
    /\ UNCHANGED <<host, abnormal, handlers, frame, ward, manual>>

\* The guardian is forked, then the handlers are installed.
ForkGuardian ==
    /\ pc = "fork"
    /\ \E ok \in BOOLEAN :
        /\ Outcome(ok) /\ AppendRecord(ok)
        /\ guardian' = IF ok /\ Guarded THEN "waiting" ELSE guardian
        /\ IF ok THEN /\ handlers' = TRUE /\ state' = "applying"
                      /\ pc' = "apply" /\ pos' = 1 /\ UNCHANGED errs
                 ELSE EnterRestore /\ UNCHANGED handlers
    /\ UNCHANGED <<host, abnormal, frame, receipts, gpos, gerrs, manual>>

\* _mutation up to its command: the checkpoint is journalled and the guardian
\* must still be there.
BeginMutation ==
    /\ pc = "apply" /\ pos \in Controls \ Preset /\ inflight = 0
    /\ \E ok \in BOOLEAN :
        /\ Outcome(ok) /\ AppendRecord(ok)
        /\ guardian' = IF ok /\ guardian = "dead" THEN "reaped" ELSE guardian
        /\ IF ok /\ guardian \in {"none", "waiting"}
           THEN inflight' = pos /\ UNCHANGED <<state, pc, pos, errs>>
           ELSE EnterRestore /\ UNCHANGED inflight
    /\ UNCHANGED <<changed, abnormal, handlers, frame, receipts, gpos, gerrs, manual>>

\* The command ends, its checkpoint is journalled and its effect is read back.
\* A command may fail and still have changed the control.
EndMutation ==
    /\ pc = "apply" /\ inflight # 0 /\ inflight' = 0
    /\ \E ok, effect \in BOOLEAN :
        /\ ok => effect
        /\ Outcome(ok) /\ AppendRecord(ok)
        /\ changed' = IF effect THEN changed \cup {inflight} ELSE changed
        /\ IF ok THEN pos' = pos + 1 /\ UNCHANGED <<state, pc, errs>>
                 ELSE EnterRestore
    /\ UNCHANGED <<abnormal, handlers, frame, receipts, ward, manual>>

\* A module that is loaded or a service that is inactive needs no change.
SkipControl ==
    /\ pc = "apply" /\ pos \in Preset /\ pos' = pos + 1
    /\ UNCHANGED <<host, state, pc, errs, abnormal, handlers, frame, receipts,
                   journal, ward, manual, budget>>

\* validate_applied and the applied receipt.
ValidateApplied ==
    /\ pc = "apply" /\ pos > Last
    /\ \E ok \in BOOLEAN :
        /\ Outcome(ok) /\ AppendRecord(ok)
        /\ IF ok /\ changed = Controls \ Preset
           THEN /\ state' = "applied" /\ pc' = "applied"
                /\ receipts' = receipts \cup {"applied"}
                /\ UNCHANGED <<pos, errs>>
           ELSE EnterRestore /\ UNCHANGED receipts
    /\ UNCHANGED <<host, abnormal, handlers, frame, ward, manual>>

\* __exit__: the campaign is over, or it raised.
Exit ==
    /\ pc = "applied" /\ EnterRestore
    /\ UNCHANGED <<host, abnormal, handlers, frame, receipts, journal, ward, manual,
                   budget>>

-----------------------------------------------------------------------------
\* restore

\* One operation of _recover_snapshot_exact, newest change first; its two
\* boundaries are journalled.  A failure is noted and the next control tried.
RestoreControl ==
    /\ pc = "restore" /\ pos \in Controls /\ pos' = pos - 1
    /\ \E ok, effect \in BOOLEAN :
        /\ ok => effect
        /\ Outcome(ok) /\ AppendRecord(ok)
        /\ changed' = IF effect THEN changed \ {pos} ELSE changed
        /\ errs' = (errs \/ ~ok)
    /\ UNCHANGED <<inflight, state, pc, abnormal, handlers, frame, receipts, ward,
                   manual>>

\* Mutant: only the global controls are read back, errors are not counted.
VerifyRestoredGlobals ==
    /\ pc = "restore" /\ pos = 0
    /\ handlers' = FALSE
    /\ \E ok \in BOOLEAN :
        LET wrong == ~ok \/ changed \cap Global # {} IN
        /\ Outcome(ok) /\ AppendRecord(ok)
        /\ errs' = wrong
        /\ receipts' = IF wrong THEN receipts ELSE receipts \cup {"restored"}
        /\ pc' = IF wrong THEN "fallback" ELSE "cancel"
    /\ UNCHANGED <<host, state, pos, abnormal, frame, ward, manual>>

\* _verify_snapshot_exact reads everything back; the state is captured again and
\* compared; the handlers are removed.
VerifyRestored ==
    /\ pc = "restore" /\ pos = 0
    /\ handlers' = FALSE
    /\ \E ok \in BOOLEAN :
        LET wrong == errs \/ ~ok \/ changed # {} IN
        /\ Outcome(ok) /\ AppendRecord(ok)
        /\ errs' = wrong
        /\ receipts' = IF wrong THEN receipts ELSE receipts \cup {"restored"}
        /\ pc' = IF wrong THEN "fallback" ELSE "cancel"
    /\ UNCHANGED <<host, state, pos, abnormal, frame, ward, manual>>

\* The guardian acknowledges its cancellation - or is found dead.
CancelGuardian ==
    /\ pc = "cancel"
    /\ \E ok \in BOOLEAN :
        /\ Outcome(ok) /\ AppendRecord(ok)
        /\ IF ok /\ guardian # "dead"
           THEN /\ guardian' = IF guardian = "waiting" THEN "cancelled" ELSE guardian
                /\ pc' = "remove" /\ UNCHANGED <<state, abnormal>>
           ELSE /\ guardian' = IF guardian = "dead" THEN "reaped" ELSE guardian
                /\ abnormal' = TRUE /\ state' = "indeterminate" /\ pc' = "unwind"
    /\ UNCHANGED <<host, pos, errs, handlers, frame, receipts, gpos, gerrs, manual>>

\* The journal is the last thing to go.
RemoveJournal ==
    /\ pc = "remove" /\ pc' = "unwind"
    /\ \E ok \in BOOLEAN :
        /\ Outcome(ok)
        /\ IF ok THEN journal' = "none" /\ state' = "restored" /\ UNCHANGED abnormal
                 ELSE /\ journal' \in {journal, "none"}
                      /\ state' = "indeterminate" /\ abnormal' = TRUE
    /\ UNCHANGED <<host, pos, errs, handlers, frame, receipts, ward, manual>>

\* Restoration failed: ask the guardian, if there is one to ask.
AskGuardian ==
    /\ pc = "fallback" /\ abnormal' = TRUE
    /\ IF guardian = "waiting"
       THEN /\ guardian' = "recovering" /\ gpos' = Globals /\ gerrs' = FALSE
            /\ pc' = "await" /\ UNCHANGED state
       ELSE /\ guardian' = IF guardian = "dead" THEN "reaped" ELSE guardian
            /\ state' = "indeterminate" /\ pc' = "unwind" /\ UNCHANGED <<gpos, gerrs>>
    /\ UNCHANGED <<host, pos, errs, handlers, frame, receipts, journal, manual, budget>>

HearGuardian ==
    /\ pc = "await" /\ guardian \in {"restored", "failed", "dead"}
    /\ state' = IF guardian = "restored" THEN "recovered_by_guardian" ELSE "indeterminate"
    /\ guardian' = "reaped" /\ pc' = "unwind"
    /\ UNCHANGED <<host, pos, errs, abnormal, handlers, frame, receipts, journal, gpos,
                   gerrs, manual, budget>>

\* restore has returned or raised.  Out of the handler, the exception reaches
\* apply's or __exit__'s call of restore, or the operation of an outer restore;
\* subprocess.run then kills the command it was waiting for.
Unwind ==
    /\ pc = "unwind" /\ frame' = NoFrame
    /\ inflight' = IF frame = NoFrame THEN inflight ELSE 0
    /\ \/ /\ frame = NoFrame \/ (frame.pc \in {"apply", "applied"} /\ state = "restored")
          /\ pc' = "over" /\ UNCHANGED <<state, pos, errs>>
       \/ frame.pc \in {"apply", "applied"} /\ state # "restored" /\ EnterRestore
       \/ /\ frame.pc = "restore"
          /\ pc' = "restore" /\ pos' = frame.pos /\ errs' = TRUE /\ UNCHANGED state
    /\ UNCHANGED <<changed, abnormal, handlers, receipts, journal, ward, manual, budget>>

-----------------------------------------------------------------------------
\* The guardian process

\* Mutant: the guardian only knows of a transaction that was applied.
GuardianWakesLate ==
    /\ pc = "dead" /\ guardian = "waiting" /\ state # "applying"
    /\ guardian' = "recovering" /\ gpos' = Globals /\ gerrs' = FALSE
    /\ UNCHANGED <<host, txn, journal, manual, budget>>

GuardianWakes ==
    /\ pc = "dead" /\ guardian = "waiting"
    /\ guardian' = "recovering" /\ gpos' = Globals /\ gerrs' = FALSE
    /\ UNCHANGED <<host, txn, journal, manual, budget>>

GuardianRestores ==
    /\ guardian = "recovering" /\ gpos > 0 /\ gpos' = gpos - 1
    /\ \E ok, effect \in BOOLEAN :
        /\ ok => effect
        /\ Outcome(ok)
        /\ changed' = IF effect THEN changed \ {gpos} ELSE changed
        /\ gerrs' = (gerrs \/ ~ok)
    /\ UNCHANGED <<inflight, txn, journal, guardian, manual>>

\* The global controls are read back; a torn journal spoils the report.
GuardianReports ==
    /\ guardian = "recovering" /\ gpos = 0
    /\ guardian' = IF ~gerrs /\ changed \cap Global = {} /\ journal = "whole"
                   THEN "restored" ELSE "failed"
    /\ UNCHANGED <<host, txn, journal, gpos, gerrs, manual, budget>>

-----------------------------------------------------------------------------
\* recover_control_journal: the lock on the journal keeps it away from a live
\* transaction or guardian, and a torn journal is refused.
OperatorOpens ==
    /\ operator = "away" /\ journal = "whole"
    /\ pc \in {"dead", "over"} /\ guardian \notin {"waiting", "recovering"}
    /\ operator' = "recovering" /\ opos' = Globals /\ operrs' = FALSE
    /\ UNCHANGED <<host, txn, journal, ward, budget>>

OperatorRestores ==
    /\ operator = "recovering" /\ opos > 0 /\ opos' = opos - 1
    /\ \E ok, effect \in BOOLEAN :
        /\ ok => effect
        /\ Outcome(ok)
        /\ changed' = IF effect THEN changed \ {opos} ELSE changed
        /\ operrs' = (operrs \/ ~ok)
    /\ UNCHANGED <<inflight, txn, journal, ward, operator>>

OperatorReports ==
    /\ operator = "recovering" /\ opos = 0
    /\ operator' = IF ~operrs /\ changed \cap Global = {} THEN "proved" ELSE "failed"
    /\ UNCHANGED <<host, txn, journal, ward, opos, operrs, budget>>

-----------------------------------------------------------------------------
\* Signals, kills and commands that outlive their caller


\* The handler calls restore.  A signal to the process group also ends the
\* guardian, which has the default handlers.
Signal ==
    /\ handlers /\ pc \in {"apply", "applied", "restore"} /\ frame = NoFrame
    /\ signals < MaxSignals /\ signals' = signals + 1
    /\ Settle => inflight = 0
    /\ frame' = [pc |-> pc, pos |-> IF pc = "restore" /\ pos > 0 THEN pos - 1 ELSE pos]
    /\ EnterRestore
    /\ guardian' \in {guardian, IF guardian = "waiting" THEN "dead" ELSE guardian}
    /\ UNCHANGED <<host, abnormal, handlers, receipts, journal, gpos, gerrs, manual,
                   faults, kills, late>>

\* The transaction is killed; its affinity and its descriptor go with it.
Kill ==
    /\ pc \notin {"new", "over", "dead"} /\ pc' = "dead"
    /\ kills < MaxKills /\ kills' = kills + 1
    /\ changed' = changed \ Local
    /\ inflight' = IF inflight \in Local THEN 0 ELSE inflight
    /\ UNCHANGED <<state, pos, errs, abnormal, handlers, frame, receipts, journal, ward,
                   manual, faults, signals, late>>

KillGuardian ==
    /\ guardian \in {"waiting", "recovering"} /\ guardian' = "dead"
    /\ kills < MaxKills /\ kills' = kills + 1
    /\ UNCHANGED <<host, txn, journal, gpos, gerrs, manual, faults, signals, late>>

\* A command whose caller is in its signal handler or dead ends late, with or
\* without effect.
LateCommand ==
    /\ inflight # 0 /\ (pc = "dead" \/ frame # NoFrame) /\ inflight' = 0
    /\ changed' \in {changed, changed \cup {inflight}}
    /\ late' = (late \/ pc = "dead")
    /\ UNCHANGED <<txn, journal, ward, manual, faults, signals, kills>>

-----------------------------------------------------------------------------
Next ==
    \/ ApplyRefused \/ Capture \/ ForkGuardian \/ BeginMutation \/ EndMutation
    \/ SkipControl \/ ValidateApplied \/ Exit
    \/ RestoreControl \/ VerifyRestored \/ CancelGuardian \/ RemoveJournal
    \/ AskGuardian \/ HearGuardian \/ Unwind
    \/ GuardianWakes \/ GuardianRestores \/ GuardianReports
    \/ OperatorOpens \/ OperatorRestores \/ OperatorReports
    \/ Signal \/ Kill \/ KillGuardian \/ LateCommand

Spec == Init /\ [][Next]_vars

\* The processes that are alive keep running; nobody has to call for recovery.
LiveSpec ==
    /\ Spec
    /\ WF_vars(GuardianWakes \/ GuardianRestores \/ GuardianReports)
    /\ WF_vars(EndMutation \/ RestoreControl \/ VerifyRestored \/ CancelGuardian
               \/ RemoveJournal \/ AskGuardian \/ HearGuardian \/ Unwind)

-----------------------------------------------------------------------------
(***************************************************************************)
(* MutationIsJournaled: whatever happens, a global control is off its      *)
(* prior value only while the journal that knows the value is on disk      *)
(* (apply journals first, restore removes the journal last).               *)
(***************************************************************************)
MutationIsJournaled == changed \cap Global # {} => journal # "none"

(***************************************************************************)
(* RestoredIsPrior: when the transaction's state is "restored", the host   *)
(* is as it was captured (restore verifies, then drops its evidence).      *)
(***************************************************************************)
RestoredIsPrior == state = "restored" /\ frame = NoFrame => changed = {}

(***************************************************************************)
(* ProofsHold: when the guardian reports O and when the manual recovery    *)
(* issues its receipt, the global controls are as captured, unless a       *)
(* command of the killed transaction had its effect behind their back.     *)
(***************************************************************************)
ProofsHold ==
    (guardian = "restored" \/ operator = "proved") /\ ~late => changed \cap Global = {}

(***************************************************************************)
(* OneWorker: never do two of the three parties (the transaction, the      *)
(* guardian, the manual recovery) work on the host at a time.              *)
(***************************************************************************)
OneWorker ==
    Cardinality({a \in {"txn", "guardian", "operator"} :
        \/ a = "txn" /\ pc \in {"apply", "restore"}
        \/ a = "guardian" /\ guardian = "recovering"
        \/ a = "operator" /\ operator = "recovering"}) <= 1

(***************************************************************************)
(* TransactionHolds: a control is off its prior value only while its       *)
(* journal is on disk, whoever says the host is restored (the transaction, *)
(* the guardian or the manual recovery) says so of a host at its prior     *)
(* values, and one party works at a time                                   *)
(* (cp2_timing_controls.py HostControlTransaction).                        *)
(***************************************************************************)
TransactionHolds == MutationIsJournaled /\ RestoredIsPrior /\ ProofsHold /\ OneWorker

(***************************************************************************)
(* CrashIsRepaired: once the transaction is dead, a guardian that was      *)
(* waiting for it puts the global controls back, unless it is killed or    *)
(* one of its own commands fails.                                          *)
(***************************************************************************)
CrashIsRepaired ==
    pc = "dead" /\ guardian = "waiting"
        ~> changed \cap Global = {} \/ guardian \in {"dead", "failed"}
=============================================================================
