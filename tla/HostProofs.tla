----------------------------- MODULE HostProofs -----------------------------
(***************************************************************************)
(* The host's controls proved for any profile, any number of threads and   *)
(* any fault, signal and kill bound.                                       *)
(*                                                                         *)
(* The transaction.  What the three parties may do is a matter of who is   *)
(* alive: Alive says which of them can be at work in which phase, and      *)
(* holds however signals are handled.  What they may claim rests on the    *)
(* order of journal and mutation: Covered says so, and holds when a signal *)
(* is handled between two commands (Settle); without Settle RestoredIsPrior*)
(* is violated.                                                            *)
(*                                                                         *)
(* The placement.  A thread that is created starts where its creator is,   *)
(* so what holds of all listed threads holds of all: CaptureIsEnough.      *)
(*                                                                         *)
(* The helper.  A host that a session does not count as changed is at its  *)
(* prior state: NotMutable, whatever failed before.                        *)
(*                                                                         *)
(* Its verifier.  Transcript and evidence are the session's and agree at   *)
(* every stage (SessionInv), so what is archived passes (LeftPasses), and  *)
(* the numbers of the sessions keep archives apart (Numbered).             *)
(*                                                                         *)
(* The timing campaign.  An artifact can only be sealed where its evidence *)
(* passed every join, and evidence that passes them all is of one campaign *)
(* (JoinsAreEnough): TimingInv carries that to the destination name.       *)
(***************************************************************************)
EXTENDS Host, FiniteSetTheorems, SequenceTheorems, TLAPS

-----------------------------------------------------------------------------
\* The transaction

States == {"new", "journaled", "applying", "applied", "restoring", "restored",
           "recovered_by_guardian", "indeterminate"}
Phases == {"new", "fork", "apply", "applied", "restore", "fallback", "await", "cancel",
           "remove", "unwind", "over", "dead"}

\* The ranges of the variables: the controls and where the parties are, ...
TypeControl ==
    /\ changed \subseteq Controls /\ inflight \in Controls \cup {0}
    /\ state \in States /\ pc \in Phases /\ pos \in 0..(Last + 1)
    /\ frame \in [pc : {"none", "apply", "applied", "restore"}, pos : 0..(Last + 1)]
    /\ receipts \subseteq {"prior", "applied", "restored"}
    /\ journal \in {"none", "whole", "torn"}
    /\ guardian \in {"none", "waiting", "recovering", "restored", "failed", "cancelled",
                     "dead", "reaped"}
    /\ gpos \in 0..Globals
    /\ operator \in {"away", "recovering", "proved", "failed"} /\ opos \in 0..Globals

\* ... what was noted, ...
TypeFlags ==
    /\ errs \in BOOLEAN /\ abnormal \in BOOLEAN /\ handlers \in BOOLEAN
    /\ gerrs \in BOOLEAN /\ operrs \in BOOLEAN /\ late \in BOOLEAN

\* ... and what went wrong, within its bounds.
TypeBudget ==
    /\ faults \in 0..MaxFaults /\ signals \in 0..MaxSignals /\ kills \in 0..MaxKills

TypeOK == TypeControl /\ TypeFlags /\ TypeBudget

\* A command the transaction still waits for is the one of the control it is at.
AtItsControl ==
    /\ pc \in {"new", "fork"} => inflight = 0
    /\ pc = "apply" /\ inflight # 0 => inflight = pos /\ pos \notin Preset

\* The guardian works, and is heard, only while the transaction waits for it or
\* is dead; the manual recovery only once both are gone.
Alive ==
    /\ guardian \in {"recovering", "restored", "failed"} => pc \in {"await", "dead"}
    /\ operator # "away" => pc \in {"dead", "over"} /\ guardian \notin {"waiting", "recovering"}

\* Without a journal nothing is changed and nothing will be.
JournalFirst ==
    journal = "none" => changed = {} /\ inflight = 0 /\ pc \notin {"fork", "apply", "applied"}

\* A command is under way only in apply, or after the transaction died in it.
CommandInApply == inflight # 0 => pc \in {"apply", "dead"} /\ state # "restored"

\* From the verification on, and once the state is "restored", nothing is changed.
VerifiedIsPrior ==
    /\ pc \in {"new", "cancel", "remove"} => changed = {}
    /\ state = "restored" => changed = {} /\ pc \notin {"new", "fork", "apply", "applied"}

\* The inductive invariant behind TransactionHolds, for a transaction whose
\* signals are handled between two commands.
Covered == JournalFirst /\ CommandInApply /\ VerifiedIsPrior /\ ProofsHold

-----------------------------------------------------------------------------
USE ControlAssumption, SwitchAssumption, FaultAssumption

\* Every step keeps the parties at a control and in a phase.
LEMMA ControlStep ==
    ASSUME TypeControl, AtItsControl, [Next]_vars
    PROVE  TypeControl' /\ AtItsControl'
<1> USE DEF TypeControl, AtItsControl, States, Phases, Controls, Global, Local, Last,
        NoFrame
<1>1. CASE ApplyRefused
  BY <1>1 DEF ApplyRefused, host, ward, manual, budget
<1>2. CASE Capture
  BY <1>2 DEF Capture, Outcome, EnterRestore, host, ward, manual
<1>3. CASE ForkGuardian
  BY <1>3 DEF ForkGuardian, Outcome, AppendRecord, EnterRestore, host, manual
<1>4. CASE BeginMutation
  BY <1>4 DEF BeginMutation, Outcome, AppendRecord, EnterRestore, manual
<1>5. CASE EndMutation
  BY <1>5 DEF EndMutation, Outcome, AppendRecord, EnterRestore, ward, manual
<1>6. CASE SkipControl
  BY <1>6 DEF SkipControl, host, ward, manual, budget
<1>7. CASE ValidateApplied
  <2>1. receipts' \subseteq {"prior", "applied", "restored"}
    BY <1>7 DEF ValidateApplied, TypeControl
  <2>2. pc' \in {"applied", "restore"} /\ pos' \in 0..(Last + 1) /\ state' \in States
    BY <1>7 DEF ValidateApplied, EnterRestore, TypeControl, States, Last
  <2>3. journal' \in {"none", "whole", "torn"}
    BY <1>7 DEF ValidateApplied, AppendRecord, TypeControl
  <2>4. UNCHANGED <<host, frame, ward, manual>>
    BY <1>7 DEF ValidateApplied
  <2> QED  BY <2>1, <2>2, <2>3, <2>4 DEF host, ward, manual
<1>8. CASE Exit
  BY <1>8 DEF Exit, EnterRestore, host, ward, manual, budget
<1>9. CASE RestoreControl
  BY <1>9 DEF RestoreControl, Outcome, AppendRecord, ward, manual
<1>10. CASE VerifyRestored
  BY <1>10 DEF VerifyRestored, Outcome, AppendRecord, host, ward, manual
<1>11. CASE CancelGuardian
  BY <1>11 DEF CancelGuardian, Outcome, AppendRecord, host, manual
<1>12. CASE RemoveJournal
  BY <1>12 DEF RemoveJournal, Outcome, host, ward, manual
<1>13. CASE AskGuardian
  BY <1>13 DEF AskGuardian, host, manual, budget
<1>14. CASE HearGuardian
  BY <1>14 DEF HearGuardian, host, manual, budget
<1>15. CASE Unwind
  BY <1>15 DEF Unwind, EnterRestore, ward, manual, budget
<1>16. CASE GuardianWakes
  BY <1>16 DEF GuardianWakes, host, txn, manual, budget
<1>17. CASE GuardianRestores
  BY <1>17 DEF GuardianRestores, Outcome, txn, manual
<1>18. CASE GuardianReports
  BY <1>18 DEF GuardianReports, host, txn, manual, budget
<1>19. CASE OperatorOpens
  BY <1>19 DEF OperatorOpens, host, txn, ward, budget
<1>20. CASE OperatorRestores
  BY <1>20 DEF OperatorRestores, Outcome, txn, ward
<1>21. CASE OperatorReports
  BY <1>21 DEF OperatorReports, host, txn, ward, budget
<1>22. CASE Signal
  BY <1>22 DEF Signal, EnterRestore, host, manual
<1>23. CASE Kill
  BY <1>23 DEF Kill, ward, manual
<1>24. CASE KillGuardian
  BY <1>24 DEF KillGuardian, host, txn, manual
<1>25. CASE LateCommand
  BY <1>25 DEF LateCommand, txn, ward, manual
<1>26. CASE UNCHANGED vars
  BY <1>26 DEF vars, host, txn, ward, manual, budget
<1> QED  BY <1>1, <1>2, <1>3, <1>4, <1>5, <1>6, <1>7, <1>8, <1>9, <1>10, <1>11, <1>12,
     <1>13, <1>14, <1>15, <1>16, <1>17, <1>18, <1>19, <1>20, <1>21, <1>22, <1>23, <1>24,
     <1>25, <1>26 DEF Next

\* Every step keeps the flags Boolean.
LEMMA FlagStep ==
    ASSUME TypeFlags, [Next]_vars
    PROVE  TypeFlags'
<1> USE DEF TypeFlags
<1>1. CASE ApplyRefused
  BY <1>1 DEF ApplyRefused, host, ward, manual, budget
<1>2. CASE Capture
  BY <1>2 DEF Capture, Outcome, EnterRestore, host, ward, manual
<1>3. CASE ForkGuardian
  BY <1>3 DEF ForkGuardian, Outcome, AppendRecord, EnterRestore, host, manual
<1>4. CASE BeginMutation
  BY <1>4 DEF BeginMutation, Outcome, AppendRecord, EnterRestore, manual
<1>5. CASE EndMutation
  BY <1>5 DEF EndMutation, Outcome, AppendRecord, EnterRestore, ward, manual
<1>6. CASE SkipControl
  BY <1>6 DEF SkipControl, host, ward, manual, budget
<1>7. CASE ValidateApplied
  BY <1>7 DEF ValidateApplied, Outcome, AppendRecord, EnterRestore, host, ward, manual
<1>8. CASE Exit
  BY <1>8 DEF Exit, EnterRestore, host, ward, manual, budget
<1>9. CASE RestoreControl
  BY <1>9 DEF RestoreControl, Outcome, AppendRecord, ward, manual
<1>10. CASE VerifyRestored
  BY <1>10 DEF VerifyRestored, Outcome, AppendRecord, host, ward, manual
<1>11. CASE CancelGuardian
  BY <1>11 DEF CancelGuardian, Outcome, AppendRecord, host, manual
<1>12. CASE RemoveJournal
  BY <1>12 DEF RemoveJournal, Outcome, host, ward, manual
<1>13. CASE AskGuardian
  BY <1>13 DEF AskGuardian, host, manual, budget
<1>14. CASE HearGuardian
  BY <1>14 DEF HearGuardian, host, manual, budget
<1>15. CASE Unwind
  BY <1>15 DEF Unwind, EnterRestore, ward, manual, budget
<1>16. CASE GuardianWakes
  BY <1>16 DEF GuardianWakes, host, txn, manual, budget
<1>17. CASE GuardianRestores
  BY <1>17 DEF GuardianRestores, Outcome, txn, manual
<1>18. CASE GuardianReports
  BY <1>18 DEF GuardianReports, host, txn, manual, budget
<1>19. CASE OperatorOpens
  BY <1>19 DEF OperatorOpens, host, txn, ward, budget
<1>20. CASE OperatorRestores
  BY <1>20 DEF OperatorRestores, Outcome, txn, ward
<1>21. CASE OperatorReports
  BY <1>21 DEF OperatorReports, host, txn, ward, budget
<1>22. CASE Signal
  BY <1>22 DEF Signal, EnterRestore, host, manual
<1>23. CASE Kill
  BY <1>23 DEF Kill, ward, manual
<1>24. CASE KillGuardian
  BY <1>24 DEF KillGuardian, host, txn, manual
<1>25. CASE LateCommand
  BY <1>25 DEF LateCommand, txn, ward, manual
<1>26. CASE UNCHANGED vars
  BY <1>26 DEF vars, host, txn, ward, manual, budget
<1> QED  BY <1>1, <1>2, <1>3, <1>4, <1>5, <1>6, <1>7, <1>8, <1>9, <1>10, <1>11, <1>12,
     <1>13, <1>14, <1>15, <1>16, <1>17, <1>18, <1>19, <1>20, <1>21, <1>22, <1>23, <1>24,
     <1>25, <1>26 DEF Next

\* No step exceeds a bound.
LEMMA BudgetStep ==
    ASSUME TypeBudget, [Next]_vars
    PROVE  TypeBudget'
<1> USE DEF TypeBudget
<1>1. CASE ApplyRefused
  BY <1>1 DEF ApplyRefused, host, ward, manual, budget
<1>2. CASE Capture
  BY <1>2 DEF Capture, Outcome, EnterRestore, host, ward, manual
<1>3. CASE ForkGuardian
  BY <1>3 DEF ForkGuardian, Outcome, AppendRecord, EnterRestore, host, manual
<1>4. CASE BeginMutation
  BY <1>4 DEF BeginMutation, Outcome, AppendRecord, EnterRestore, manual
<1>5. CASE EndMutation
  BY <1>5 DEF EndMutation, Outcome, AppendRecord, EnterRestore, ward, manual
<1>6. CASE SkipControl
  BY <1>6 DEF SkipControl, host, ward, manual, budget
<1>7. CASE ValidateApplied
  BY <1>7 DEF ValidateApplied, Outcome, AppendRecord, EnterRestore, host, ward, manual
<1>8. CASE Exit
  BY <1>8 DEF Exit, EnterRestore, host, ward, manual, budget
<1>9. CASE RestoreControl
  BY <1>9 DEF RestoreControl, Outcome, AppendRecord, ward, manual
<1>10. CASE VerifyRestored
  BY <1>10 DEF VerifyRestored, Outcome, AppendRecord, host, ward, manual
<1>11. CASE CancelGuardian
  BY <1>11 DEF CancelGuardian, Outcome, AppendRecord, host, manual
<1>12. CASE RemoveJournal
  BY <1>12 DEF RemoveJournal, Outcome, host, ward, manual
<1>13. CASE AskGuardian
  BY <1>13 DEF AskGuardian, host, manual, budget
<1>14. CASE HearGuardian
  BY <1>14 DEF HearGuardian, host, manual, budget
<1>15. CASE Unwind
  BY <1>15 DEF Unwind, EnterRestore, ward, manual, budget
<1>16. CASE GuardianWakes
  BY <1>16 DEF GuardianWakes, host, txn, manual, budget
<1>17. CASE GuardianRestores
  BY <1>17 DEF GuardianRestores, Outcome, txn, manual
<1>18. CASE GuardianReports
  BY <1>18 DEF GuardianReports, host, txn, manual, budget
<1>19. CASE OperatorOpens
  BY <1>19 DEF OperatorOpens, host, txn, ward, budget
<1>20. CASE OperatorRestores
  BY <1>20 DEF OperatorRestores, Outcome, txn, ward
<1>21. CASE OperatorReports
  BY <1>21 DEF OperatorReports, host, txn, ward, budget
<1>22. CASE Signal
  BY <1>22 DEF Signal, EnterRestore, host, manual
<1>23. CASE Kill
  BY <1>23 DEF Kill, ward, manual
<1>24. CASE KillGuardian
  BY <1>24 DEF KillGuardian, host, txn, manual
<1>25. CASE LateCommand
  BY <1>25 DEF LateCommand, txn, ward, manual
<1>26. CASE UNCHANGED vars
  BY <1>26 DEF vars, host, txn, ward, manual, budget
<1> QED  BY <1>1, <1>2, <1>3, <1>4, <1>5, <1>6, <1>7, <1>8, <1>9, <1>10, <1>11, <1>12,
     <1>13, <1>14, <1>15, <1>16, <1>17, <1>18, <1>19, <1>20, <1>21, <1>22, <1>23, <1>24,
     <1>25, <1>26 DEF Next

\* No step brings a party to work beside another.
LEMMA AliveStep ==
    ASSUME TypeOK, Alive, [Next]_vars
    PROVE  Alive'
<1> USE DEF TypeOK, TypeControl, Alive, Phases
<1>1. CASE ApplyRefused
  BY <1>1 DEF ApplyRefused, host, ward, manual, budget
<1>2. CASE Capture
  BY <1>2 DEF Capture, Outcome, EnterRestore, host, ward, manual
<1>3. CASE ForkGuardian
  BY <1>3 DEF ForkGuardian, Outcome, AppendRecord, EnterRestore, host, manual
<1>4. CASE BeginMutation
  BY <1>4 DEF BeginMutation, Outcome, AppendRecord, EnterRestore, manual
<1>5. CASE EndMutation
  BY <1>5 DEF EndMutation, Outcome, AppendRecord, EnterRestore, ward, manual
<1>6. CASE SkipControl
  BY <1>6 DEF SkipControl, host, ward, manual, budget
<1>7. CASE ValidateApplied
  BY <1>7 DEF ValidateApplied, Outcome, AppendRecord, EnterRestore, host, ward, manual
<1>8. CASE Exit
  BY <1>8 DEF Exit, EnterRestore, host, ward, manual, budget
<1>9. CASE RestoreControl
  BY <1>9 DEF RestoreControl, Outcome, AppendRecord, ward, manual
<1>10. CASE VerifyRestored
  BY <1>10 DEF VerifyRestored, Outcome, AppendRecord, host, ward, manual
<1>11. CASE CancelGuardian
  BY <1>11 DEF CancelGuardian, Outcome, AppendRecord, host, manual
<1>12. CASE RemoveJournal
  BY <1>12 DEF RemoveJournal, Outcome, host, ward, manual
<1>13. CASE AskGuardian
  BY <1>13 DEF AskGuardian, host, manual, budget
<1>14. CASE HearGuardian
  BY <1>14 DEF HearGuardian, host, manual, budget
<1>15. CASE Unwind
  BY <1>15 DEF Unwind, EnterRestore, ward, manual, budget
<1>16. CASE GuardianWakes
  BY <1>16 DEF GuardianWakes, host, txn, manual, budget
<1>17. CASE GuardianRestores
  BY <1>17 DEF GuardianRestores, Outcome, txn, manual
<1>18. CASE GuardianReports
  BY <1>18 DEF GuardianReports, host, txn, manual, budget
<1>19. CASE OperatorOpens
  BY <1>19 DEF OperatorOpens, host, txn, ward, budget
<1>20. CASE OperatorRestores
  BY <1>20 DEF OperatorRestores, Outcome, txn, ward
<1>21. CASE OperatorReports
  BY <1>21 DEF OperatorReports, host, txn, ward, budget
<1>22. CASE Signal
  BY <1>22 DEF Signal, EnterRestore, host, manual
<1>23. CASE Kill
  BY <1>23 DEF Kill, ward, manual
<1>24. CASE KillGuardian
  BY <1>24 DEF KillGuardian, host, txn, manual
<1>25. CASE LateCommand
  BY <1>25 DEF LateCommand, txn, ward, manual
<1>26. CASE UNCHANGED vars
  BY <1>26 DEF vars, host, txn, ward, manual, budget
<1> QED  BY <1>1, <1>2, <1>3, <1>4, <1>5, <1>6, <1>7, <1>8, <1>9, <1>10, <1>11, <1>12,
     <1>13, <1>14, <1>15, <1>16, <1>17, <1>18, <1>19, <1>20, <1>21, <1>22, <1>23, <1>24,
     <1>25, <1>26 DEF Next

\* No step leaves a change uncovered by the journal.
LEMMA CoveredStep ==
    ASSUME Settle, TypeOK, AtItsControl, Alive, Covered, [Next]_vars
    PROVE  Covered'
<1> USE DEF TypeOK, TypeControl, TypeFlags, AtItsControl, Alive, Covered, JournalFirst,
        CommandInApply, VerifiedIsPrior, ProofsHold
<1>1. CASE ApplyRefused
  BY <1>1 DEF ApplyRefused, host, ward, manual, budget
<1>2. CASE Capture
  BY <1>2 DEF Capture, Outcome, EnterRestore, host, ward, manual
<1>3. CASE ForkGuardian
  BY <1>3 DEF ForkGuardian, Outcome, AppendRecord, EnterRestore, host, manual
<1>4. CASE BeginMutation
  BY <1>4 DEF BeginMutation, Outcome, AppendRecord, EnterRestore, manual
<1>5. CASE EndMutation
  BY <1>5 DEF EndMutation, Outcome, AppendRecord, EnterRestore, ward, manual
<1>6. CASE SkipControl
  BY <1>6 DEF SkipControl, host, ward, manual, budget
<1>7. CASE ValidateApplied
  BY <1>7 DEF ValidateApplied, Outcome, AppendRecord, EnterRestore, host, ward, manual,
       Controls, Global, Local, Last
<1>8. CASE Exit
  BY <1>8 DEF Exit, EnterRestore, host, ward, manual, budget
<1>9. CASE RestoreControl
  BY <1>9 DEF RestoreControl, Outcome, AppendRecord, ward, manual
<1>10. CASE VerifyRestored
  BY <1>10 DEF VerifyRestored, Outcome, AppendRecord, host, ward, manual
<1>11. CASE CancelGuardian
  BY <1>11 DEF CancelGuardian, Outcome, AppendRecord, host, manual
<1>12. CASE RemoveJournal
  BY <1>12 DEF RemoveJournal, Outcome, host, ward, manual
<1>13. CASE AskGuardian
  BY <1>13 DEF AskGuardian, host, manual, budget
<1>14. CASE HearGuardian
  BY <1>14 DEF HearGuardian, host, manual, budget
<1>15. CASE Unwind
  BY <1>15 DEF Unwind, EnterRestore, ward, manual, budget
<1>16. CASE GuardianWakes
  BY <1>16 DEF GuardianWakes, host, txn, manual, budget
<1>17. CASE GuardianRestores
  BY <1>17 DEF GuardianRestores, Outcome, txn, manual
<1>18. CASE GuardianReports
  BY <1>18 DEF GuardianReports, host, txn, manual, budget
<1>19. CASE OperatorOpens
  BY <1>19 DEF OperatorOpens, host, txn, ward, budget
<1>20. CASE OperatorRestores
  BY <1>20 DEF OperatorRestores, Outcome, txn, ward
<1>21. CASE OperatorReports
  BY <1>21 DEF OperatorReports, host, txn, ward, budget
<1>22. CASE Signal
  BY <1>22 DEF Signal, EnterRestore, host, manual
<1>23. CASE Kill
  BY <1>23 DEF Kill, ward, manual
<1>24. CASE KillGuardian
  BY <1>24 DEF KillGuardian, host, txn, manual
<1>25. CASE LateCommand
  BY <1>25 DEF LateCommand, txn, ward, manual
<1>26. CASE UNCHANGED vars
  BY <1>26 DEF vars, host, txn, ward, manual, budget
<1> QED  BY <1>1, <1>2, <1>3, <1>4, <1>5, <1>6, <1>7, <1>8, <1>9, <1>10, <1>11, <1>12,
     <1>13, <1>14, <1>15, <1>16, <1>17, <1>18, <1>19, <1>20, <1>21, <1>22, <1>23, <1>24,
     <1>25, <1>26 DEF Next

-----------------------------------------------------------------------------
\* The initial state is in the ranges.
LEMMA InitTyped == Init => TypeOK /\ AtItsControl
<1> SUFFICES ASSUME Init PROVE TypeOK /\ AtItsControl
  OBVIOUS
<1>1. 0 \in 0..(Last + 1) /\ 0 \in 0..Globals
  BY DEF Last
<1>2. TypeControl
  BY <1>1 DEF Init, TypeControl, States, Phases, NoFrame
<1>3. TypeFlags /\ AtItsControl
  BY DEF Init, TypeFlags, AtItsControl
<1>4. MaxFaults \in Nat /\ MaxSignals \in Nat /\ MaxKills \in Nat
  OBVIOUS
<1>5. TypeBudget
  BY <1>4 DEF Init, TypeBudget
<1> QED  BY <1>2, <1>3, <1>5 DEF TypeOK

(***************************************************************************)
(* TypeCorrect: the transaction, its guardian and the manual recovery stay *)
(* at a control of the profile and in a known phase, for any profile and   *)
(* however many faults, signals and kills (HostControlTransaction).        *)
(***************************************************************************)
THEOREM TypeCorrect == Spec => []TypeOK
<1>1. Init => TypeOK /\ AtItsControl
  BY InitTyped
<1>2. TypeOK /\ AtItsControl /\ [Next]_vars => TypeOK' /\ AtItsControl'
  BY ControlStep, FlagStep, BudgetStep DEF TypeOK
<1> QED  BY <1>1, <1>2, PTL DEF Spec

\* The part of the argument that needs no assumption on the signals.
LEMMA AliveAlways == Spec => [](TypeOK /\ AtItsControl /\ Alive)
<1>1. Init => TypeOK /\ AtItsControl /\ Alive
  BY InitTyped DEF Init, Alive
<1>2. TypeOK /\ AtItsControl /\ Alive /\ [Next]_vars => TypeOK' /\ AtItsControl' /\ Alive'
  BY ControlStep, FlagStep, BudgetStep, AliveStep DEF TypeOK
<1> QED  BY <1>1, <1>2, PTL DEF Spec

\* Two parties at work would be one that Alive rules out.
LEMMA AliveIsOneWorker == Alive => OneWorker
<1> DEFINE Working == {a \in {"txn", "guardian", "operator"} :
                          \/ a = "txn" /\ pc \in {"apply", "restore"}
                          \/ a = "guardian" /\ guardian = "recovering"
                          \/ a = "operator" /\ operator = "recovering"}
<1> SUFFICES ASSUME Alive PROVE Cardinality(Working) <= 1
  BY DEF OneWorker
<1>1. \A a, b \in Working : a = b
  BY DEF Alive
<1>2. CASE Working = {}
  BY <1>2, FS_EmptySet
<1>3. CASE Working # {}
  <2>1. PICK a : a \in Working
    BY <1>3
  <2>2. Working = {a}
    BY <1>1, <2>1
  <2>3. Cardinality({a}) = 1
    BY FS_Singleton
  <2> QED  BY <2>2, <2>3
<1> QED  BY <1>2, <1>3

(***************************************************************************)
(* OneWorkerAlways: however a signal is handled, at most one of the        *)
(* transaction, the guardian and the manual recovery changes the host      *)
(* (the journal's lock, the guardian's wait for end of file or a request). *)
(***************************************************************************)
THEOREM OneWorkerAlways == Spec => []OneWorker
BY AliveAlways, AliveIsOneWorker, PTL

(***************************************************************************)
(* TransactionIsSafe: with signals handled between two commands, a change  *)
(* of the host is always covered by the journal and every claim that the   *)
(* host is restored is true, for any profile and however many faults,      *)
(* signals and kills (apply, restore, _guardian_main,                      *)
(* recover_control_journal).                                               *)
(***************************************************************************)
THEOREM TransactionIsSafe ==
    ASSUME Settle PROVE Spec => []TransactionHolds
<1>1. Init => Covered
  BY DEF Init, Covered, JournalFirst, CommandInApply, VerifiedIsPrior, ProofsHold
<1>2. Covered /\ TypeOK /\ AtItsControl /\ Alive /\ [Next]_vars => Covered'
  BY CoveredStep
<1>3. Covered /\ Alive => TransactionHolds
  BY AliveIsOneWorker DEF Covered, JournalFirst, VerifiedIsPrior, TransactionHolds,
     MutationIsJournaled, RestoredIsPrior
<1> QED  BY <1>1, <1>2, <1>3, AliveAlways, PTL DEF Spec

-----------------------------------------------------------------------------
\* The placement of the estimator's threads

PlaceSteps == {"list", "rows", "prior", "before", "move", "after", "placed", "prove", "failed",
               "undo", "leave", "lost", "check", "restored", "dead", "validate", "recovered"}
Goals == {"prior", "before", "after", "prove", "undo", "check", "external"}
RowsOf == (1..MaxThreads) \X {"in", "out"}

PlaceTyped ==
    /\ born \in 1..MaxThreads /\ live \subseteq 1..born /\ shot \subseteq 1..born
    /\ home \in [1..MaxThreads -> {"in", "out"}]
    /\ place \in PlaceSteps /\ goal \in Goals
    /\ rows \subseteq RowsOf /\ first \subseteq RowsOf /\ prior \subseteq RowsOf

\* A capture returns to what it is for; only a placement moves threads in, only
\* a restoration or a recovery moves them out.
InItsCapture ==
    /\ place \in {"prior", "before", "after", "prove", "undo", "check"} => goal = place
    /\ place = "move" => goal = "before"
    /\ place = "leave" => goal \in {"undo", "external"} /\ todo \subseteq Placement!Tids(prior)
    /\ place = "restored" => goal = "check"
    /\ place = "dead" => goal = "external"
    /\ goal = "external" => place \in {"dead", "leave", "lost", "validate", "recovered"}

\* What was listed before the rows are read is enough: a thread that the listed
\* ones create meanwhile starts where they are.
AllInside == Placement!Members = live
CaptureIsEnough ==
    /\ place = "rows" /\ (\A t \in shot : home[t] = "in") => AllInside
    /\ place = "after" /\ (\A x \in rows : x[2] = "in") => AllInside

\* What was accepted lasts until the threads are moved again.
Accepted == goal = "prove" \/ place = "placed" => AllInside
Removed == goal = "check" \/ place \in {"validate", "recovered"} => Placement!Members = {}

PlaceInv == PlaceTyped /\ InItsCapture /\ CaptureIsEnough /\ Accepted /\ Removed

LEMMA PlaceInit == ASSUME Placement!Init PROVE PlaceInv
<1> USE PlacementAssumption
<1>1. PlaceTyped
  BY DEF Placement!Init, Placement!Threads, PlaceTyped, PlaceSteps, Goals
<1>2. InItsCapture /\ CaptureIsEnough /\ Accepted /\ Removed
  BY DEF Placement!Init, InItsCapture, CaptureIsEnough, Accepted, Removed
<1> QED  BY <1>1, <1>2 DEF PlaceInv

\* A capture of listed threads is a set of rows.
LEMMA CaptureTyped ==
  ASSUME PlaceTyped, NEW s, s \subseteq 1..born
  PROVE  /\ Placement!Rows(s) \subseteq RowsOf
         /\ \A t \in s : <<t, home[t]>> \in Placement!Rows(s)
BY PlacementAssumption DEF PlaceTyped, Placement!Rows, RowsOf

\* The estimator creates and ends threads.
LEMMA PlaceWorld ==
  ASSUME PlaceInv, Placement!Spawn \/ Placement!ThreadEnds \/ Placement!ProcessEnds
  PROVE  PlaceInv'
<1> USE PlacementAssumption
<1>0. PlaceTyped /\ InItsCapture /\ CaptureIsEnough /\ Accepted /\ Removed
  BY DEF PlaceInv
<1>1. UNCHANGED <<place, goal, shot, first, rows, prior, batch, todo, tries, attempt>>
  BY DEF Placement!Spawn, Placement!ThreadEnds, Placement!ProcessEnds, Placement!backend
<1>2. CASE Placement!Spawn
  <2>1. PICK p \in live : live' = live \cup {born'} /\ home' = [home EXCEPT ![born'] = home[p]]
    BY <1>2 DEF Placement!Spawn
  <2>2. born' = born + 1 /\ born' \in 1..MaxThreads /\ born' \notin live /\ born' \notin shot
    BY <1>0, <1>2 DEF Placement!Spawn, PlaceTyped
  <2>3. p \in 1..MaxThreads /\ live \subseteq 1..MaxThreads /\ shot \subseteq 1..MaxThreads
    BY <1>0 DEF PlaceTyped
  <2>4. home'[born'] = home[p] /\ \A t \in 1..MaxThreads : t # born' => home'[t] = home[t]
    BY <1>0, <2>1, <2>2 DEF PlaceTyped
  <2>5. PlaceTyped'
    BY <1>0, <1>1, <2>1, <2>2, <2>3 DEF PlaceTyped
  <2>6. AllInside => AllInside'
    BY <2>1, <2>2, <2>3, <2>4 DEF AllInside, Placement!Members
  <2>7. Placement!Members = {} => Placement!Members' = {}
    BY <2>1, <2>2, <2>3, <2>4 DEF Placement!Members
  <2>8. CaptureIsEnough'
    BY <1>0, <1>1, <2>2, <2>3, <2>4, <2>6 DEF CaptureIsEnough
  <2>9. InItsCapture' /\ Accepted' /\ Removed'
    BY <1>0, <1>1, <2>6, <2>7 DEF InItsCapture, Accepted, Removed, Placement!Tids
  <2> QED  BY <2>5, <2>8, <2>9 DEF PlaceInv
<1>3. CASE Placement!ThreadEnds \/ Placement!ProcessEnds
  <2>1. live' \subseteq live /\ UNCHANGED <<born, home>>
    BY <1>3 DEF Placement!ThreadEnds, Placement!ProcessEnds
  <2>2. PlaceTyped'
    BY <1>0, <1>1, <2>1 DEF PlaceTyped
  <2>3. (AllInside => AllInside') /\ (Placement!Members = {} => Placement!Members' = {})
    BY <2>1 DEF AllInside, Placement!Members
  <2>4. InItsCapture' /\ CaptureIsEnough' /\ Accepted' /\ Removed'
    BY <1>0, <1>1, <2>1, <2>3 DEF InItsCapture, CaptureIsEnough, Accepted, Removed, Placement!Tids
  <2> QED  BY <2>2, <2>4 DEF PlaceInv
<1> QED  BY <1>2, <1>3

\* A step that moves no thread: what was accepted or removed stays so.
LEMMA NobodyMoves ==
  ASSUME UNCHANGED <<live, home>>
  PROVE  AllInside' = AllInside /\ Placement!Members' = Placement!Members
BY DEF AllInside, Placement!Members

\* _stable_descendant_state.
LEMMA PlaceCapture ==
  ASSUME PlaceInv, Placement!ListThreads \/ Placement!ReadRows
  PROVE  PlaceInv'
<1> USE PlacementAssumption
<1>0. PlaceTyped /\ InItsCapture /\ CaptureIsEnough /\ Accepted /\ Removed
  BY DEF PlaceInv
<1>1. UNCHANGED <<live, born, home, goal, prior, batch, todo, attempt>>
  BY DEF Placement!ListThreads, Placement!ReadRows, Placement!world
<1>2. (AllInside' <=> AllInside) /\ Placement!Members' = Placement!Members
  BY <1>1, NobodyMoves
<1>3. CASE Placement!ListThreads
  <2>1. /\ place = "list" /\ place' \in {"list", "rows", "failed"} /\ UNCHANGED rows
        /\ first' \in {first, {}} /\ shot' \in {shot, live} /\ (place' = "rows" => shot' = live)
    BY <1>3 DEF Placement!ListThreads, Placement!Again
  <2>2. PlaceTyped'
    BY <1>0, <1>1, <2>1 DEF PlaceTyped, PlaceSteps
  <2>3. CaptureIsEnough'
    BY <1>1, <1>2, <2>1 DEF CaptureIsEnough, AllInside, Placement!Members
  <2>4. InItsCapture' /\ Accepted' /\ Removed'
    BY <1>0, <1>1, <1>2, <2>1 DEF InItsCapture, Accepted, Removed
  <2> QED  BY <2>2, <2>3, <2>4 DEF PlaceInv
<1>4. CASE Placement!ReadRows
  <2>1. /\ place = "rows" /\ UNCHANGED shot /\ first' \in {first, {}, Placement!Rows(shot)}
        /\ \/ place' \in {"list", "failed"} /\ UNCHANGED rows
           \/ place' = goal /\ rows' = Placement!Rows(shot)
    BY <1>4 DEF Placement!ReadRows, Placement!Again
  <2>2. Placement!Rows(shot) \subseteq RowsOf /\ \A t \in shot : <<t, home[t]>> \in Placement!Rows(shot)
    BY <1>0, CaptureTyped DEF PlaceTyped
  <2>3. PlaceTyped'
    <3>1. rows' \subseteq RowsOf /\ first' \subseteq RowsOf
      BY <1>0, <2>1, <2>2 DEF PlaceTyped
    <3>2. place' \in PlaceSteps
      BY <1>0, <2>1 DEF PlaceTyped, PlaceSteps, Goals, InItsCapture
    <3> HIDE <1>4
    <3> QED  BY <1>0, <1>1, <2>1, <3>1, <3>2 DEF PlaceTyped
  <2>4. CASE place' \in {"list", "failed"} /\ UNCHANGED rows
    BY <1>0, <1>1, <1>2, <2>1, <2>3, <2>4
       DEF PlaceInv, InItsCapture, CaptureIsEnough, Accepted, Removed
  <2>5. CASE place' = goal /\ rows' = Placement!Rows(shot)
    <3>1. (\A x \in rows' : x[2] = "in") => \A t \in shot : home[t] = "in"
      BY <2>2, <2>5
    <3>2. CaptureIsEnough'
      BY <1>0, <1>2, <2>1, <2>5, <3>1 DEF CaptureIsEnough, PlaceTyped, Goals
    <3>3. InItsCapture' /\ Accepted' /\ Removed'
      BY <1>0, <1>1, <1>2, <2>1, <2>5 DEF PlaceTyped, Goals, InItsCapture, Accepted, Removed
    <3> QED  BY <2>3, <3>2, <3>3 DEF PlaceInv
  <2> QED  BY <2>1, <2>4, <2>5
<1> QED  BY <1>3, <1>4

\* _prior_record, _create_cpuset and the guardian's look at them.
LEMMA PlaceMovesIn ==
  ASSUME PlaceInv,
         \/ Placement!CapturePrior \/ Placement!PlanMoves \/ Placement!MoveIn
         \/ Placement!AcceptPlacement \/ Placement!GuardianLooks \/ Placement!GuardianProves
  PROVE  PlaceInv'
<1> USE PlacementAssumption
<1>0. PlaceTyped /\ InItsCapture /\ CaptureIsEnough /\ Accepted /\ Removed
  BY DEF PlaceInv
<1>1. CASE Placement!MoveIn
  <2>1. /\ place = "move" /\ UNCHANGED <<live, born, shot, rows, prior>> /\ first' \in {first, {}}
        /\ \/ UNCHANGED goal /\ place' \in {place, "failed"}
           \/ place' = "list" /\ goal' = "after"
        /\ \/ UNCHANGED home
           \/ \E t \in live : home' = [home EXCEPT ![t] = "in"]
    BY <1>1 DEF Placement!MoveIn, Placement!CaptureFor
  <2>2. live \subseteq 1..MaxThreads /\ goal = "before"
    BY <1>0, <2>1 DEF PlaceTyped, InItsCapture
  <2>3. PlaceTyped'
    BY <1>0, <2>1, <2>2 DEF PlaceTyped, PlaceSteps, Goals
  <2>4. InItsCapture' /\ CaptureIsEnough' /\ Accepted' /\ Removed'
    BY <2>1, <2>2 DEF InItsCapture, CaptureIsEnough, Accepted, Removed
  <2> QED  BY <2>3, <2>4 DEF PlaceInv
<1>2. ASSUME UNCHANGED <<live, born, home>>,
             \/ Placement!CapturePrior \/ Placement!PlanMoves
             \/ Placement!AcceptPlacement \/ Placement!GuardianLooks \/ Placement!GuardianProves
      PROVE PlaceInv'
  <2>1. (AllInside' <=> AllInside) /\ Placement!Members' = Placement!Members
    BY <1>2, NobodyMoves
  <2>2. UNCHANGED <<shot, rows>> /\ first' \in {first, {}} /\ prior' \in {prior, rows}
    BY <1>2 DEF Placement!CapturePrior, Placement!PlanMoves, Placement!AcceptPlacement,
       Placement!GuardianLooks, Placement!GuardianProves, Placement!CaptureFor
  <2>3. /\ place \in {"prior", "before", "after", "placed", "prove"}
        /\ \/ place' = "list" /\ goal' = "before"
           \/ place' = "list" /\ goal' = "prove" /\ place = "placed"
           \/ place' = "move" /\ UNCHANGED goal /\ place = "before"
           \/ place' = "placed" /\ UNCHANGED goal /\ place = "after" /\ \A x \in rows : x[2] = "in"
           \/ place' = "placed" /\ UNCHANGED goal /\ place = "prove"
           \/ place' = "failed" /\ UNCHANGED goal
    BY <1>2 DEF Placement!CapturePrior, Placement!PlanMoves, Placement!AcceptPlacement,
       Placement!GuardianLooks, Placement!GuardianProves, Placement!CaptureFor, Placement!Confined
  <2>4. PlaceTyped'
    BY <1>0, <1>2, <2>2, <2>3 DEF PlaceTyped, PlaceSteps, Goals
  <2>5. InItsCapture' /\ CaptureIsEnough'
    BY <1>0, <2>2, <2>3 DEF InItsCapture, CaptureIsEnough
  <2>6. Accepted' /\ Removed'
    BY <1>0, <2>1, <2>2, <2>3 DEF InItsCapture, CaptureIsEnough, Accepted, Removed
  <2> QED  BY <2>4, <2>5, <2>6 DEF PlaceInv
<1>3. Placement!MoveIn \/ UNCHANGED <<live, born, home>>
  BY DEF Placement!CapturePrior, Placement!PlanMoves, Placement!AcceptPlacement,
     Placement!GuardianLooks, Placement!GuardianProves, Placement!world
<1> QED  BY <1>1, <1>2, <1>3

\* The row a thread goes back to is one of the prior ones.
LEMMA PriorRow ==
  ASSUME PlaceTyped, NEW t \in Placement!Tids(prior)
  PROVE  (CHOOSE x \in prior : x[1] = t)[2] \in {"in", "out"}
<1>1. \E x \in prior : x[1] = t
  BY DEF Placement!Tids
<1>2. (CHOOSE x \in prior : x[1] = t) \in prior
  BY <1>1
<1> QED  BY <1>2 DEF PlaceTyped, RowsOf

\* The restoration, by the helper or after its death.
LEMMA PlaceMovesOut ==
  ASSUME PlaceInv,
         \/ Placement!Release \/ Placement!PlanRelease \/ Placement!HelperDies
         \/ Placement!PlanRecovery \/ Placement!MoveOut \/ Placement!RemoveCpuset
         \/ Placement!ValidateRestored \/ Placement!ValidateRecovery
  PROVE  PlaceInv'
<1> USE PlacementAssumption
<1>0. PlaceTyped /\ InItsCapture /\ CaptureIsEnough /\ Accepted /\ Removed
  BY DEF PlaceInv
<1>1. CASE Placement!MoveOut
  <2>1. /\ place = "leave" /\ place' \in {place, "lost"} /\ todo' \subseteq todo
        /\ UNCHANGED <<live, born, goal, shot, first, rows, prior>>
        /\ \/ UNCHANGED home
           \/ \E t \in todo \cap live :
                home' = [home EXCEPT ![t] = (CHOOSE x \in prior : x[1] = t)[2]]
    BY <1>1 DEF Placement!MoveOut
  <2>2. goal \in {"undo", "external"} /\ todo \subseteq Placement!Tids(prior)
    BY <1>0, <2>1 DEF InItsCapture
  <2>3. home' \in [1..MaxThreads -> {"in", "out"}]
    <3>1. ASSUME NEW t \in todo \cap live PROVE (CHOOSE x \in prior : x[1] = t)[2] \in {"in", "out"}
      BY <1>0, <2>2, PriorRow
    <3> HIDE <1>1
    <3>2. CASE UNCHANGED home
      BY <1>0, <3>2 DEF PlaceTyped
    <3>3. ASSUME NEW t \in todo \cap live,
                 home' = [home EXCEPT ![t] = (CHOOSE x \in prior : x[1] = t)[2]]
          PROVE  home' \in [1..MaxThreads -> {"in", "out"}]
      <4> DEFINE to == (CHOOSE x \in prior : x[1] = t)[2]
      <4>1. to \in {"in", "out"}
        BY <3>1
      <4>2. home' = [home EXCEPT ![t] = to]
        BY <3>3
      <4> HIDE DEF to
      <4> QED  BY <1>0, <4>1, <4>2 DEF PlaceTyped
    <3> QED  BY <2>1, <3>2, <3>3
  <2>4. PlaceTyped'
    BY <1>0, <2>1, <2>3 DEF PlaceTyped, PlaceSteps
  <2>5. InItsCapture' /\ CaptureIsEnough' /\ Accepted' /\ Removed'
    BY <2>1, <2>2 DEF InItsCapture, CaptureIsEnough, Accepted, Removed, Placement!Tids
  <2> QED  BY <2>4, <2>5 DEF PlaceInv
<1>2. ASSUME UNCHANGED <<live, born, home>>,
             \/ Placement!Release \/ Placement!PlanRelease \/ Placement!HelperDies
             \/ Placement!PlanRecovery \/ Placement!RemoveCpuset
             \/ Placement!ValidateRestored \/ Placement!ValidateRecovery
      PROVE PlaceInv'
  <2>1. (AllInside' <=> AllInside) /\ Placement!Members' = Placement!Members
    BY <1>2, NobodyMoves
  <2>2. UNCHANGED <<shot, rows, prior>> /\ first' \in {first, {}}
    BY <1>2 DEF Placement!Release, Placement!PlanRelease, Placement!HelperDies,
       Placement!PlanRecovery, Placement!RemoveCpuset, Placement!ValidateRestored,
       Placement!ValidateRecovery, Placement!CaptureFor
  <2>3. \/ place' = "list" /\ goal' = "undo"
        \/ place' = "lost" /\ UNCHANGED goal /\ place # "recovered"
        \/ place' = "dead" /\ goal' = "external"
        \/ /\ place' = "leave" /\ UNCHANGED goal /\ todo' \subseteq Placement!Tids(prior)
           /\ place = "undo" \/ (place = "dead" /\ goal = "external")
        \/ place' = "validate" /\ UNCHANGED goal /\ goal = "external" /\ Placement!Members = {}
        \/ place' = "list" /\ goal' = "check" /\ Placement!Members = {}
        \/ place' = "restored" /\ UNCHANGED goal /\ place = "check"
        \/ place' = "recovered" /\ UNCHANGED goal /\ place = "validate"
    <3>1. CASE Placement!Release \/ Placement!HelperDies
      BY <3>1 DEF Placement!Release, Placement!HelperDies, Placement!CaptureFor
    <3>2. CASE Placement!PlanRelease
      BY <3>2 DEF Placement!PlanRelease
    <3>3. CASE Placement!PlanRecovery
      <4>1. todo' = live /\ UNCHANGED goal /\ place = "dead" /\ place' \in {"leave", "lost"}
            /\ (place' = "leave" => live \in {{}, Placement!Tids(prior)})
        BY <3>3 DEF Placement!PlanRecovery
      <4> QED  BY <1>0, <4>1 DEF InItsCapture
    <3>4. CASE Placement!RemoveCpuset
      BY <3>4 DEF Placement!RemoveCpuset, Placement!CaptureFor
    <3>5. CASE Placement!ValidateRestored \/ Placement!ValidateRecovery
      BY <3>5 DEF Placement!ValidateRestored, Placement!ValidateRecovery
    <3> QED  BY <1>2, <3>1, <3>2, <3>3, <3>4, <3>5
  <2>4. PlaceTyped'
    BY <1>0, <1>2, <2>2, <2>3 DEF PlaceTyped, PlaceSteps, Goals
  <2>5. InItsCapture' /\ CaptureIsEnough'
    BY <1>0, <2>2, <2>3 DEF InItsCapture, CaptureIsEnough, Placement!Tids
  <2>6. Accepted' /\ Removed'
    BY <1>0, <2>1, <2>2, <2>3 DEF InItsCapture, Accepted, Removed
  <2> QED  BY <2>4, <2>5, <2>6 DEF PlaceInv
<1>3. Placement!MoveOut \/ UNCHANGED <<live, born, home>>
  BY DEF Placement!Release, Placement!PlanRelease, Placement!HelperDies,
     Placement!PlanRecovery, Placement!RemoveCpuset, Placement!ValidateRestored,
     Placement!ValidateRecovery, Placement!world
<1> QED  BY <1>1, <1>2, <1>3

(***************************************************************************)
(* PartitionAlways: however many threads the estimator creates and ends,   *)
(* whenever it does so between the captures and the moves, an accepted     *)
(* placement holds all of them and a validated restoration none            *)
(* (_create_cpuset, _stable_descendant_state, remove_cpuset).              *)
(***************************************************************************)
THEOREM PartitionAlways == Placement!Spec => []PartitionHolds
<1>1. PlaceInv /\ [Placement!Next]_(Placement!vars) => PlaceInv'
  <2>1. CASE UNCHANGED Placement!vars
    BY <2>1 DEF Placement!vars, Placement!world, Placement!backend, PlaceInv, PlaceTyped, InItsCapture,
       CaptureIsEnough, Accepted, Removed, AllInside, Placement!Members, Placement!Tids
  <2> QED  BY <2>1, PlaceWorld, PlaceCapture, PlaceMovesIn, PlaceMovesOut DEF Placement!Next
<1>2. PlaceInv => PartitionHolds
  BY DEF PlaceInv, InItsCapture, Accepted, Removed, AllInside, PartitionHolds, Placement!PartitionHolds
<1> QED  BY <1>1, <1>2, PlaceInit, PTL DEF Placement!Spec

-----------------------------------------------------------------------------
\* The privileged helper

HelperFields ==
    {"pc", "kind", "sid", "state", "pos", "slot", "prior", "held", "mutable", "preflight",
     "started", "active", "stops", "seal", "poperr", "tried", "try", "abnormal", "errs", "err"}

\* The host was not touched yet, or the helper is past it.
Untouched == {"off", "preflight", "hello", "apply", "capture", "journal", "evidence",
              "recover", "recovering", "exit"}

HelperShape ==
    /\ DOMAIN h = HelperFields /\ moved \subseteq Helper!Controls
    /\ DOMAIN pendingJournal = {"at", "whole", "sid"}
    /\ pendingJournal.at \in {"absent", "pending"}

\* The host is changed only under a journal, and by a session only after it has
\* noted that it may be; the DMA latency descriptor goes with its helper.
Prepared ==
    /\ h.pc \in {"evidence", "controls"} => pendingJournal.at = "pending" /\ h.pos \in Nat \ {0}
    /\ h.pc = "controls" /\ h.preflight => h.mutable
    /\ h.kind = "trial" => ~h.preflight
    /\ h.pc \in Untouched => Helper!Dma \notin moved

\* A session that found no journal and does not count its host as changed has a
\* host at its prior state; so has one that is completing its journal.
NotMutable ==
    /\ h.preflight /\ ~h.mutable => moved = {}
    /\ h.pc \in {"proof", "complete"} => moved = {}

HelperInv == HelperShape /\ Prepared /\ NotMutable /\ Helper!PendingCoversHost

\* A step to one of the labels ls that keeps what the helper knows of the host.
GoesTo(ls) ==
    /\ DOMAIN h' = HelperFields /\ h'.pc \in ls
    /\ h'.kind = h.kind /\ h'.preflight = h.preflight /\ h'.mutable = h.mutable

\* The error handlers move the helper and keep what it knows of the host.
LEMMA RaisedKeeps ==
  ASSUME HelperShape, NEW e
  PROVE  /\ DOMAIN Helper!Raised(e) = HelperFields
         /\ Helper!Raised(e).pc \in {"close", "except"}
         /\ Helper!Raised(e).kind = h.kind
         /\ Helper!Raised(e).preflight = h.preflight
         /\ Helper!Raised(e).mutable = h.mutable
BY DEF HelperShape, HelperFields, Helper!Raised

LEMMA RaisedFromKeeps ==
  ASSUME HelperShape, NEW s
  PROVE  /\ DOMAIN Helper!RaisedFrom(s) = HelperFields
         /\ Helper!RaisedFrom(s).pc \in {"close", "except"}
         /\ Helper!RaisedFrom(s).kind = h.kind
         /\ Helper!RaisedFrom(s).preflight = h.preflight
         /\ Helper!RaisedFrom(s).mutable = h.mutable
<1> DEFINE r == Helper!Raised("error")
<1>1. /\ DOMAIN r = HelperFields /\ r.pc \in {"close", "except"} /\ r.kind = h.kind
      /\ r.preflight = h.preflight /\ r.mutable = h.mutable
  BY RaisedKeeps
<1>2. Helper!RaisedFrom(s) = [r EXCEPT !.state = IF @ = "indeterminate" THEN @ ELSE s]
  BY DEF Helper!RaisedFrom
<1> HIDE DEF r
<1> QED  BY <1>1, <1>2 DEF HelperFields

\* A failed append tears the journal and does not remove it.
LEMMA TornStays ==
  ASSUME HelperShape, Helper!TearJournal
  PROVE  DOMAIN pendingJournal' = {"at", "whole", "sid"} /\ pendingJournal'.at = pendingJournal.at
BY DEF HelperShape, Helper!TearJournal

LEMMA OffIsShaped ==
  /\ DOMAIN Helper!Off = HelperFields /\ Helper!Off.pc = "off" /\ Helper!Off.kind = "none"
  /\ ~Helper!Off.preflight /\ ~Helper!Off.mutable
BY DEF Helper!Off, Helper!None, HelperFields

\* The helper's process ends.
LEMMA HelperGone ==
  ASSUME HelperInv, h' = Helper!Off, moved' \subseteq moved, Helper!Dma \notin moved',
         DOMAIN pendingJournal' = {"at", "whole", "sid"},
         \/ pendingJournal'.at = pendingJournal.at
         \/ pendingJournal'.at = "pending"
         \/ pendingJournal'.at = "absent" /\ moved = {}
  PROVE  HelperInv'
<1>1. HelperShape'
  BY OffIsShaped DEF HelperInv, HelperShape
<1>2. Prepared' /\ NotMutable'
  BY OffIsShaped DEF Prepared, NotMutable, Helper!Dma, Untouched
<1>3. Helper!PendingCoversHost'
  BY DEF HelperInv, Helper!PendingCoversHost, Helper!Persistent
<1> QED  BY <1>1, <1>2, <1>3 DEF HelperInv

\* A step that neither changes the host nor begins to, nor claims anything.
LEMMA HelperGoesOn ==
  ASSUME HelperInv, DOMAIN h' = HelperFields, moved' \subseteq moved,
         DOMAIN pendingJournal' = {"at", "whole", "sid"}, 
         pendingJournal'.at \in {pendingJournal.at, "pending"},
         h'.kind = h.kind, h'.preflight = h.preflight, h'.mutable = h.mutable,
         \/ h'.pc \notin Untouched \cup {"controls", "proof", "complete"}
         \/ h'.pc = h.pc /\ h'.pos = h.pos
         \/ h.pc \in Untouched /\ h'.pc \in Untouched \ {"evidence"}
  PROVE  HelperInv'
<1>0. HelperShape /\ Prepared /\ NotMutable /\ Helper!PendingCoversHost
  BY DEF HelperInv
<1>1. HelperShape'
  BY <1>0 DEF HelperShape, Helper!Controls, Helper!Dma
<1>2. Prepared'
  BY <1>0 DEF Prepared, Untouched, Helper!Dma
<1>3. NotMutable'
  BY <1>0 DEF NotMutable, Untouched
<1>4. Helper!PendingCoversHost'
  BY <1>0 DEF Helper!PendingCoversHost, Helper!Persistent, HelperShape
<1> QED  BY <1>1, <1>2, <1>3, <1>4 DEF HelperInv

Working == {"guard", "applied", "observe", "record", "asked", "except", "restore", "undo", "close"}

\* The same, for a step to a label where nothing is claimed.
LEMMA HelperWorks ==
  ASSUME HelperInv, GoesTo(Working), moved' \subseteq moved,
         DOMAIN pendingJournal' = {"at", "whole", "sid"},
         pendingJournal'.at \in {pendingJournal.at, "pending"}
  PROVE  HelperInv'
BY HelperGoesOn DEF GoesTo, Working, Untouched

\* The same, for an error: e is where it is raised, whatever else it notes.
LEMMA RaisedGoes ==
  ASSUME HelperShape, NEW e
  PROVE  /\ h' = Helper!Raised(e) => GoesTo(Working)
         /\ \A s : h' = [Helper!Raised(e) EXCEPT !.state = s] => GoesTo(Working)
         /\ \A a : h' = [Helper!Raised(e) EXCEPT !.active = a] => GoesTo(Working)
         /\ \A n : h' = [Helper!Raised(e) EXCEPT !.stops = n] => GoesTo(Working)
BY RaisedKeeps DEF GoesTo, Working, HelperFields

LEMMA HelperInit == ASSUME Helper!Init PROVE HelperInv
BY OffIsShaped DEF Helper!Init, Helper!NoJournal, HelperInv, HelperShape, Prepared, NotMutable,
   Untouched, Helper!PendingCoversHost

\* Starting a helper: nobody continues on a host that is not at its prior state.
LEMMA HelperStarts ==
  ASSUME HelperInv,
         Helper!Start \/ Helper!Preflight \/ Helper!TrialPreflight \/ Helper!Handshake
  PROVE  HelperInv'
<1>0. HelperShape /\ Prepared /\ NotMutable /\ Helper!PendingCoversHost
  BY DEF HelperInv
<1>1. UNCHANGED <<moved, pendingJournal>>
  BY DEF Helper!Start, Helper!Preflight, Helper!TrialPreflight, Helper!Handshake
<1>2. CASE Helper!Start
  <2>1. PICK kind \in {"session", "trial"} :
            h' = [Helper!Off EXCEPT !.pc = "preflight", !.kind = kind, !.sid = sessions + 1]
    BY <1>2 DEF Helper!Start
  <2>2. h = Helper!Off
    BY <1>2 DEF Helper!Start
  <2>3. DOMAIN h' = HelperFields /\ h'.pc = "preflight" /\ ~h'.preflight /\ ~h'.mutable
    BY <2>1, OffIsShaped DEF HelperFields
  <2>4. Helper!Dma \notin moved
    BY <1>0, <2>2, OffIsShaped DEF Prepared, Untouched
  <2> QED  BY <1>0, <1>1, <2>3, <2>4 DEF HelperInv, HelperShape, Prepared, NotMutable, Helper!Controls,
              Helper!Dma, Helper!PendingCoversHost, Helper!Persistent
<1>3. CASE Helper!Preflight
  <2>1. h.pc = "preflight" /\ h.kind = "session"
    BY <1>3 DEF Helper!Preflight
  <2>2. CASE pendingJournal.at = "pending"
    <3>1. h' = Helper!Raised("indeterminate")
      BY <1>3, <2>2 DEF Helper!Preflight
    <3> QED  BY <1>0, <1>1, <3>1, RaisedKeeps, HelperGoesOn DEF HelperShape, Untouched
  <2>3. CASE pendingJournal.at = "absent"
    <3>1. h' = [Helper!Goto("hello") EXCEPT !.preflight = TRUE]
      BY <1>3, <2>3 DEF Helper!Preflight
    <3>2. DOMAIN h' = HelperFields /\ h'.pc = "hello" /\ h'.kind = h.kind /\ h'.mutable = h.mutable
      BY <1>0, <3>1 DEF HelperShape, HelperFields, Helper!Goto
    <3>3. moved = {}
      BY <1>0, <2>1, <2>3, HelperAssumption DEF HelperShape, Prepared, Untouched, Helper!PendingCoversHost,
         Helper!Controls, Helper!Persistent, Helper!Dma
    <3> QED  BY <1>0, <1>1, <2>1, <3>2, <3>3 DEF HelperInv, HelperShape, Prepared, NotMutable,
                Helper!PendingCoversHost
  <2> QED  BY <1>0, <2>2, <2>3 DEF HelperShape
<1>4. CASE Helper!TrialPreflight
  <2>1. h.pc = "preflight"
    BY <1>4 DEF Helper!TrialPreflight
  <2>2. CASE h' = Helper!Off
    BY <1>0, <1>1, <2>1, <2>2, HelperGone DEF HelperShape, Prepared, Untouched
  <2>3. CASE h' = Helper!Goto("capture") \/ h' = [Helper!Goto("recover") EXCEPT !.prior = TRUE]
    <3>1. /\ DOMAIN h' = HelperFields /\ h'.pc \in {"capture", "recover"}
          /\ h'.kind = h.kind /\ h'.preflight = h.preflight /\ h'.mutable = h.mutable
      BY <1>0, <2>3 DEF HelperShape, HelperFields, Helper!Goto
    <3> QED  BY <1>0, <1>1, <2>1, <3>1, HelperGoesOn DEF HelperShape, Untouched
  <2> QED  BY <1>4, <2>2, <2>3 DEF Helper!TrialPreflight
<1>5. CASE Helper!Handshake
  <2>1. h.pc = "hello"
    BY <1>5 DEF Helper!Handshake
  <2>2. CASE h' = [Helper!Goto("apply") EXCEPT !.state = "authenticated"]
    <3>1. /\ DOMAIN h' = HelperFields /\ h'.pc = "apply"
          /\ h'.kind = h.kind /\ h'.preflight = h.preflight /\ h'.mutable = h.mutable
      BY <1>0, <2>2 DEF HelperShape, HelperFields, Helper!Goto
    <3> QED  BY <1>0, <1>1, <2>1, <3>1, HelperGoesOn DEF HelperShape, Untouched
  <2>3. CASE \E n \in 0..2 : h' = [Helper!Raised("error") EXCEPT
                                      !.state = IF n = 2 THEN "authenticated" ELSE @]
    <3>1. /\ DOMAIN h' = HelperFields /\ h'.pc \in {"close", "except"}
          /\ h'.kind = h.kind /\ h'.preflight = h.preflight /\ h'.mutable = h.mutable
      BY <1>0, <2>3, RaisedKeeps DEF HelperFields
    <3> QED  BY <1>0, <1>1, <3>1, HelperGoesOn DEF HelperShape, Untouched
  <2> QED  BY <1>5, <2>2, <2>3 DEF Helper!Handshake
<1> QED  BY <1>2, <1>3, <1>4, <1>5

\* _apply up to the first change of the host: the journal is there before it.
LEMMA HelperPrepares ==
  ASSUME HelperInv, Helper!CapturePrior \/ Helper!CreateJournal \/ Helper!PriorEvidence
  PROVE  HelperInv'
<1>0. HelperShape /\ Prepared /\ NotMutable /\ Helper!PendingCoversHost
  BY DEF HelperInv
<1>1. UNCHANGED moved /\ h.pc \in Untouched /\ Helper!Dma \notin moved
  BY <1>0 DEF Helper!CapturePrior, Helper!CreateJournal, Helper!PriorEvidence, Prepared, Untouched
<1>2. CASE Helper!CapturePrior
  <2>1. UNCHANGED pendingJournal
    BY <1>2 DEF Helper!CapturePrior
  <2>2. CASE h' = [Helper!Goto("journal") EXCEPT !.state = "capturing_prior", !.prior = TRUE]
    <3>1. GoesTo({"journal"})
      BY <1>0, <2>2 DEF HelperShape, HelperFields, Helper!Goto, GoesTo
    <3> QED  BY <1>0, <1>1, <2>1, <3>1, HelperGoesOn DEF HelperShape, Untouched, GoesTo
  <2>3. CASE h' = Helper!Off
    BY <1>0, <1>1, <2>1, <2>3, HelperGone DEF HelperShape
  <2>4. CASE \E received \in BOOLEAN :
               h' = [Helper!Raised("error") EXCEPT !.state = IF received THEN "capturing_prior" ELSE @]
    <3>1. GoesTo(Working)
      BY <1>0, <2>4, RaisedGoes
    <3> QED  BY <1>0, <1>1, <2>1, <3>1, HelperWorks DEF HelperShape
  <2> QED  BY <1>2, <2>2, <2>3, <2>4 DEF Helper!CapturePrior
<1>3. CASE Helper!CreateJournal
  <2>1. /\ DOMAIN pendingJournal' = {"at", "whole", "sid"}
        /\ pendingJournal'.at \in {pendingJournal.at, "pending"}
    BY <1>0, <1>3 DEF Helper!CreateJournal, HelperShape
  <2>2. CASE h' = Helper!Off
    BY <1>0, <1>1, <2>1, <2>2, HelperGone
  <2>3. CASE h' = Helper!Raised("error")
    BY <1>0, <1>1, <2>1, <2>3, RaisedGoes, HelperWorks
  <2>4. ASSUME pendingJournal' = [at |-> "pending", whole |-> TRUE, sid |-> h.sid],
               h' = [Helper!Goto(IF h.kind = "trial" THEN "controls" ELSE "evidence") EXCEPT
                         !.held = TRUE, !.pos = 1]
        PROVE  HelperInv'
    <3>1. /\ GoesTo({"controls", "evidence"}) /\ h'.pos = 1
          /\ h'.pc = "controls" => h.kind = "trial"
      BY <1>0, <2>4 DEF HelperShape, HelperFields, Helper!Goto, GoesTo
    <3>2. HelperShape' /\ NotMutable' /\ Helper!PendingCoversHost'
      BY <1>0, <1>1, <2>4, <3>1 DEF HelperShape, NotMutable, GoesTo, Helper!PendingCoversHost,
         Helper!Controls, Helper!Dma
    <3>3. Prepared'
      BY <1>0, <1>1, <2>4, <3>1 DEF Prepared, GoesTo, Helper!Dma
    <3> QED  BY <3>2, <3>3 DEF HelperInv
  <2> QED  BY <1>3, <2>2, <2>3, <2>4 DEF Helper!CreateJournal
<1>4. CASE Helper!PriorEvidence
  <2>1. /\ DOMAIN pendingJournal' = {"at", "whole", "sid"} /\ pendingJournal'.at = pendingJournal.at
        /\ h.pc = "evidence"
    BY <1>0, <1>4, TornStays DEF Helper!PriorEvidence, HelperShape
  <2>2. CASE h' = Helper!Raised("error")
    BY <1>0, <1>1, <2>1, <2>2, RaisedGoes, HelperWorks
  <2>3. CASE h' = [Helper!Goto("controls") EXCEPT !.state = "applying", !.mutable = TRUE]
    <3>1. /\ DOMAIN h' = HelperFields /\ h'.pc = "controls" /\ h'.mutable = TRUE
          /\ h'.kind = h.kind /\ h'.preflight = h.preflight /\ h'.pos = h.pos
      BY <1>0, <2>3 DEF HelperShape, HelperFields, Helper!Goto
    <3>2. HelperShape' /\ NotMutable' /\ Helper!PendingCoversHost'
      BY <1>0, <1>1, <2>1, <3>1 DEF HelperShape, NotMutable, Helper!PendingCoversHost,
         Helper!Controls, Helper!Dma
    <3>3. Prepared'
      BY <1>0, <1>1, <2>1, <3>1 DEF Prepared, Untouched
    <3> QED  BY <3>2, <3>3 DEF HelperInv
  <2> QED  BY <1>4, <2>2, <2>3 DEF Helper!PriorEvidence
<1> QED  BY <1>2, <1>3, <1>4

\* The rest of _apply, and the observations.
LEMMA HelperApplies ==
  ASSUME HelperInv,
         \/ Helper!ApplyStep \/ Helper!ValidateApplied \/ Helper!StartGuard \/ Helper!AcknowledgeApply
         \/ Helper!Observe \/ Helper!StopGuardAtEnd \/ Helper!RecordObservation \/ Helper!AskRestore
  PROVE  HelperInv'
<1>0. HelperShape /\ Prepared /\ NotMutable /\ Helper!PendingCoversHost
  BY DEF HelperInv
<1>1. CASE Helper!ApplyStep
  <2>1. /\ h.pc = "controls" /\ h.pos <= Helper!Dma /\ pendingJournal.at = "pending"
        /\ h.pos \in Helper!Controls /\ (h.preflight => h.mutable)
    BY <1>0, <1>1, HelperAssumption DEF Helper!ApplyStep, Prepared, Helper!Controls, Helper!Dma
  <2>2. /\ DOMAIN pendingJournal' = {"at", "whole", "sid"} /\ pendingJournal'.at = "pending"
        /\ moved' \in {moved, moved \cup {h.pos}}
    BY <1>0, <1>1, <2>1, TornStays DEF Helper!ApplyStep, HelperShape
  <2>3. /\ GoesTo({"controls", "restore", "close", "except"})
        /\ h'.pc = "controls" => h'.pos = h.pos + 1
    <3>1. CASE h' = [h EXCEPT !.pos = @ + 1]
      BY <1>0, <2>1, <3>1 DEF HelperShape, HelperFields, GoesTo
    <3>2. CASE h' = [Helper!Goto("restore") EXCEPT !.err = "error"]
      BY <1>0, <3>2 DEF HelperShape, HelperFields, GoesTo, Helper!Goto
    <3>3. CASE h' = Helper!Raised("error")
      BY <1>0, <3>3, RaisedKeeps DEF GoesTo
    <3> QED  BY <1>1, <3>1, <3>2, <3>3 DEF Helper!ApplyStep
  <2>4. HelperShape' /\ NotMutable' /\ Helper!PendingCoversHost'
    BY <1>0, <2>1, <2>2, <2>3 DEF HelperShape, NotMutable, GoesTo, Helper!PendingCoversHost,
       Helper!Controls, Helper!Dma
  <2>5. Prepared'
    BY <1>0, <2>1, <2>2, <2>3 DEF Prepared, GoesTo, Untouched
  <2> QED  BY <2>4, <2>5 DEF HelperInv
<1>2. ASSUME GoesTo(Working), UNCHANGED moved, UNCHANGED pendingJournal \/ Helper!TearJournal
      PROVE  HelperInv'
  BY <1>0, <1>2, HelperWorks, TornStays DEF HelperShape
<1>3. CASE Helper!ValidateApplied
  <2>1. GoesTo(Working)
    <3>1. CASE h' = Helper!Raised("error")
      BY <1>0, <3>1, RaisedGoes
    <3>2. CASE \/ h' = Helper!Goto("restore") \/ h' = Helper!Goto("guard")
               \/ h' = [Helper!Goto("restore") EXCEPT !.err = "error"]
      BY <1>0, <3>2 DEF HelperShape, HelperFields, GoesTo, Working, Helper!Goto
    <3> QED  BY <1>3, <3>1, <3>2 DEF Helper!ValidateApplied
  <2> QED  BY <1>2, <1>3, <2>1 DEF Helper!ValidateApplied
<1>4. CASE Helper!StartGuard
  <2>1. GoesTo(Working)
    <3>1. CASE h' = [Helper!Raised("error") EXCEPT !.active = TRUE]
      BY <1>0, <3>1, RaisedGoes
    <3>2. CASE h' = [Helper!Goto("applied") EXCEPT !.started = TRUE, !.active = TRUE]
      BY <1>0, <3>2 DEF HelperShape, HelperFields, GoesTo, Working, Helper!Goto
    <3> QED  BY <1>4, <3>1, <3>2 DEF Helper!StartGuard
  <2> QED  BY <1>2, <1>4, <2>1 DEF Helper!StartGuard
<1>5. CASE Helper!AcknowledgeApply
  <2>1. GoesTo(Working)
    <3>1. CASE h' = Helper!Raised("error") \/ h' = [Helper!Raised("error") EXCEPT !.state = "applied"]
      BY <1>0, <3>1, RaisedGoes
    <3>2. CASE h' = [Helper!Goto("observe") EXCEPT !.state = "applied", !.slot = 1]
      BY <1>0, <3>2 DEF HelperShape, HelperFields, GoesTo, Working, Helper!Goto
    <3> QED  BY <1>5, <3>1, <3>2 DEF Helper!AcknowledgeApply
  <2> QED  BY <1>2, <1>5, <2>1 DEF Helper!AcknowledgeApply
<1>6. CASE Helper!Observe
  <2>1. GoesTo(Working)
    <3>1. CASE h' = Helper!Raised("error")
      BY <1>0, <3>1, RaisedGoes
    <3>2. CASE \E e : h' = [Helper!Goto("record") EXCEPT !.errs = e]
      BY <1>0, <3>2 DEF HelperShape, HelperFields, GoesTo, Working, Helper!Goto
    <3> QED  BY <1>6, <3>1, <3>2 DEF Helper!Observe
  <2> QED  BY <1>2, <1>6, <2>1 DEF Helper!Observe
<1>7. CASE Helper!StopGuardAtEnd
  <2>1. GoesTo(Working)
    <3>1. CASE h' = [Helper!Raised("error") EXCEPT !.stops = 1]
      BY <1>0, <3>1, RaisedGoes
    <3>2. CASE h.pc = "record" /\ h' = [h EXCEPT !.stops = 1, !.active = FALSE, !.seal = TRUE]
      BY <1>0, <3>2 DEF HelperShape, HelperFields, GoesTo, Working
    <3> QED  BY <1>7, <3>1, <3>2 DEF Helper!StopGuardAtEnd
  <2> QED  BY <1>2, <1>7, <2>1 DEF Helper!StopGuardAtEnd
<1>8. CASE Helper!RecordObservation
  <2>1. GoesTo(Working)
    <3>1. CASE h' = Helper!Raised("error") \/ h' = [Helper!Raised("error") EXCEPT !.state = "observed"]
      BY <1>0, <3>1, RaisedGoes
    <3>2. CASE h' = [[h EXCEPT !.state = "observed", !.slot = h.slot + 1, !.errs = FALSE] EXCEPT
                         !.pc = IF h.slot = Helper!LastSlot THEN "asked" ELSE "observe"]
      BY <1>0, <3>2 DEF HelperShape, HelperFields, GoesTo, Working
    <3> QED  BY <1>8, <3>1, <3>2 DEF Helper!RecordObservation
  <2> QED  BY <1>2, <1>8, <2>1 DEF Helper!RecordObservation
<1>9. CASE Helper!AskRestore
  <2>1. GoesTo(Working)
    <3>1. CASE h' = Helper!Raised("error")
      BY <1>0, <3>1, RaisedGoes
    <3>2. CASE h' = [Helper!Goto("restore") EXCEPT !.try = "normal"]
      BY <1>0, <3>2 DEF HelperShape, HelperFields, GoesTo, Working, Helper!Goto
    <3> QED  BY <1>9, <3>1, <3>2 DEF Helper!AskRestore
  <2> QED  BY <1>2, <1>9, <2>1 DEF Helper!AskRestore
<1> QED  BY <1>1, <1>3, <1>4, <1>5, <1>6, <1>7, <1>8, <1>9

\* Completing the journal removes it.
LEMMA Completed ==
  ASSUME Helper!CompleteJournal
  PROVE  DOMAIN pendingJournal' = {"at", "whole", "sid"} /\ pendingJournal'.at = "absent"
BY DEF Helper!CompleteJournal, Helper!NoJournal

\* The trial's helper dies; its journal stays, or is removed over a prior host.
LEMMA TrialGone ==
  ASSUME HelperInv, Helper!TrialDies,
         \/ UNCHANGED pendingJournal \/ Helper!TearJournal
         \/ Helper!CompleteJournal /\ moved = {}
  PROVE  HelperInv'
<1>1. HelperShape
  BY DEF HelperInv
<1> QED  BY <1>1, TornStays, Completed, HelperGone DEF Helper!TrialDies, HelperShape

\* _restore, requested or in an emergency, and the trial's.
LEMMA HelperRestores ==
  ASSUME HelperInv, Helper!Emergency \/ Helper!RestoreBegins \/ Helper!RestoreStep \/ Helper!ValidateRestored
  PROVE  HelperInv'
<1>0. HelperShape /\ Prepared /\ NotMutable /\ Helper!PendingCoversHost
  BY DEF HelperInv
<1>1. ASSUME GoesTo(Working), moved' \subseteq moved, UNCHANGED pendingJournal \/ Helper!TearJournal
      PROVE  HelperInv'
  BY <1>0, <1>1, HelperWorks, TornStays DEF HelperShape
<1>2. CASE Helper!Emergency
  <2>1. \/ h' = [[h EXCEPT !.abnormal = TRUE] EXCEPT
                     !.pc = IF h.try = "inner" THEN "except" ELSE "close", !.try = "outer"]
        \/ h' = [[h EXCEPT !.abnormal = TRUE] EXCEPT !.pc = "restore"]
        \/ h' = [[h EXCEPT !.abnormal = TRUE] EXCEPT !.pc = "close", !.err = "indeterminate"]
    BY <1>2 DEF Helper!Emergency
  <2>2. GoesTo(Working)
    BY <1>0, <2>1 DEF HelperShape, HelperFields, GoesTo, Working
  <2> QED  BY <1>1, <1>2, <2>2 DEF Helper!Emergency
<1>3. CASE Helper!RestoreBegins
  <2> DEFINE on == [Helper!Goto("undo") EXCEPT !.state = "restoring", !.pos = Helper!Dma + 1,
                        !.errs = FALSE, !.tried = TRUE]
  <2>0. /\ DOMAIN on = HelperFields /\ on.pc = "undo" /\ on.kind = h.kind
        /\ on.preflight = h.preflight /\ on.mutable = h.mutable
    BY <1>0 DEF HelperShape, HelperFields, Helper!Goto
  <2>1. \/ /\ UNCHANGED <<moved, pendingJournal>>
           /\ \E good \in BOOLEAN : h' = [on EXCEPT !.stops = 1, !.active = ~good, !.seal = good,
                                                     !.poperr = ~good]
        \/ UNCHANGED <<moved, pendingJournal>> /\ h' = [on EXCEPT !.poperr = h.started /\ ~h.seal]
        \/ Helper!TearJournal /\ Helper!TrialDies
        \/ Helper!TearJournal /\ UNCHANGED moved /\ h' = Helper!RaisedFrom("restoring")
    BY <1>3 DEF Helper!RestoreBegins
  <2> HIDE DEF on
  <2>2. CASE \/ \E good \in BOOLEAN : h' = [on EXCEPT !.stops = 1, !.active = ~good, !.seal = good,
                                                       !.poperr = ~good]
             \/ h' = [on EXCEPT !.poperr = h.started /\ ~h.seal]
    <3>1. GoesTo(Working)
      BY <2>0, <2>2 DEF HelperFields, GoesTo, Working
    <3>2. CASE ~Helper!TrialDies
      BY <1>1, <2>1, <3>1, <3>2
    <3>3. CASE Helper!TearJournal /\ Helper!TrialDies
      BY <3>3, TrialGone
    <3> QED  BY <1>1, <2>1, <3>1, <3>3
  <2>3. CASE Helper!TearJournal /\ Helper!TrialDies
    BY <2>3, TrialGone
  <2>4. CASE Helper!TearJournal /\ UNCHANGED moved /\ h' = Helper!RaisedFrom("restoring")
    <3>1. GoesTo(Working)
      BY <1>0, <2>4, RaisedFromKeeps DEF GoesTo, Working
    <3> QED  BY <1>1, <2>4, <3>1
  <2> QED  BY <2>1, <2>2, <2>3, <2>4
<1>4. CASE Helper!RestoreStep
  <2>1. h.pc = "undo" /\ moved' \subseteq moved /\ (UNCHANGED pendingJournal \/ Helper!TearJournal)
    BY <1>4 DEF Helper!RestoreStep
  <2>2. \/ \E end \in {"off", "ended", "failed", "stopping"} :
               h' = [h EXCEPT !.active = (end = "stopping"), !.pos = @ - 1,
                              !.errs = @ \/ end = "stopping"]
        \/ h' = [h EXCEPT !.pos = @ - 1]
        \/ h' = [h EXCEPT !.pos = @ - 1, !.errs = TRUE]
    BY <1>4 DEF Helper!RestoreStep
  <2>3. GoesTo(Working)
    BY <1>0, <2>1, <2>2 DEF HelperShape, HelperFields, GoesTo, Working
  <2> QED  BY <1>1, <2>1, <2>3
<1>5. CASE Helper!ValidateRestored
  <2>1. /\ UNCHANGED pendingJournal
        /\ \/ moved = {} /\ UNCHANGED moved /\ h' = [Helper!Goto("proof") EXCEPT !.mutable = FALSE]
           \/ Helper!TrialDies
           \/ UNCHANGED moved /\ h' = Helper!Raised("error")
    BY <1>5 DEF Helper!ValidateRestored
  <2>2. CASE moved = {} /\ UNCHANGED moved /\ h' = [Helper!Goto("proof") EXCEPT !.mutable = FALSE]
    <3>1. /\ DOMAIN h' = HelperFields /\ h'.pc = "proof" /\ h'.kind = h.kind
          /\ h'.preflight = h.preflight
      BY <1>0, <2>2 DEF HelperShape, HelperFields, Helper!Goto
    <3>2. HelperShape' /\ NotMutable' /\ Helper!PendingCoversHost'
      BY <1>0, <2>1, <2>2, <3>1 DEF HelperShape, NotMutable, Helper!PendingCoversHost
    <3>3. Prepared'
      BY <1>0, <2>2, <3>1 DEF Prepared, Untouched
    <3> QED  BY <3>2, <3>3 DEF HelperInv
  <2>3. CASE Helper!TrialDies
    BY <2>1, <2>3, TrialGone
  <2>4. CASE UNCHANGED moved /\ h' = Helper!Raised("error")
    BY <1>0, <1>1, <2>1, <2>4, RaisedGoes
  <2> QED  BY <2>1, <2>2, <2>3, <2>4
<1> QED  BY <1>2, <1>3, <1>4, <1>5

\* The evidence is sealed and the journal removed over a host at its prior state.
LEMMA HelperCompletes ==
  ASSUME HelperInv, Helper!SealControlEvidence \/ Helper!CompleteRestore \/ Helper!CompleteTrial
  PROVE  HelperInv'
<1>0. HelperShape /\ Prepared /\ NotMutable /\ Helper!PendingCoversHost
  BY DEF HelperInv
<1>1. h.pc \in {"proof", "complete"} /\ moved = {}
  BY <1>0 DEF Helper!SealControlEvidence, Helper!CompleteRestore, Helper!CompleteTrial, NotMutable
<1>2. CASE Helper!SealControlEvidence
  <2>1. UNCHANGED <<moved, pendingJournal>>
    BY <1>2 DEF Helper!SealControlEvidence
  <2>2. CASE h' = Helper!Goto("complete")
    <3>1. GoesTo({"complete"})
      BY <1>0, <2>2 DEF HelperShape, HelperFields, Helper!Goto, GoesTo
    <3>2. HelperShape' /\ NotMutable' /\ Helper!PendingCoversHost'
      BY <1>0, <1>1, <2>1, <3>1 DEF HelperShape, NotMutable, Helper!PendingCoversHost, GoesTo
    <3>3. Prepared'
      BY <1>0, <3>1 DEF Prepared, Untouched, GoesTo
    <3> QED  BY <3>2, <3>3 DEF HelperInv
  <2>3. CASE \E e \in {"error", "indeterminate"} : h' = Helper!Raised(e)
    BY <1>0, <2>1, <2>3, RaisedGoes, HelperWorks DEF HelperShape
  <2> QED  BY <1>2, <2>2, <2>3 DEF Helper!SealControlEvidence
<1>3. CASE Helper!CompleteRestore
  <2>1. UNCHANGED moved
    BY <1>3 DEF Helper!CompleteRestore
  <2>2. /\ DOMAIN pendingJournal' = {"at", "whole", "sid"}
        /\ pendingJournal'.at \in {"absent", "pending"}
    BY <1>0, <1>3, TornStays, Completed DEF Helper!CompleteRestore, HelperShape
  <2>3. GoesTo({"except", "close"})
    <3>1. CASE \/ h' = Helper!Raised("error")
               \/ h' = [Helper!Raised("error") EXCEPT !.state = "restored"]
      BY <1>0, <3>1, RaisedKeeps DEF GoesTo, HelperFields
    <3>2. CASE h' = [h EXCEPT !.state = "restored", !.try = "outer",
                              !.pc = IF h.try = "inner" THEN "except" ELSE "close"]
      BY <1>0, <3>2 DEF HelperShape, HelperFields, GoesTo
    <3> QED  BY <1>3, <3>1, <3>2 DEF Helper!CompleteRestore
  <2>4. HelperShape' /\ NotMutable' /\ Helper!PendingCoversHost'
    BY <1>0, <1>1, <2>1, <2>2, <2>3 DEF HelperShape, NotMutable, Helper!PendingCoversHost, GoesTo
  <2>5. Prepared'
    BY <1>0, <2>3 DEF Prepared, Untouched, GoesTo
  <2> QED  BY <2>4, <2>5 DEF HelperInv
<1>4. CASE Helper!CompleteTrial
  BY <1>1, <1>4, TrialGone DEF Helper!CompleteTrial
<1> QED  BY <1>2, <1>3, <1>4

\* The end of a session, a kill, and the recovery from the journal.
LEMMA HelperEnds ==
  ASSUME HelperInv,
         Helper!Close \/ Helper!Exit \/ Helper!Kill \/ Helper!Recovery \/ Helper!GuardWakes \/ Helper!GuardSamples
  PROVE  HelperInv'
<1>0. HelperShape /\ Prepared /\ NotMutable /\ Helper!PendingCoversHost
  BY DEF HelperInv
<1>1. CASE Helper!Close
  <2>1. UNCHANGED pendingJournal /\ moved' = moved \ {Helper!Dma} /\ h' = Helper!Goto("exit")
    BY <1>1 DEF Helper!Close
  <2>2. GoesTo({"exit"})
    BY <1>0, <2>1 DEF HelperShape, HelperFields, Helper!Goto, GoesTo
  <2>3. HelperShape' /\ NotMutable' /\ Helper!PendingCoversHost'
    BY <1>0, <2>1, <2>2 DEF HelperShape, NotMutable, Helper!PendingCoversHost, GoesTo, Helper!Controls,
       Helper!Dma, Helper!Persistent
  <2>4. Prepared'
    BY <1>0, <2>1, <2>2 DEF Prepared, GoesTo, Helper!Dma
  <2> QED  BY <2>3, <2>4 DEF HelperInv
<1>2. CASE Helper!Exit
  BY <1>0, <1>2, HelperGone DEF Helper!Exit, HelperShape, Prepared, Untouched
<1>3. CASE Helper!Kill
  BY <1>0, <1>3, HelperGone, TornStays DEF Helper!Kill, HelperShape
<1>4. CASE Helper!RecoverBegins
  <2>1. h.pc = "recover" /\ UNCHANGED moved /\ Helper!Dma \notin moved
    BY <1>0, <1>4 DEF Helper!RecoverBegins, Prepared, Untouched
  <2>2. CASE UNCHANGED pendingJournal /\ h' = [Helper!Goto("recovering") EXCEPT !.pos = Steps]
    <3>1. GoesTo({"recovering"})
      BY <1>0, <2>2 DEF HelperShape, HelperFields, Helper!Goto, GoesTo
    <3> QED  BY <1>0, <2>1, <2>2, <3>1, HelperGoesOn DEF HelperShape, Untouched, GoesTo
  <2>3. CASE Helper!TearJournal /\ h' = Helper!Off
    BY <1>0, <2>1, <2>3, HelperGone, TornStays
  <2> QED  BY <1>4, <2>2, <2>3 DEF Helper!RecoverBegins
<1>5. CASE Helper!RecoverStep
  <2>1. h.pc = "recovering" /\ moved' \subseteq moved /\ UNCHANGED pendingJournal
    BY <1>5 DEF Helper!RecoverStep
  <2>2. h' = [h EXCEPT !.pos = @ - 1] \/ h' = [h EXCEPT !.pos = @ - 1, !.errs = TRUE]
    BY <1>5 DEF Helper!RecoverStep
  <2>3. GoesTo({"recovering"})
    BY <1>0, <2>1, <2>2 DEF HelperShape, HelperFields, GoesTo
  <2> QED  BY <1>0, <2>1, <2>3, HelperGoesOn DEF HelperShape, Untouched, GoesTo
<1>6. CASE Helper!RecoverCompletes
  <2>1. h.pc = "recovering" /\ h' = Helper!Off /\ UNCHANGED moved /\ Helper!Dma \notin moved
    BY <1>0, <1>6 DEF Helper!RecoverCompletes, Prepared, Untouched
  <2>2. UNCHANGED pendingJournal \/ Helper!TearJournal \/ (moved = {} /\ Helper!CompleteJournal)
    BY <1>6 DEF Helper!RecoverCompletes
  <2> QED  BY <1>0, <2>1, <2>2, HelperGone, TornStays, Completed DEF HelperShape
<1>7. CASE Helper!GuardWakes \/ Helper!GuardSamples
  <2>1. UNCHANGED <<moved, pendingJournal, h>>
    BY <1>7 DEF Helper!GuardWakes, Helper!GuardSamples
  <2> QED  BY <1>0, <2>1 DEF HelperInv, HelperShape, Prepared, NotMutable, Helper!PendingCoversHost
<1> QED  BY <1>1, <1>2, <1>3, <1>4, <1>5, <1>6, <1>7 DEF Helper!Recovery

LEMMA HelperStep ==
  ASSUME HelperInv, [Helper!Next]_(Helper!vars)
  PROVE  HelperInv'
<1>1. CASE UNCHANGED Helper!vars
  BY <1>1 DEF Helper!vars, HelperInv, HelperShape, Prepared, NotMutable, Helper!PendingCoversHost
<1> QED  BY <1>1, HelperStarts, HelperPrepares, HelperApplies, HelperRestores, HelperCompletes, HelperEnds
            DEF Helper!Next, Helper!Session

\* What a closing session leaves is true of the host it leaves.
LEMMA LeftBehindIsTrue ==
  ASSUME HelperInv, h.pc = "close", NEW passed
  PROVE  /\ Helper!LeftBehind(passed).receipt.proved => Helper!LeftBehind(passed).host = {}
         /\ Helper!LeftBehind(passed).receipt.status = "success" =>
                /\ Helper!LeftBehind(passed).receipt.stops = 1
                /\ Helper!LeftBehind(passed).gev.rows = Helper!LeftBehind(passed).receipt.rows
                /\ ~Helper!LeftBehind(passed).mutable
BY DEF HelperInv, NotMutable, Helper!LeftBehind

\* The archive is a sequence, to which only the end of a session appends.
Archived == \E S : archive \in Seq(S)

\* Only a session that seals its receipt adds to the archive.
LEMMA ArchiveGrows ==
  ASSUME [Helper!Next]_(Helper!vars)
  PROVE  UNCHANGED archive \/ Helper!Close
BY DEF Helper!Next, Helper!vars, Helper!Session, Helper!Recovery, Helper!Start, Helper!Preflight,
   Helper!Handshake, Helper!CapturePrior, Helper!CreateJournal, Helper!PriorEvidence,
   Helper!ApplyStep, Helper!ValidateApplied, Helper!StartGuard, Helper!AcknowledgeApply,
   Helper!Observe, Helper!StopGuardAtEnd, Helper!RecordObservation, Helper!AskRestore,
   Helper!Emergency, Helper!RestoreBegins, Helper!RestoreStep, Helper!ValidateRestored,
   Helper!SealControlEvidence, Helper!CompleteRestore, Helper!Exit, Helper!TrialPreflight,
   Helper!CompleteTrial, Helper!RecoverBegins, Helper!RecoverStep, Helper!RecoverCompletes,
   Helper!GuardWakes, Helper!GuardSamples, Helper!Kill

LEMMA ReceiptStep ==
  ASSUME HelperInv, Archived, Helper!ReceiptIsTrue, [Helper!Next]_(Helper!vars)
  PROVE  Archived' /\ Helper!ReceiptIsTrue'
<1>1. CASE UNCHANGED archive
  BY <1>1 DEF Archived, Helper!ReceiptIsTrue
<1>2. CASE Helper!Close
  <2>1. PICK passed : archive' = Append(archive, Helper!LeftBehind(passed))
    BY <1>2 DEF Helper!Close
  <2>2. PICK S : archive \in Seq(S)
    BY DEF Archived
  <2> DEFINE e == Helper!LeftBehind(passed)
  <2>3. archive \in Seq(S \cup {e})
    BY <2>2
  <2>4. /\ archive' \in Seq(S \cup {e}) /\ Len(archive') = Len(archive) + 1
        /\ archive'[Len(archive) + 1] = e
        /\ \A i \in 1..Len(archive) : archive'[i] = archive[i]
    <3>1. archive' = Append(archive, e) /\ e \in S \cup {e}
      BY <2>1
    <3> HIDE DEF e
    <3> QED  BY <2>3, <3>1, AppendProperties
  <2>5. /\ e.receipt.proved => e.host = {}
        /\ e.receipt.status = "success" =>
               e.receipt.stops = 1 /\ e.gev.rows = e.receipt.rows /\ ~e.mutable
    BY <1>2, LeftBehindIsTrue DEF Helper!Close
  <2> HIDE DEF e
  <2>6. DOMAIN archive' = 1..(Len(archive) + 1) /\ DOMAIN archive = 1..Len(archive) /\ Len(archive) \in Nat
    BY <2>2, <2>4
  <2>7. \A i \in DOMAIN archive' : i \in DOMAIN archive \/ i = Len(archive) + 1
    BY <2>6
  <2> QED  BY <2>4, <2>5, <2>6, <2>7 DEF Archived, Helper!ReceiptIsTrue
<1> QED  BY <1>1, <1>2, ArchiveGrows

(***************************************************************************)
(* JournalAlways: however often an operation fails or a helper is killed,  *)
(* a changed control is covered by a pending journal and a receipt claims  *)
(* a restoration only of a host at its prior state (HelperSession.run,     *)
(* _seal_terminal_receipt, recover_pending).                               *)
(***************************************************************************)
THEOREM JournalAlways == Helper!Spec => []JournalHolds
<1>1. Helper!Init => HelperInv /\ Archived /\ Helper!ReceiptIsTrue
  <2> SUFFICES ASSUME Helper!Init PROVE HelperInv /\ Archived /\ Helper!ReceiptIsTrue
    OBVIOUS
  <2>1. archive = <<>>
    BY DEF Helper!Init
  <2>2. <<>> \in Seq({0}) /\ DOMAIN <<>> = {}
    OBVIOUS
  <2> QED  BY <2>1, <2>2, HelperInit DEF Archived, Helper!ReceiptIsTrue
<1>2. HelperInv /\ Archived /\ Helper!ReceiptIsTrue /\ [Helper!Next]_(Helper!vars)
        => HelperInv' /\ Archived' /\ Helper!ReceiptIsTrue'
  BY HelperStep, ReceiptStep
<1>3. HelperInv /\ Helper!ReceiptIsTrue => JournalHolds
  BY DEF HelperInv, JournalHolds
<1> QED  BY <1>1, <1>2, <1>3, PTL DEF Helper!Spec

-----------------------------------------------------------------------------
\* The detached verifier

\* The stages of a session: up to the first sample of the guardian, while the
\* client measures, while the host is restored, and where errors end.
Fresh == {"preflight", "hello", "apply", "journal", "evidence", "controls", "guard"}
Observing == {"observe", "record", "asked"}
Undoing == {"restore", "undo", "proof", "complete"}
Handling == {"except", "close"}
SessionStages == Fresh \cup {"applied"} \cup Observing \cup Undoing \cup Handling
TrialStages == {"preflight", "capture", "journal", "controls", "restore", "undo", "proof",
                "recover", "recovering"}

\* A session whose receipt is still to be sealed.
Open == h.kind = "session" /\ h.pc # "exit"
\* The last event of the transcript tells of a restoration.
Told == Len(script) > 0 /\ script[Len(script)].e = "restore"
Sequence(s) == \E S : s \in Seq(S)

Kinds ==
    /\ h.kind \in {"none", "session", "trial"}
    /\ h.kind = "none" => h.pc = "off"
    /\ h.kind = "trial" => h.pc \in TrialStages
    /\ h.kind = "session" => h.pc \in SessionStages \cup {"exit"}

\* The helpers are numbered, and a session archives once.
Numbered ==
    /\ sessions \in Nat /\ (h.kind # "none" => h.sid = sessions)
    /\ \A i \in DOMAIN archive : archive[i].sid \in Nat /\ archive[i].sid <= sessions
    /\ Open => \A i \in DOMAIN archive : archive[i].sid < sessions
    /\ \A i, j \in DOMAIN archive : archive[i].sid = archive[j].sid => i = j

Stages ==
    /\ h.pc \in {"preflight", "hello"} => ~h.prior
    /\ h.pc = "journal" => h.prior
    /\ h.pc \in {"evidence", "controls", "guard", "applied"} \cup Observing \cup Undoing => h.prior /\ h.held
    /\ h.pc \in {"observe", "record"} => h.slot \in 1..Helper!LastSlot

\* The guardian's rows do not change once its evidence is sealed.
GuardRows ==
    /\ DOMAIN gev = {"rows", "sealed", "late"} /\ gev.rows \in Nat
    /\ h.pc \in Fresh => ~gev.sealed /\ ~h.seal
    /\ h.pc \in {"applied"} \cup Observing => gev.rows > 0
    /\ h.seal => gev.sealed /\ ~h.active /\ h.stops = 1

\* The control evidence.  Once sealed it is told in the transcript, or will be, or
\* the session does not know how its host is.
ControlRows ==
    /\ DOMAIN cev = {"phases", "whole", "sealed"}
    /\ h.pc \in Fresh => ~cev.sealed
    /\ h.pc \in {"guard", "applied"} => cev.phases = <<"prior", "applied">>
    /\ cev.sealed => cev.phases \in {Helper!Success, Helper!FailClosed} /\ h.prior /\ h.held
    /\ h.pc = "complete" => cev.sealed
    /\ h.pc = "close" /\ cev.sealed => Told \/ h.err = "indeterminate"

\* How long the transcript is, and that a restoration ends it.
Transcript ==
    /\ Sequence(script)
    /\ h.prior => Len(script) >= 2
    /\ h.pc \in {"apply", "journal", "evidence", "controls", "guard", "applied"} => Len(script) = 2
    /\ h.pc \in {"observe", "record"} => Len(script) = 2 + h.slot
    /\ Told <=> h.state \in {"restored", "closed"}
    /\ Told => h.pc \in Handling

\* An event is this session's, in the frozen order, and says what the evidence says.
EventHolds(i) ==
    /\ script[i].sid = h.sid
    /\ script[i].e = "restore" =>
          /\ i = Len(script) /\ script[i].phases = cev.phases /\ cev.sealed
          /\ script[i].down => h.abnormal
    /\ script[i].e # "restore" =>
          /\ i < Len(Helper!SuccessNames) /\ script[i].e = Helper!SuccessNames[i]
          /\ i = 3 => script[i].phases = <<"prior", "applied">>
          /\ i > 3 => script[i].k = i - 3
          /\ i > 3 /\ i - 3 # Helper!LastSlot => script[i].rows = 0
          /\ i - 3 = Helper!LastSlot => h.seal /\ gev.rows > 0 /\ script[i].rows = gev.rows
Events == \A i \in 1..Len(script) : EventHolds(i)

SessionInv == Stages /\ GuardRows /\ ControlRows /\ Transcript /\ Events

\* What a session left behind is of one piece and the verifier accepts it.
Whole(a) ==
    /\ a.receipt.script = a.script /\ a.gev.sid = a.sid /\ a.cev.sid = a.sid
    /\ Sequence(a.script) /\ \A i \in 1..Len(a.script) : a.script[i].sid = a.sid
    /\ a.receipt.sid = IF Len(a.script) > 1 THEN a.sid ELSE 0
Passes(a) ==
    a.receipt.status # "indeterminate" /\ (\A k \in DOMAIN a.script : ~a.script[k].down
                                               \/ a.script[k].e = "restore")
        => Helper!Verify(a.receipt, a.script, a.gev, a.cev)
ArchiveHolds == Archived /\ \A i \in DOMAIN archive : Whole(archive[i]) /\ Passes(archive[i])

VerifierInv == Kinds /\ Numbered /\ (Open => SessionInv) /\ ArchiveHolds

-----------------------------------------------------------------------------
\* The frozen order of the events.
LEMMA NamesAre ==
  /\ Helper!LastSlot \in Nat /\ Helper!LastSlot >= 2
  /\ Len(Helper!SuccessNames) = Helper!LastSlot + 4
  /\ DOMAIN Helper!SuccessNames = 1..(Helper!LastSlot + 4) /\ Sequence(Helper!SuccessNames)
  /\ Helper!SuccessNames[1] = "challenge" /\ Helper!SuccessNames[2] = "hello"
  /\ Helper!SuccessNames[3] = "apply" /\ Helper!SuccessNames[Helper!LastSlot + 4] = "restore"
  /\ \A k \in 1..Helper!LastSlot : Helper!SuccessNames[3 + k] = "observation"
<1> DEFINE n == 2 * Runs
           a == <<"challenge", "hello", "apply">>
           b == [k \in 1..n |-> "observation"]
           S == {"challenge", "hello", "apply", "observation", "restore"}
<1>1. n \in Nat /\ n >= 2 /\ Helper!LastSlot = n
  BY HelperAssumption DEF Helper!LastSlot
<1>2. /\ a \in Seq(S) /\ Len(a) = 3
      /\ b \in Seq(S) /\ Len(b) = n /\ (\A k \in 1..n : b[k] = "observation")
      /\ <<"restore">> \in Seq(S) /\ Len(<<"restore">>) = 1
  BY <1>1
<1>3. Helper!SuccessNames = a \o b \o <<"restore">>
  BY <1>1 DEF Helper!SuccessNames
<1>4. a[1] = "challenge" /\ a[2] = "hello" /\ a[3] = "apply" /\ <<"restore">>[1] = "restore"
  OBVIOUS
<1> HIDE DEF n, a, b, S
<1>5. /\ a \o b \in Seq(S) /\ Len(a \o b) = n + 3
      /\ \A i \in 1..(n + 3) : (a \o b)[i] = IF i <= 3 THEN a[i] ELSE b[i - 3]
  <2>1. /\ a \o b \in Seq(S) /\ Len(a \o b) = Len(a) + Len(b)
        /\ \A i \in 1..Len(a) + Len(b) : (a \o b)[i] = IF i <= Len(a) THEN a[i] ELSE b[i - Len(a)]
    BY <1>2, ConcatProperties
  <2>2. Len(a) + Len(b) = n + 3
    BY <1>1, <1>2
  <2> QED  BY <1>2, <2>1, <2>2
<1> DEFINE c == a \o b
           d == <<"restore">>
<1>6. c \in Seq(S) /\ Len(c) = n + 3 /\ d \in Seq(S) /\ Len(d) = 1
  BY <1>2, <1>5
<1> HIDE DEF c, d
<1>7. /\ c \o d \in Seq(S) /\ Len(c \o d) = n + 4
      /\ \A i \in 1..(n + 4) : (c \o d)[i] = IF i <= n + 3 THEN c[i] ELSE d[i - (n + 3)]
  <2>1. /\ c \o d \in Seq(S) /\ Len(c \o d) = Len(c) + Len(d)
        /\ \A i \in 1..Len(c) + Len(d) : (c \o d)[i] = IF i <= Len(c) THEN c[i] ELSE d[i - Len(c)]
    BY <1>6, ConcatProperties
  <2>2. Len(c) + Len(d) = n + 4
    BY <1>1, <1>6
  <2> QED  BY <1>6, <2>1, <2>2
<1>8. \A i \in 1..(n + 3) : (c \o d)[i] = IF i <= 3 THEN a[i] ELSE b[i - 3]
  BY <1>1, <1>5, <1>7 DEF c
<1>9. (c \o d)[n + 4] = "restore"
  BY <1>1, <1>4, <1>7 DEF d
<1>10. Helper!SuccessNames = c \o d
  BY <1>3 DEF c, d
<1> HIDE DEF c, d
<1>11. \A k \in 1..n : (c \o d)[3 + k] = "observation"
  <2> TAKE k \in 1..n
  <2>1. 3 + k \in 1..(n + 3) /\ ~(3 + k <= 3) /\ (3 + k) - 3 = k
    BY <1>1
  <2> QED  BY <1>2, <1>8, <2>1
<1>12. DOMAIN (c \o d) = 1..(n + 4)
  BY <1>7
<1>13. Sequence(c \o d)
  BY <1>7 DEF Sequence
<1>14. (c \o d)[1] = "challenge" /\ (c \o d)[2] = "hello" /\ (c \o d)[3] = "apply"
  <2>1. 1 \in 1..(n + 3) /\ 2 \in 1..(n + 3) /\ 3 \in 1..(n + 3)
    BY <1>1
  <2> DEFINE w == c \o d
  <2>2. \A i \in 1..(n + 3) : i <= 3 => w[i] = a[i]
    BY <1>8
  <2> HIDE DEF w
  <2>3. w[1] = a[1] /\ w[2] = a[2] /\ w[3] = a[3]
    BY <2>1, <2>2
  <2> QED  BY <1>4, <2>3 DEF w
<1>15. Len(c \o d) = n + 4
  BY <1>7
<1> QED  BY <1>1, <1>9, <1>10, <1>11, <1>12, <1>13, <1>14, <1>15

\* An error: the handler it reaches, and that it forgets nothing of the session.
LEMMA RaisedIs ==
  ASSUME HelperShape, NEW e, NEW r, r = Helper!Raised(e)
  PROVE  /\ DOMAIN r = HelperFields /\ r.pc \in {"close", "except"}
         /\ r.pc = "close" => r.err = "indeterminate"
         /\ r.state \in {h.state, "indeterminate"}
         /\ r.kind = h.kind /\ r.sid = h.sid /\ r.slot = h.slot /\ r.prior = h.prior /\ r.held = h.held
         /\ r.active = h.active /\ r.stops = h.stops /\ r.seal = h.seal /\ r.abnormal = h.abnormal
BY DEF HelperShape, HelperFields, Helper!Raised

LEMMA OffIs ==
  /\ Helper!Off.kind = "none" /\ Helper!Off.pc = "off" /\ ~Helper!Off.seal /\ ~Helper!Off.prior
  /\ Helper!Off.state = "new" /\ DOMAIN Helper!Off = HelperFields
BY DEF Helper!Off, Helper!None, HelperFields

\* What a step must not forget for the events to stay true.
Remembers ==
    /\ h'.sid = h.sid /\ (h.abnormal => h'.abnormal)
    /\ h.seal => h'.seal /\ gev'.rows = gev.rows
    /\ Told => cev'.phases = cev.phases /\ cev'.sealed

LEMMA EventsKept ==
  ASSUME Events, Sequence(script), UNCHANGED script, Remembers
  PROVE  Events' /\ (Told' <=> Told) /\ Sequence(script)'
<1>1. Len(script) \in Nat
  BY DEF Sequence
<1>2. ASSUME NEW i \in 1..Len(script) PROVE EventHolds(i)'
  <2>1. EventHolds(i)
    BY DEF Events
  <2>2. script[i].e = "restore" => Told
    BY <1>1, <2>1 DEF EventHolds, Told
  <2> QED  BY <2>1, <2>2 DEF EventHolds, Remembers
<1> QED  BY <1>2 DEF Events, Told, Sequence

LEMMA EventsAppended ==
  ASSUME Events, Sequence(script), ~Told, NEW v, script' = Append(script, v), Remembers,
         \A n : n = Len(script) + 1 /\ n = Len(script') /\ script'[n] = v => EventHolds(n)'
  PROVE  /\ Events' /\ Sequence(script)' /\ Len(script) \in Nat /\ Len(script') = Len(script) + 1
         /\ script'[Len(script) + 1] = v /\ (Told' <=> v.e = "restore")
<1>1. /\ Sequence(script') /\ Len(script) \in Nat /\ Len(script') = Len(script) + 1
      /\ script'[Len(script) + 1] = v /\ \A i \in 1..Len(script) : script'[i] = script[i]
  <2>1. PICK S : script \in Seq(S)
    BY DEF Sequence
  <2>2. script \in Seq(S \cup {v}) /\ v \in S \cup {v}
    BY <2>1
  <2>3. /\ script' \in Seq(S \cup {v}) /\ Len(script') = Len(script) + 1 /\ script'[Len(script) + 1] = v
        /\ \A i \in 1..Len(script) : script'[i] = script[i]
    BY <2>2, AppendProperties
  <2> QED  BY <2>2, <2>3 DEF Sequence
<1>2. ASSUME NEW i \in 1..Len(script) PROVE EventHolds(i)'
  <2>1. EventHolds(i) /\ script'[i] = script[i]
    BY <1>1 DEF Events
  <2>2. script[i].e # "restore"
    BY <1>1, <2>1 DEF EventHolds, Told
  <2> QED  BY <2>1, <2>2 DEF EventHolds, Remembers
<1>3. ASSUME NEW i \in 1..Len(script') PROVE EventHolds(i)'
  <2>1. i \in 1..Len(script) \/ i = Len(script) + 1
    BY <1>1
  <2>2. CASE i = Len(script) + 1
    BY <1>1, <2>2
  <2> QED  BY <1>2, <2>1, <2>2
<1> QED  BY <1>1, <1>3 DEF Events, Told, Sequence

\* The session stays the same one and forgets nothing.
Carries ==
    /\ h'.kind = "session" /\ h'.sid = h.sid /\ (h.abnormal => h'.abnormal)
    /\ (h.prior => h'.prior) /\ (h.held => h'.held) /\ (h.seal => h'.seal)
Early == {"apply", "journal", "evidence", "controls", "guard", "applied"}

\* A step that leaves the guardian's evidence and its seal alone.
LEMMA GuardKept ==
  ASSUME GuardRows, UNCHANGED gev, h'.seal = h.seal, h'.stops = h.stops \/ ~h.seal, h'.active = h.active \/ ~h.seal,
         h'.pc \in Fresh => h.pc \in Fresh,
         h'.pc \in {"applied"} \cup Observing => h.pc \in {"applied"} \cup Observing
  PROVE  GuardRows' /\ (h.seal => h'.seal /\ gev'.rows = gev.rows)
BY DEF GuardRows

\* A step that leaves transcript and control evidence alone.
LEMMA SessionMoves ==
  ASSUME SessionInv, Carries, UNCHANGED <<script, cev>>, Stages', GuardRows', h.seal => gev'.rows = gev.rows,
         h'.pc \in Fresh => h.pc \in Fresh,
         h'.pc \in {"guard", "applied"} => h.pc \in {"guard", "applied"},
         h'.pc = "complete" => h.pc = "complete",
         h'.pc = "close" => Told \/ ~cev.sealed \/ h'.err = "indeterminate",
         h'.prior => h.prior \/ h.pc \in Early,
         h'.pc \in Early => h.pc \in Early,
         h'.pc \in {"observe", "record"} => h.pc \in {"observe", "record"} /\ h'.slot = h.slot,
         h'.state \in {"restored", "closed"} <=> h.state \in {"restored", "closed"},
         Told => h'.pc \in Handling
  PROVE  SessionInv'
<1>1. Stages /\ GuardRows /\ ControlRows /\ Transcript /\ Events
  BY DEF SessionInv
<1>2. Remembers
  BY <1>1 DEF Remembers, Carries, ControlRows, Told, Transcript, Events, EventHolds, Sequence
<1>3. Events' /\ (Told' <=> Told) /\ Sequence(script)'
  BY <1>1, <1>2, EventsKept DEF Transcript
<1>4. ControlRows'
  BY <1>1, <1>3 DEF ControlRows, Carries
<1>5. Transcript'
  <2>1. Len(script) \in Nat /\ (h.prior => Len(script) >= 2)
    BY <1>1 DEF Transcript, Sequence
  <2>2. h.pc \in Early => Len(script) = 2
    BY <1>1 DEF Transcript, Early
  <2>3. h'.prior => Len(script') >= 2
    BY <2>1, <2>2
  <2>4. h'.pc \in Early => Len(script') = 2
    BY <2>2
  <2>5. h'.pc \in {"observe", "record"} => Len(script') = 2 + h'.slot
    BY <1>1 DEF Transcript
  <2>6. Told' <=> h'.state \in {"restored", "closed"}
    BY <1>1, <1>3 DEF Transcript
  <2>7. Told' => h'.pc \in Handling
    BY <1>3
  <2> QED  BY <1>3, <2>3, <2>4, <2>5, <2>6, <2>7 DEF Transcript, Early
<1> QED  BY <1>3, <1>4, <1>5 DEF SessionInv

\* An error before or during the restoration.
LEMMA SessionBreaks ==
  ASSUME SessionInv, Carries, UNCHANGED script, h.pc \notin Handling, GuardRows',
         h.seal => gev'.rows = gev.rows, h'.prior = h.prior,
         h'.pc \in Handling, h'.pc = "close" => h'.err = "indeterminate", h'.state \notin {"restored", "closed"},
         DOMAIN cev' = {"phases", "whole", "sealed"},
         cev'.sealed => cev'.phases \in {Helper!Success, Helper!FailClosed} /\ h.prior /\ h.held
  PROVE  SessionInv'
<1>1. Stages /\ GuardRows /\ ControlRows /\ Transcript /\ Events
  BY DEF SessionInv
<1>2. ~Told
  BY <1>1 DEF Transcript
<1>3. Events' /\ (Told' <=> Told) /\ Sequence(script)'
  BY <1>1, <1>2, EventsKept DEF Transcript, Remembers, Carries
<1>4. Stages'
  BY DEF Stages, Handling, Observing, Undoing
<1>5. ControlRows'
  BY DEF ControlRows, Carries, Handling, Fresh
<1>6. Transcript'
  BY <1>1, <1>2, <1>3 DEF Transcript, Handling
<1> QED  BY <1>3, <1>4, <1>5, <1>6 DEF SessionInv

\* A step that appends an event to the transcript.
LEMMA SessionTells ==
  ASSUME SessionInv, Carries, h.pc \notin Handling, UNCHANGED cev, NEW v, script' = Append(script, v),
         \A n : n = Len(script) + 1 /\ n = Len(script') /\ script'[n] = v => EventHolds(n)',
         Stages', GuardRows', h.seal => gev'.rows = gev.rows, h'.prior = h.prior,
         h'.pc \notin Fresh \cup {"applied", "complete"},
         h'.pc = "close" => v.e = "restore" \/ h'.err = "indeterminate",
         h'.pc \in {"observe", "record"} => h'.slot = Len(script) - 1,
         h'.state \in {"restored", "closed"} <=> v.e = "restore",
         v.e = "restore" => h'.pc \in Handling
  PROVE  SessionInv'
<1>1. Stages /\ GuardRows /\ ControlRows /\ Transcript /\ Events
  BY DEF SessionInv
<1>2. ~Told
  BY <1>1 DEF Transcript
<1>3. /\ Events' /\ Sequence(script)' /\ Len(script) \in Nat /\ Len(script') = Len(script) + 1
      /\ Told' <=> v.e = "restore"
  BY <1>1, <1>2, EventsAppended DEF Transcript, Remembers, Carries
<1>4. ControlRows'
  BY <1>1, <1>3 DEF ControlRows, Carries, Fresh
<1>5. Transcript'
  BY <1>1, <1>3 DEF Transcript, Fresh
<1> QED  BY <1>3, <1>4, <1>5 DEF SessionInv

\* An error as its handlers see it.
Breaking ==
    /\ Carries /\ h'.pc \in Handling /\ (h'.pc = "close" => h'.err = "indeterminate")
    /\ h'.state \notin {"restored", "closed"} /\ h'.prior = h.prior /\ h'.seal = h.seal
    /\ h'.stops = h.stops \/ ~h.seal
    /\ h'.active = h.active \/ ~h.seal

LEMMA RaisedBreaks ==
  ASSUME HelperShape, h.kind = "session", h.state \notin {"restored", "closed"}, NEW e
  PROVE  /\ h' = Helper!Raised(e) => Breaking
         /\ \A s : s \notin {"restored", "closed"} /\ h' = [Helper!Raised(e) EXCEPT !.state = s] => Breaking
         /\ \A a : ~h.seal /\ h' = [Helper!Raised(e) EXCEPT !.active = a] => Breaking
         /\ \A n : ~h.seal /\ h' = [Helper!Raised(e) EXCEPT !.stops = n] => Breaking
<1> DEFINE r == Helper!Raised(e)
<1>1. /\ DOMAIN r = HelperFields /\ r.pc \in {"close", "except"}
      /\ r.pc = "close" => r.err = "indeterminate"
      /\ r.state \in {h.state, "indeterminate"}
      /\ r.kind = h.kind /\ r.sid = h.sid /\ r.slot = h.slot /\ r.prior = h.prior /\ r.held = h.held
      /\ r.active = h.active /\ r.stops = h.stops /\ r.seal = h.seal /\ r.abnormal = h.abnormal
  BY RaisedIs
<1> HIDE DEF r
<1>2. h' = r => Breaking
  BY <1>1 DEF Breaking, Carries, Handling
<1>3. ASSUME NEW s, s \notin {"restored", "closed"}, h' = [r EXCEPT !.state = s] PROVE Breaking
  BY <1>1, <1>3 DEF Breaking, Carries, Handling, HelperFields
<1>4. ASSUME NEW a, ~h.seal, h' = [r EXCEPT !.active = a] PROVE Breaking
  BY <1>1, <1>4 DEF Breaking, Carries, Handling, HelperFields
<1>5. ASSUME NEW n, ~h.seal, h' = [r EXCEPT !.stops = n] PROVE Breaking
  BY <1>1, <1>5 DEF Breaking, Carries, Handling, HelperFields
<1> QED  BY <1>2, <1>3, <1>4, <1>5 DEF r

\* The step of a session that goes on.
Continues == SessionInv' /\ Carries /\ h'.pc \in SessionStages

LEMMA ErrorContinues ==
  ASSUME SessionInv, h.pc \notin Handling, Breaking, UNCHANGED <<script, gev>>,
         \/ UNCHANGED cev
         \/ /\ DOMAIN cev' = {"phases", "whole", "sealed"}
            /\ cev'.sealed => cev'.phases \in {Helper!Success, Helper!FailClosed} /\ h.prior /\ h.held
  PROVE  Continues
<1>1. GuardRows /\ ControlRows
  BY DEF SessionInv
<1>2. GuardRows' /\ (h.seal => h'.seal /\ gev'.rows = gev.rows)
  BY <1>1, GuardKept DEF Breaking, Handling, Fresh, Observing
<1>3. /\ DOMAIN cev' = {"phases", "whole", "sealed"}
      /\ cev'.sealed => cev'.phases \in {Helper!Success, Helper!FailClosed} /\ h.prior /\ h.held
  BY <1>1 DEF ControlRows
<1>4. SessionInv'
  BY <1>2, <1>3, SessionBreaks DEF Breaking
<1> QED  BY <1>4 DEF Continues, Breaking, SessionStages

\* A step to the label l that changes neither evidence nor seal.
LEMMA Proceeds ==
  ASSUME SessionInv, Carries, UNCHANGED <<script, gev, cev>>, h'.pc \in SessionStages, Stages',
         h'.seal = h.seal, h'.stops = h.stops, h'.active = h.active,
         h'.pc \in Fresh => h.pc \in Fresh,
         h'.pc \in {"applied"} \cup Observing => h.pc \in {"applied"} \cup Observing,
         h'.pc \in {"guard", "applied"} => h.pc \in {"guard", "applied"},
         h'.pc = "complete" => h.pc = "complete",
         h'.pc = "close" => Told \/ ~cev.sealed \/ h'.err = "indeterminate",
         h'.prior => h.prior \/ h.pc \in Early,
         h'.pc \in Early => h.pc \in Early,
         h'.pc \in {"observe", "record"} => h.pc \in {"observe", "record"} /\ h'.slot = h.slot,
         h'.state \in {"restored", "closed"} <=> h.state \in {"restored", "closed"},
         Told => h'.pc \in Handling
  PROVE  Continues
<1>1. GuardRows
  BY DEF SessionInv
<1>2. GuardRows' /\ (h.seal => h'.seal /\ gev'.rows = gev.rows)
  BY <1>1, GuardKept
<1>3. SessionInv'
  BY <1>2, SessionMoves
<1> QED  BY <1>3 DEF Continues

-----------------------------------------------------------------------------
LEMMA AppliedFollows == Append(<<"prior">>, "applied") = <<"prior", "applied">>
<1> DEFINE S == {"prior", "applied"}
           s == <<"prior">>
           t == <<"prior", "applied">>
           e == "applied"
           u == Append(s, e)
<1>0. s \in Seq(S) /\ e \in S
  OBVIOUS
<1>1. Len(s) = 1 /\ s[1] = "prior"
  OBVIOUS
<1>2. t \in Seq(S) /\ Len(t) = 2 /\ t[1] = "prior" /\ t[2] = e
  OBVIOUS
<1> HIDE DEF S, s, t, e
<1>3. /\ u \in Seq(S) /\ Len(u) = Len(s) + 1 /\ u[Len(s) + 1] = e
      /\ \A i \in 1..Len(s) : u[i] = s[i]
  BY <1>0, AppendProperties
<1> HIDE DEF u
<1>4. Len(u) = 2 /\ u[1] = "prior" /\ u[2] = e
  BY <1>1, <1>3
<1>5. \A i \in 1..2 : u[i] = t[i]
  BY <1>2, <1>4
<1>6. u = t
  BY <1>2, <1>3, <1>4, <1>5, SeqEqual
<1> QED  BY <1>6 DEF u, s, t, e

\* The steps of a session up to the first change of the host.
LEMMA SessionPrepares ==
  ASSUME HelperShape, h.kind = "session", h.pc \in SessionStages, SessionInv,
         \/ Helper!Preflight \/ Helper!CapturePrior \/ Helper!CreateJournal \/ Helper!PriorEvidence
         \/ Helper!ApplyStep \/ Helper!ValidateApplied
  PROVE  Continues
<1>0. Stages /\ GuardRows /\ ControlRows /\ Transcript /\ Events
  BY DEF SessionInv
<1>1. /\ h.pc \in {"preflight", "apply", "journal", "evidence", "controls"} /\ h.pc \notin Handling
      /\ UNCHANGED <<script, gev>> /\ ~Told /\ h.state \notin {"restored", "closed"}
  <2>1. /\ h.pc \in {"preflight", "apply", "journal", "evidence", "controls"}
        /\ UNCHANGED <<script, gev>>
    BY DEF Helper!Preflight, Helper!CapturePrior, Helper!CreateJournal, Helper!PriorEvidence,
       Helper!ApplyStep, Helper!ValidateApplied, Helper!files, SessionStages, Fresh, Observing, Undoing, Handling
  <2> QED  BY <1>0, <2>1 DEF Transcript, Handling
<1>2. ASSUME UNCHANGED cev, h' = Helper!Raised("error") \/ h' = Helper!Raised("indeterminate")
      PROVE  Continues
  BY <1>1, <1>2, RaisedBreaks, ErrorContinues
<1>3. CASE Helper!Preflight
  <2>1. UNCHANGED cev /\ h.pc = "preflight"
    BY <1>3 DEF Helper!Preflight, Helper!files
  <2>2. CASE h' = Helper!Raised("indeterminate")
    BY <1>2, <2>1, <2>2
  <2>3. CASE h' = [Helper!Goto("hello") EXCEPT !.preflight = TRUE]
    <3>1. /\ Carries /\ h'.pc = "hello" /\ h'.prior = h.prior /\ h'.state = h.state
          /\ h'.seal = h.seal /\ h'.stops = h.stops /\ h'.active = h.active
      BY <2>3 DEF HelperShape, HelperFields, Helper!Goto, Carries
    <3>2. Stages'
      BY <1>0, <2>1, <3>1 DEF Stages, Observing, Undoing
    <3> QED  BY <1>1, <2>1, <3>1, <3>2, Proceeds DEF Fresh, Observing, Early, Handling, SessionStages
  <2> QED  BY <1>3, <2>2, <2>3 DEF Helper!Preflight
<1>4. CASE Helper!CapturePrior
  <2>1. UNCHANGED cev /\ h.pc = "apply"
    BY <1>1, <1>4 DEF Helper!CapturePrior, Helper!files
  <2>2. CASE h' = [Helper!Goto("journal") EXCEPT !.state = "capturing_prior", !.prior = TRUE]
    <3>1. /\ Carries /\ h'.pc = "journal" /\ h'.prior /\ h'.state = "capturing_prior"
          /\ h'.seal = h.seal /\ h'.stops = h.stops /\ h'.active = h.active
      BY <2>2 DEF HelperShape, HelperFields, Helper!Goto, Carries
    <3>2. Stages'
      BY <3>1 DEF Stages, Observing, Undoing
    <3> QED  BY <1>1, <2>1, <3>1, <3>2, Proceeds DEF Fresh, Observing, Early, Handling, SessionStages
  <2>3. CASE \E received \in BOOLEAN :
               h' = [Helper!Raised("error") EXCEPT !.state = IF received THEN "capturing_prior" ELSE @]
    <3>1. PICK received \in BOOLEAN :
            h' = [Helper!Raised("error") EXCEPT
                      !.state = IF received THEN "capturing_prior" ELSE Helper!Raised("error").state]
      BY <2>3
    <3>2. (IF received THEN "capturing_prior" ELSE Helper!Raised("error").state) \notin {"restored", "closed"}
      BY <1>1, RaisedIs
    <3>3. Breaking
      BY <1>1, <3>1, <3>2, RaisedBreaks
    <3> QED  BY <1>1, <2>1, <3>3, ErrorContinues
  <2> QED  BY <1>4, <2>2, <2>3 DEF Helper!CapturePrior
<1>5. CASE Helper!CreateJournal
  <2>1. UNCHANGED cev /\ h.pc = "journal"
    BY <1>5 DEF Helper!CreateJournal, Helper!files
  <2>2. CASE h' = Helper!Raised("error")
    BY <1>2, <2>1, <2>2
  <2>3. CASE h' = [Helper!Goto(IF h.kind = "trial" THEN "controls" ELSE "evidence") EXCEPT
                       !.held = TRUE, !.pos = 1]
    <3>1. /\ Carries /\ h'.pc = "evidence" /\ h'.prior = h.prior /\ h'.held /\ h'.state = h.state
          /\ h'.seal = h.seal /\ h'.stops = h.stops /\ h'.active = h.active
      BY <2>3 DEF HelperShape, HelperFields, Helper!Goto, Carries
    <3>2. Stages'
      BY <1>0, <2>1, <3>1 DEF Stages, Observing, Undoing
    <3> QED  BY <1>1, <2>1, <3>1, <3>2, Proceeds DEF Fresh, Observing, Early, Handling, SessionStages
  <2> QED  BY <1>5, <2>2, <2>3 DEF Helper!CreateJournal
<1>6. CASE Helper!ApplyStep
  <2>1. UNCHANGED cev /\ h.pc = "controls"
    BY <1>6 DEF Helper!ApplyStep, Helper!files
  <2>2. CASE h' = Helper!Raised("error")
    BY <1>2, <2>1, <2>2
  <2>3. CASE h' = [h EXCEPT !.pos = @ + 1]
    <3>1. /\ Carries /\ h'.pc = h.pc /\ h'.prior = h.prior /\ h'.held = h.held /\ h'.state = h.state
          /\ h'.seal = h.seal /\ h'.stops = h.stops /\ h'.active = h.active
      BY <2>3 DEF HelperShape, HelperFields, Carries
    <3>2. Stages'
      BY <1>0, <2>1, <3>1 DEF Stages, Observing, Undoing
    <3> QED  BY <1>1, <2>1, <3>1, <3>2, Proceeds DEF Fresh, Observing, Early, Handling, SessionStages
  <2> QED  BY <1>6, <2>2, <2>3 DEF Helper!ApplyStep
\* A phase becomes evidence.
<1>7. ASSUME NEW l \in {"controls", "guard"}, h'.pc = l, Carries,
             Helper!AppendPhase(IF l = "guard" THEN "applied" ELSE "prior"),
             h'.state \notin {"restored", "closed"}, h'.prior = h.prior, h'.seal = h.seal,
             h'.stops = h.stops, h'.active = h.active,
             h.pc \in {"evidence", "controls"}
      PROVE  Continues
  <2>1. /\ DOMAIN cev' = {"phases", "whole", "sealed"} /\ ~cev'.sealed
        /\ l = "guard" => cev'.phases = <<"prior", "applied">>
    <3>1. /\ DOMAIN cev' = {"phases", "whole", "sealed"} /\ ~cev'.sealed
          /\ cev'.phases = Append(cev.phases, IF l = "guard" THEN "applied" ELSE "prior")
      BY <1>0, <1>7 DEF ControlRows, Helper!AppendPhase, Helper!MayAppend
    <3>2. CASE l = "guard"
      <4>1. Helper!MayAppend(cev, "applied")
        BY <1>7, <3>2 DEF Helper!AppendPhase
      <4>2. <<>> # <<"prior">> /\ <<"prior">> # <<"prior", "applied">> /\ <<>> # <<"prior", "applied">>
        OBVIOUS
      <4>3. cev.phases = <<"prior">>
        BY <4>1, <4>2 DEF Helper!MayAppend
      <4>4. Append(<<"prior">>, "applied") = <<"prior", "applied">>
        BY AppliedFollows
      <4> QED  BY <3>1, <3>2, <4>3, <4>4
    <3> QED  BY <3>1, <3>2
  <2>2. Stages'
    BY <1>0, <1>7 DEF Stages, Observing, Undoing, Carries
  <2>3. GuardRows' /\ (h.seal => h'.seal /\ gev'.rows = gev.rows)
    BY <1>0, <1>1, <1>7, GuardKept DEF Fresh, Observing
  <2>4. Events' /\ (Told' <=> Told) /\ Sequence(script)'
    BY <1>0, <1>1, <1>7, <2>3, EventsKept DEF Transcript, Remembers, Carries
  <2>5. ControlRows'
    BY <1>7, <2>1 DEF ControlRows
  <2>6. Transcript'
    BY <1>0, <1>1, <1>7, <2>4 DEF Transcript
  <2> QED  BY <1>7, <2>2, <2>3, <2>4, <2>5, <2>6 DEF SessionInv, Continues, SessionStages, Fresh
\* An error after the evidence was touched.
<1>8. ASSUME h' = Helper!Raised("error"), h.pc \in {"evidence", "controls"},
             \/ Helper!TearEvidence \/ Helper!AppendPhase("prior")
             \/ cev' = [cev EXCEPT !.phases = Append(@, "applied")]
      PROVE  Continues
  <2>1. DOMAIN cev' = {"phases", "whole", "sealed"} /\ ~cev'.sealed
    BY <1>0, <1>8 DEF ControlRows, Helper!AppendPhase, Helper!TearEvidence, Fresh
  <2>2. Breaking
    BY <1>1, <1>8, RaisedBreaks
  <2> QED  BY <1>1, <2>1, <2>2, ErrorContinues
<1>9. CASE Helper!PriorEvidence
  <2>1. h.pc = "evidence"
    BY <1>9 DEF Helper!PriorEvidence
  <2>2. CASE Helper!AppendPhase("prior") /\ h' = [Helper!Goto("controls") EXCEPT !.state = "applying", !.mutable = TRUE]
    <3>1. /\ Carries /\ h'.pc = "controls" /\ h'.prior = h.prior /\ h'.held = h.held /\ h'.state = "applying"
          /\ h'.seal = h.seal /\ h'.stops = h.stops /\ h'.active = h.active
      BY <2>2 DEF HelperShape, HelperFields, Carries, Helper!Goto
    <3> QED  BY <1>7, <2>1, <2>2, <3>1
  <2>3. CASE h' = Helper!Raised("error") /\ (Helper!TearEvidence \/ Helper!AppendPhase("prior"))
    BY <1>8, <2>1, <2>3
  <2> QED  BY <1>9, <2>2, <2>3 DEF Helper!PriorEvidence
<1>10. CASE Helper!ValidateApplied
  <2>1. h.pc = "controls"
    BY <1>10 DEF Helper!ValidateApplied
  <2>2. CASE Helper!AppendPhase("applied") /\ h' = Helper!Goto("guard")
    <3>1. /\ Carries /\ h'.pc = "guard" /\ h'.prior = h.prior /\ h'.held = h.held /\ h'.state = h.state
          /\ h'.seal = h.seal /\ h'.stops = h.stops /\ h'.active = h.active
      BY <2>2 DEF HelperShape, HelperFields, Carries, Helper!Goto
    <3> QED  BY <1>1, <1>7, <2>1, <2>2, <3>1
  <2>3. CASE /\ h' = Helper!Raised("error")
             /\ Helper!TearEvidence \/ cev' = [cev EXCEPT !.phases = Append(@, "applied")]
    BY <1>8, <2>1, <2>3
  <2> QED  BY <1>10, <2>2, <2>3 DEF Helper!ValidateApplied
<1> QED  BY <1>3, <1>4, <1>5, <1>6, <1>9, <1>10

\* The handshake writes the first events.
LEMMA HandshakeTells ==
  ASSUME SessionInv, h.pc = "hello", NEW n \in 0..2,
         script' = SubSeq(<<Helper!Event("challenge"), Helper!Event("hello")>>, 1, n),
         Carries, UNCHANGED <<gev, cev>>, h'.prior = h.prior, h'.seal = h.seal,
         h'.stops = h.stops, h'.active = h.active,
         h'.state \notin {"restored", "closed"}, h'.pc \in {"apply"} \cup Handling, h'.pc = "apply" => n = 2
  PROVE  Continues
<1>0. Stages /\ GuardRows /\ ControlRows /\ Transcript /\ Events
  BY DEF SessionInv
<1> DEFINE a == Helper!Event("challenge")
           b == Helper!Event("hello")
           t == <<a, b>>
           S == {a, b}
<1>1. a.e = "challenge" /\ b.e = "hello" /\ a.sid = h.sid /\ b.sid = h.sid
  BY DEF Helper!Event
<1> HIDE DEF a, b
<1>2. t[1] = a /\ t[2] = b /\ \A i \in 1..2 : t[i] \in S
  OBVIOUS
<1> HIDE DEF t, S
<1>3. script' = SubSeq(t, 1, n)
  BY DEF t, a, b
<1>4. \A i \in 1..n : t[i] \in S
  BY <1>2
<1>5. /\ script' \in Seq(S) /\ Len(script') = IF 1 <= n THEN n - 1 + 1 ELSE 0
      /\ \A i \in 1..(n - 1 + 1) : script'[i] = t[1 + i - 1]
  <2>1. 1 \in Int /\ n \in Int
    OBVIOUS
  <2> QED  BY <1>3, <1>4, <2>1, SubSeqProperties
<1>6. /\ Len(script') = n /\ \A i \in 1..n : script'[i] = t[i]
      /\ Sequence(script)'
  <2>1. n - 1 + 1 = n /\ (n = 0 \/ 1 <= n) /\ \A i \in 1..n : 1 + i - 1 = i
    OBVIOUS
  <2> QED  BY <1>5, <2>1 DEF Sequence
<1>7. \A i \in 1..n : script'[i].e = Helper!SuccessNames[i] /\ script'[i].e # "restore" /\ script'[i].sid = h.sid
  <2>1. \A i \in 1..n : i = 1 \/ i = 2
    OBVIOUS
  <2> QED  BY <1>1, <1>2, <1>6, <2>1, NamesAre
<1>8. Events'
  <2> SUFFICES ASSUME NEW i \in 1..n PROVE EventHolds(i)'
    BY <1>6 DEF Events
  <2>1. i < Len(Helper!SuccessNames) /\ i # 3 /\ ~(i > 3) /\ i - 3 # Helper!LastSlot
    BY NamesAre
  <2> QED  BY <1>7, <2>1 DEF EventHolds, Carries
<1>9. ~Told'
  <2> SUFFICES ASSUME Len(script') > 0, script'[Len(script')].e = "restore" PROVE FALSE
    BY DEF Told
  <2>1. n \in 1..n
    BY <1>6
  <2> QED  BY <1>6, <1>7, <2>1
<1>10. Stages'
  BY DEF Stages, Handling, Observing, Undoing
<1>11. GuardRows'
  BY <1>0, GuardKept DEF Handling, Fresh, Observing
<1>12. ~cev'.sealed
  BY <1>0 DEF ControlRows, Fresh
<1>13. ControlRows'
  BY <1>0, <1>12 DEF ControlRows, Handling
<1>14. Transcript'
  <2>1. ~h'.prior
    BY <1>0 DEF Stages
  <2> QED  BY <1>6, <1>9, <2>1 DEF Transcript, Handling
<1> QED  BY <1>8, <1>10, <1>11, <1>13, <1>14 DEF SessionInv, Continues, SessionStages, Fresh, Handling

LEMMA SessionBegins ==
  ASSUME HelperShape, h.kind = "session", SessionInv, Helper!Handshake
  PROVE  Continues
<1>0. Stages /\ Transcript
  BY DEF SessionInv
<1>1. h.pc = "hello" /\ UNCHANGED <<gev, cev>> /\ h.state \notin {"restored", "closed"}
  BY <1>0 DEF Helper!Handshake, Transcript, Handling
<1> DEFINE t == <<Helper!Event("challenge"), Helper!Event("hello")>>
<1>2. CASE script' = t /\ h' = [Helper!Goto("apply") EXCEPT !.state = "authenticated"]
  <2>1. /\ Carries /\ h'.prior = h.prior /\ h'.seal = h.seal /\ h'.stops = h.stops /\ h'.active = h.active
        /\ h'.state \notin {"restored", "closed"} /\ h'.pc = "apply"
    BY <1>2 DEF HelperShape, HelperFields, Helper!Goto, Carries
  <2>2. SubSeq(t, 1, 2) = t
    <3> DEFINE S == {Helper!Event("challenge"), Helper!Event("hello")}
    <3>1. t \in Seq(S) /\ Len(t) = 2
      OBVIOUS
    <3> HIDE DEF t, S
    <3> QED  BY <3>1, SubSeqFull
  <2> QED  BY <1>1, <1>2, <2>1, <2>2, HandshakeTells
<1>3. CASE \E n \in 0..2 :
              /\ script' = SubSeq(t, 1, n)
              /\ h' = [Helper!Raised("error") EXCEPT !.state = IF n = 2 THEN "authenticated" ELSE @]
  <2>1. PICK n \in 0..2 :
            /\ script' = SubSeq(t, 1, n)
            /\ h' = [Helper!Raised("error") EXCEPT
                         !.state = IF n = 2 THEN "authenticated" ELSE Helper!Raised("error").state]
    BY <1>3
  <2>2. (IF n = 2 THEN "authenticated" ELSE Helper!Raised("error").state) \notin {"restored", "closed"}
    BY <1>1, RaisedIs
  <2> DEFINE r == Helper!Raised("error")
  <2>3. /\ DOMAIN r = HelperFields /\ r.pc \in {"close", "except"}
        /\ r.kind = h.kind /\ r.sid = h.sid /\ r.slot = h.slot /\ r.prior = h.prior /\ r.held = h.held
        /\ r.active = h.active /\ r.stops = h.stops /\ r.seal = h.seal /\ r.abnormal = h.abnormal
    BY RaisedIs
  <2> HIDE DEF r
  <2>4. h' = [r EXCEPT !.state = IF n = 2 THEN "authenticated" ELSE r.state]
    BY <2>1 DEF r
  <2>5. /\ Carries /\ h'.prior = h.prior /\ h'.seal = h.seal /\ h'.stops = h.stops /\ h'.active = h.active
        /\ h'.pc \in Handling
    BY <2>3, <2>4 DEF HelperFields, Carries, Handling
  <2>6. h'.state \notin {"restored", "closed"}
    BY <2>2, <2>3, <2>4 DEF r, HelperFields
  <2> QED  BY <1>1, <2>1, <2>5, <2>6, HandshakeTells DEF Handling
<1> QED  BY <1>2, <1>3 DEF Helper!Handshake

\* Stopping the guardian seals its evidence, or leaves it as it was.
LEMMA StopSeals ==
  ASSUME GuardRows, NEW good \in BOOLEAN, Helper!StopOnce(good)
  PROVE  /\ good => /\ DOMAIN gev' = {"rows", "sealed", "late"} /\ gev'.rows \in Nat
                    /\ gev'.rows >= gev.rows /\ gev'.sealed
         /\ ~good => UNCHANGED gev
         /\ UNCHANGED sessions
<1>1. gev.rows \in Nat /\ Helper!RowsAfter("ended") \in {gev.rows, gev.rows + 1}
  BY DEF GuardRows, Helper!RowsAfter
<1>2. good => gev' = [gev EXCEPT !.rows = Helper!RowsAfter("ended"), !.sealed = TRUE]
  BY DEF Helper!StopOnce, Helper!SealGuardian
<1>3. ~good => UNCHANGED gev
  BY DEF Helper!StopOnce
<1>4. UNCHANGED sessions
  <2>1. /\ Helper!JoinTo("ended") => UNCHANGED sessions
        /\ Helper!JoinTo("failed") => UNCHANGED sessions
        /\ Helper!JoinTo("stopping") => UNCHANGED sessions
    BY DEF Helper!JoinTo, Helper!SampleEnds, Helper!Works, Helper!Fails, Helper!budget
  <2>2. Helper!JoinTo("ended") \/ Helper!JoinTo("failed") \/ Helper!JoinTo("stopping") \/ Helper!Fails
    BY DEF Helper!StopOnce
  <2>3. Helper!Fails => UNCHANGED sessions
    BY DEF Helper!Fails
  <2> QED  BY <2>1, <2>2, <2>3
<1>5. CASE good
  <2> DEFINE r == Helper!RowsAfter("ended")
  <2>1. gev' = [gev EXCEPT !.rows = r, !.sealed = TRUE] /\ r \in Nat /\ r >= gev.rows
    BY <1>1, <1>2, <1>5
  <2> HIDE DEF r
  <2> QED  BY <1>4, <1>5, <2>1 DEF GuardRows
<1> QED  BY <1>3, <1>4, <1>5

\* The guardian is started, the apply is acknowledged, the client observes.
LEMMA SessionObserves ==
  ASSUME HelperShape, h.kind = "session", SessionInv,
         \/ Helper!StartGuard \/ Helper!AcknowledgeApply \/ Helper!Observe \/ Helper!StopGuardAtEnd
         \/ Helper!RecordObservation \/ Helper!AskRestore
  PROVE  Continues
<1>0. Stages /\ GuardRows /\ ControlRows /\ Transcript /\ Events
  BY DEF SessionInv
<1>1. /\ h.pc \in {"guard", "applied"} \cup Observing /\ h.pc \notin Handling
      /\ UNCHANGED cev /\ ~Told /\ h.state \notin {"restored", "closed"}
  <2>1. h.pc \in {"guard", "applied"} \cup Observing /\ UNCHANGED cev
    BY DEF Helper!StartGuard, Helper!AcknowledgeApply, Helper!Observe, Helper!StopGuardAtEnd,
       Helper!RecordObservation, Helper!AskRestore, Observing, Helper!files
  <2> QED  BY <1>0, <2>1 DEF Transcript, Handling, Observing
<1>2. ASSUME UNCHANGED <<gev, script>>, h' = Helper!Raised("error")
      PROVE  Continues
  BY <1>1, <1>2, RaisedBreaks, ErrorContinues
\* A step that writes an event and then fails.
<1>3. ASSUME UNCHANGED gev, Breaking, NEW v, script' = Append(script, v), v.e # "restore",
             \A n : n = Len(script) + 1 /\ n = Len(script') /\ script'[n] = v => EventHolds(n)'
      PROVE  Continues
  <2>1. Stages'
    BY <1>3 DEF Breaking, Stages, Handling, Observing, Undoing
  <2>2. GuardRows' /\ (h.seal => h'.seal /\ gev'.rows = gev.rows)
    BY <1>0, <1>3, GuardKept DEF Breaking, Handling, Fresh, Observing
  <2>3. SessionInv'
    BY <1>1, <1>3, <2>1, <2>2, SessionTells DEF Breaking, Handling, Fresh
  <2> QED  BY <1>3, <2>3 DEF Breaking, Continues, SessionStages
<1>4. CASE Helper!StartGuard
  <2>1. h.pc = "guard" /\ UNCHANGED script /\ ~h.seal /\ ~gev.sealed
    BY <1>0, <1>4 DEF Helper!StartGuard, GuardRows, Fresh
  <2>2. CASE UNCHANGED gev /\ h' = [Helper!Raised("error") EXCEPT !.active = TRUE]
    BY <1>1, <2>1, <2>2, RaisedBreaks, ErrorContinues
  <2>3. CASE Helper!GuardianAppend /\ h' = [Helper!Goto("applied") EXCEPT !.started = TRUE, !.active = TRUE]
    <3>1. /\ Carries /\ h'.pc = "applied" /\ h'.prior = h.prior /\ h'.held = h.held /\ h'.seal = h.seal
          /\ h'.state = h.state
      BY <2>3 DEF HelperShape, HelperFields, Helper!Goto, Carries
    <3>2. DOMAIN gev' = {"rows", "sealed", "late"} /\ gev'.rows = gev.rows + 1
      BY <1>0, <2>1, <2>3 DEF GuardRows, Helper!GuardianAppend
    <3>3. GuardRows' /\ Stages'
      BY <1>0, <2>1, <3>1, <3>2 DEF GuardRows, Stages, Fresh, Observing, Undoing
    <3>4. SessionInv'
      BY <1>1, <2>1, <3>1, <3>3, SessionMoves DEF Early, Fresh
    <3> QED  BY <3>1, <3>4 DEF Continues, SessionStages
  <2> QED  BY <1>4, <2>2, <2>3 DEF Helper!StartGuard
<1>5. CASE Helper!AcknowledgeApply
  <2> DEFINE v == [Helper!Event("apply") EXCEPT !.phases = cev.phases]
  <2>1. h.pc = "applied" /\ UNCHANGED gev
    BY <1>5 DEF Helper!AcknowledgeApply
  <2>2. v.e = "apply" /\ v.sid = h.sid /\ v.phases = <<"prior", "applied">>
    BY <1>0, <2>1 DEF Helper!Event, ControlRows
  <2>3. \/ UNCHANGED script /\ h' = Helper!Raised("error")
        \/ script' = Append(script, v) /\ h' = [Helper!Raised("error") EXCEPT !.state = "applied"]
        \/ script' = Append(script, v) /\ h' = [Helper!Goto("observe") EXCEPT !.state = "applied", !.slot = 1]
    BY <1>5 DEF Helper!AcknowledgeApply
  <2> HIDE DEF v
  <2>4. Len(script) = 2
    BY <1>0, <2>1 DEF Transcript
  <2>5. ASSUME NEW n, n = Len(script) + 1, script'[n] = v, h'.sid = h.sid PROVE EventHolds(n)'
    <3>1. n = 3 /\ n < Len(Helper!SuccessNames) /\ n - 3 # Helper!LastSlot /\ Helper!SuccessNames[n] = "apply"
      BY <2>4, <2>5, NamesAre
    <3> QED  BY <2>2, <2>5, <3>1 DEF EventHolds
  <2>6. CASE UNCHANGED script /\ h' = Helper!Raised("error")
    BY <1>2, <2>1, <2>6
  <2>7. CASE script' = Append(script, v) /\ h' = [Helper!Raised("error") EXCEPT !.state = "applied"]
    <3>0. "applied" \notin {"restored", "closed"}
      OBVIOUS
    <3>1. Breaking
      BY <1>1, <2>7, <3>0, RaisedBreaks
    <3> QED  BY <1>3, <2>1, <2>2, <2>5, <2>7, <3>1 DEF Breaking, Carries
  <2>8. CASE script' = Append(script, v) /\ h' = [Helper!Goto("observe") EXCEPT !.state = "applied", !.slot = 1]
    <3>1. /\ Carries /\ h'.pc = "observe" /\ h'.prior = h.prior /\ h'.held = h.held /\ h'.seal = h.seal
          /\ h'.stops = h.stops /\ h'.active = h.active /\ h'.state = "applied" /\ h'.slot = 1
      BY <2>8 DEF HelperShape, HelperFields, Helper!Goto, Carries
    <3>2. Stages'
      BY <1>0, <2>1, <3>1, NamesAre DEF Stages, Observing, Undoing
    <3>3. GuardRows' /\ (h.seal => h'.seal /\ gev'.rows = gev.rows)
      BY <1>0, <2>1, <3>1, GuardKept DEF Fresh, Observing
    <3>4. h'.slot = Len(script) - 1
      BY <2>4, <3>1
    <3>5. SessionInv'
      BY <1>1, <2>2, <2>5, <2>8, <3>1, <3>2, <3>3, <3>4, SessionTells DEF Fresh, Carries
    <3> QED  BY <3>1, <3>5 DEF Continues, SessionStages, Observing
  <2> QED  BY <2>3, <2>6, <2>7, <2>8
<1>6. CASE Helper!Observe
  <2>1. h.pc = "observe" /\ UNCHANGED <<script, gev>>
    BY <1>6 DEF Helper!Observe, Helper!files
  <2>2. CASE h' = Helper!Raised("error")
    BY <1>2, <2>1, <2>2
  <2>3. CASE \E down \in BOOLEAN : h' = [Helper!Goto("record") EXCEPT !.errs = down /\ Helper!Phase(h.slot) = "post"]
    <3>1. /\ Carries /\ h'.pc = "record" /\ h'.prior = h.prior /\ h'.held = h.held /\ h'.seal = h.seal
          /\ h'.stops = h.stops /\ h'.active = h.active /\ h'.state = h.state /\ h'.slot = h.slot
      BY <2>3 DEF HelperShape, HelperFields, Helper!Goto, Carries
    <3>2. Stages'
      BY <1>0, <2>1, <3>1 DEF Stages, Observing, Undoing
    <3> QED  BY <1>1, <2>1, <3>1, <3>2, Proceeds DEF Fresh, Observing, Early, SessionStages
  <2> QED  BY <1>6, <2>2, <2>3 DEF Helper!Observe
<1>7. CASE Helper!StopGuardAtEnd
  <2>1. h.pc = "record" /\ h.stops = 0 /\ UNCHANGED script /\ ~h.seal
    BY <1>0, <1>7 DEF Helper!StopGuardAtEnd, GuardRows
  <2>2. PICK good \in BOOLEAN :
            /\ Helper!StopOnce(good)
            /\ h' = IF good THEN [h EXCEPT !.stops = 1, !.active = FALSE, !.seal = TRUE]
                    ELSE [Helper!Raised("error") EXCEPT !.stops = 1]
    BY <1>7 DEF Helper!StopGuardAtEnd
  <2>3. CASE ~good
    <3>1. UNCHANGED gev /\ h' = [Helper!Raised("error") EXCEPT !.stops = 1]
      BY <1>0, <2>2, <2>3, StopSeals
    <3> QED  BY <1>1, <2>1, <3>1, RaisedBreaks, ErrorContinues
  <2>4. CASE good
    <3>1. h' = [h EXCEPT !.stops = 1, !.active = FALSE, !.seal = TRUE]
      BY <2>2, <2>4
    <3>2. /\ Carries /\ h'.pc = "record" /\ h'.prior = h.prior /\ h'.held = h.held /\ h'.seal
          /\ h'.stops = 1 /\ ~h'.active /\ h'.state = h.state /\ h'.slot = h.slot
      BY <2>1, <3>1 DEF HelperShape, HelperFields, Carries
    <3>3. /\ DOMAIN gev' = {"rows", "sealed", "late"} /\ gev'.rows \in Nat /\ gev'.rows >= gev.rows /\ gev'.sealed
      BY <1>0, <2>2, <2>4, StopSeals
    <3>4. Stages' /\ GuardRows'
      BY <1>0, <2>1, <3>2, <3>3 DEF Stages, GuardRows, Fresh, Observing, Undoing
    <3>5. SessionInv'
      BY <1>1, <2>1, <3>2, <3>4, SessionMoves DEF Early, Fresh
    <3> QED  BY <3>2, <3>5 DEF Continues, SessionStages, Observing
  <2> QED  BY <2>3, <2>4
<1>8. CASE Helper!RecordObservation
  <2> DEFINE v == [Helper!Event("observation") EXCEPT !.k = h.slot, !.down = h.errs,
                        !.rows = IF h.slot = Helper!LastSlot THEN gev.rows ELSE 0]
             on == [h EXCEPT !.state = "observed", !.slot = h.slot + 1, !.errs = FALSE]
  <2>1. h.pc = "record" /\ UNCHANGED gev /\ (h.slot = Helper!LastSlot => h.seal)
    BY <1>8 DEF Helper!RecordObservation
  <2>2. /\ v.e = "observation" /\ v.sid = h.sid /\ v.k = h.slot
        /\ v.rows = IF h.slot = Helper!LastSlot THEN gev.rows ELSE 0
    BY DEF Helper!Event
  <2>3. \/ UNCHANGED script /\ h' = Helper!Raised("error")
        \/ script' = Append(script, v) /\ h' = [Helper!Raised("error") EXCEPT !.state = "observed"]
        \/ /\ script' = Append(script, v)
           /\ h' = [on EXCEPT !.pc = IF h.slot = Helper!LastSlot THEN "asked" ELSE "observe"]
    BY <1>8 DEF Helper!RecordObservation
  <2>4. /\ DOMAIN on = HelperFields /\ on.kind = h.kind /\ on.sid = h.sid /\ on.prior = h.prior /\ on.held = h.held
        /\ on.seal = h.seal /\ on.stops = h.stops /\ on.active = h.active /\ on.state = "observed"
        /\ on.slot = h.slot + 1 /\ on.abnormal = h.abnormal
    BY DEF HelperShape, HelperFields
  <2> HIDE DEF v, on
  <2>5. Len(script) = 2 + h.slot /\ h.slot \in 1..Helper!LastSlot /\ gev.rows > 0
    BY <1>0, <2>1 DEF Transcript, Stages, GuardRows, Observing
  <2>6. ASSUME NEW n, n = Len(script) + 1, script'[n] = v, h'.sid = h.sid, h'.seal = h.seal PROVE EventHolds(n)'
    <3>1. /\ n = 3 + h.slot /\ n < Len(Helper!SuccessNames) /\ Helper!SuccessNames[n] = "observation"
          /\ n # 3 /\ n - 3 = h.slot
      <4>1. n = 3 + h.slot
        BY <2>5, <2>6, NamesAre
      <4>2. n < Len(Helper!SuccessNames) /\ n # 3 /\ n - 3 = h.slot
        BY <2>5, <4>1, NamesAre
      <4>3. Helper!SuccessNames[3 + h.slot] = "observation"
        BY <2>5, NamesAre
      <4> QED  BY <4>1, <4>2, <4>3
    <3> QED  BY <2>1, <2>2, <2>5, <2>6, <3>1 DEF EventHolds
  <2>7. CASE UNCHANGED script /\ h' = Helper!Raised("error")
    BY <1>2, <2>1, <2>7
  <2>8. CASE script' = Append(script, v) /\ h' = [Helper!Raised("error") EXCEPT !.state = "observed"]
    <3>0. "observed" \notin {"restored", "closed"}
      OBVIOUS
    <3>1. Breaking
      BY <1>1, <2>8, <3>0, RaisedBreaks
    <3> QED  BY <1>3, <2>1, <2>2, <2>6, <2>8, <3>1 DEF Breaking, Carries
  <2>9. CASE /\ script' = Append(script, v)
             /\ h' = [on EXCEPT !.pc = IF h.slot = Helper!LastSlot THEN "asked" ELSE "observe"]
    <3>1. /\ Carries /\ h'.pc = (IF h.slot = Helper!LastSlot THEN "asked" ELSE "observe")
          /\ h'.prior = h.prior /\ h'.held = h.held /\ h'.seal = h.seal
          /\ h'.stops = h.stops /\ h'.active = h.active /\ h'.state = "observed" /\ h'.slot = h.slot + 1
      BY <2>4, <2>9 DEF HelperFields, Carries
    <3>2. Stages'
      BY <1>0, <2>1, <2>5, <3>1, NamesAre DEF Stages, Observing, Undoing
    <3>3. GuardRows' /\ (h.seal => h'.seal /\ gev'.rows = gev.rows)
      BY <1>0, <2>1, <3>1, GuardKept DEF Fresh, Observing
    <3>4. h'.slot = Len(script) - 1 /\ h'.pc \in {"asked", "observe"}
      BY <2>5, <3>1
    <3>5. SessionInv'
      BY <1>1, <2>2, <2>6, <2>9, <3>1, <3>2, <3>3, <3>4, SessionTells DEF Fresh, Carries
    <3> QED  BY <3>1, <3>4, <3>5 DEF Continues, SessionStages, Observing
  <2> QED  BY <2>3, <2>7, <2>8, <2>9
<1>9. CASE Helper!AskRestore
  <2>1. h.pc = "asked" /\ UNCHANGED <<script, gev>>
    BY <1>9 DEF Helper!AskRestore, Helper!files
  <2>2. CASE h' = Helper!Raised("error")
    BY <1>2, <2>1, <2>2
  <2>3. CASE h' = [Helper!Goto("restore") EXCEPT !.try = "normal"]
    <3>1. /\ Carries /\ h'.pc = "restore" /\ h'.prior = h.prior /\ h'.held = h.held /\ h'.seal = h.seal
          /\ h'.stops = h.stops /\ h'.active = h.active /\ h'.state = h.state
      BY <2>3 DEF HelperShape, HelperFields, Helper!Goto, Carries
    <3>2. Stages'
      BY <1>0, <2>1, <3>1 DEF Stages, Observing, Undoing
    <3> QED  BY <1>1, <2>1, <3>1, <3>2, Proceeds DEF Fresh, Observing, Undoing, Early, SessionStages
  <2> QED  BY <1>9, <2>2, <2>3 DEF Helper!AskRestore
<1> QED  BY <1>4, <1>5, <1>6, <1>7, <1>8, <1>9

\* _restore, requested or in an emergency.
LEMMA SessionRestores ==
  ASSUME HelperShape, h.kind = "session", SessionInv,
         Helper!Emergency \/ Helper!RestoreBegins \/ Helper!RestoreStep \/ Helper!ValidateRestored
  PROVE  Continues
<1>0. Stages /\ GuardRows /\ ControlRows /\ Transcript /\ Events
  BY DEF SessionInv
<1>1. UNCHANGED <<script, cev>>
  BY DEF Helper!Emergency, Helper!RestoreBegins, Helper!RestoreStep, Helper!ValidateRestored, Helper!files
<1>2. CASE Helper!Emergency
  <2>1. h.pc = "except" /\ UNCHANGED gev
    BY <1>2 DEF Helper!Emergency, Helper!files
  <2>2. ASSUME ~h.prior \/ ~h.held \/ h.state \in {"restored", "closed"} PROVE Told \/ ~cev.sealed
    BY <1>0, <2>2 DEF ControlRows, Transcript
  <2> DEFINE me == [h EXCEPT !.abnormal = TRUE]
  <2>3. /\ DOMAIN me = HelperFields /\ me.kind = h.kind /\ me.sid = h.sid /\ me.prior = h.prior /\ me.held = h.held
        /\ me.seal = h.seal /\ me.stops = h.stops /\ me.active = h.active /\ me.state = h.state
        /\ me.abnormal = TRUE
    BY DEF HelperShape, HelperFields
  <2>4. \/ /\ ~h.prior \/ ~h.held \/ h.state \in {"restored", "closed"}
           /\ h' = [me EXCEPT !.pc = IF h.try = "inner" THEN "except" ELSE "close", !.try = "outer"]
        \/ /\ h.prior /\ h.held /\ h.state \notin {"restored", "closed"}
           /\ h' = [me EXCEPT !.pc = "restore"] \/ h' = [me EXCEPT !.pc = "close", !.err = "indeterminate"]
    BY <1>2 DEF Helper!Emergency
  <2> HIDE DEF me
  <2>5. /\ Carries /\ h'.prior = h.prior /\ h'.held = h.held /\ h'.seal = h.seal
        /\ h'.stops = h.stops /\ h'.active = h.active /\ h'.state = h.state
        /\ h'.pc \in {"except", "close", "restore"}
        /\ h'.pc = "restore" => h.prior /\ h.held /\ h.state \notin {"restored", "closed"}
        /\ h'.pc = "close" => \/ ~h.prior \/ ~h.held \/ h.state \in {"restored", "closed"}
                              \/ h'.err = "indeterminate"
    BY <2>3, <2>4 DEF HelperFields, Carries
  <2>6. Stages'
    BY <2>5 DEF Stages, Observing, Undoing
  <2>7. Told => h'.pc \in Handling
    BY <1>0, <2>5 DEF Transcript, Handling
  <2> QED  BY <1>1, <2>1, <2>2, <2>5, <2>6, <2>7, Proceeds DEF Fresh, Observing, Undoing, Handling, Early, SessionStages
<1>3. ASSUME h.pc \in Undoing PROVE ~Told /\ h.state \notin {"restored", "closed"} /\ h.pc \notin Handling
                                    /\ h.prior /\ h.held
  BY <1>0, <1>3 DEF Transcript, Undoing, Handling, Stages
<1>4. CASE Helper!RestoreBegins
  <2>1. h.pc = "restore" /\ h.pc \in Undoing
    BY <1>4 DEF Helper!RestoreBegins, Undoing
  <2> DEFINE on == [Helper!Goto("undo") EXCEPT !.state = "restoring", !.pos = Helper!Dma + 1,
                        !.errs = FALSE, !.tried = TRUE]
  <2>2. /\ DOMAIN on = HelperFields /\ on.kind = h.kind /\ on.sid = h.sid /\ on.prior = h.prior /\ on.held = h.held
        /\ on.seal = h.seal /\ on.stops = h.stops /\ on.active = h.active /\ on.state = "restoring"
        /\ on.abnormal = h.abnormal /\ on.pc = "undo"
    BY DEF HelperShape, HelperFields, Helper!Goto
  <2>3. \/ /\ ~h.seal
           /\ \E good \in BOOLEAN :
                 /\ Helper!StopOnce(good)
                 /\ h' = [on EXCEPT !.stops = 1, !.active = ~good, !.seal = good, !.poperr = ~good]
        \/ UNCHANGED gev /\ h' = [on EXCEPT !.poperr = h.started /\ ~h.seal]
        \/ UNCHANGED gev /\ h' = Helper!RaisedFrom("restoring")
    BY <1>4 DEF Helper!RestoreBegins
  <2> HIDE DEF on
  <2>4. CASE /\ ~h.seal
             /\ \E good \in BOOLEAN :
                 /\ Helper!StopOnce(good)
                 /\ h' = [on EXCEPT !.stops = 1, !.active = ~good, !.seal = good, !.poperr = ~good]
    <3>1. PICK good \in BOOLEAN :
                 /\ Helper!StopOnce(good)
                 /\ h' = [on EXCEPT !.stops = 1, !.active = ~good, !.seal = good, !.poperr = ~good]
      BY <2>4
    <3>2. /\ Carries /\ h'.pc = "undo" /\ h'.prior = h.prior /\ h'.held = h.held
          /\ h'.stops = 1 /\ h'.active = ~good /\ h'.seal = good /\ h'.state = "restoring"
      BY <2>2, <2>4, <3>1 DEF HelperFields, Carries
    <3>3. /\ good => /\ DOMAIN gev' = {"rows", "sealed", "late"} /\ gev'.rows \in Nat /\ gev'.sealed
          /\ ~good => UNCHANGED gev
      BY <1>0, <3>1, StopSeals
    <3>4. GuardRows' /\ Stages'
      BY <1>0, <1>3, <2>1, <3>2, <3>3 DEF GuardRows, Stages, Fresh, Observing, Undoing
    <3>5. SessionInv'
      BY <1>1, <1>3, <2>1, <2>4, <3>2, <3>4, SessionMoves DEF Early, Fresh, Undoing
    <3> QED  BY <3>2, <3>5 DEF Continues, SessionStages, Undoing
  <2>5. CASE UNCHANGED gev /\ h' = [on EXCEPT !.poperr = h.started /\ ~h.seal]
    <3>1. /\ Carries /\ h'.pc = "undo" /\ h'.prior = h.prior /\ h'.held = h.held
          /\ h'.seal = h.seal /\ h'.stops = h.stops /\ h'.active = h.active /\ h'.state = "restoring"
      BY <2>2, <2>5 DEF HelperFields, Carries
    <3>2. Stages'
      BY <1>3, <2>1, <3>1 DEF Stages, Observing, Undoing
    <3> QED  BY <1>1, <1>3, <2>1, <2>5, <3>1, <3>2, Proceeds DEF Fresh, Observing, Undoing, Early, SessionStages
  <2>6. CASE UNCHANGED gev /\ h' = Helper!RaisedFrom("restoring")
    <3> DEFINE x == Helper!Raised("error").state
               y == IF x = "indeterminate" THEN x ELSE "restoring"
    <3>1. h' = [Helper!Raised("error") EXCEPT !.state = y]
      BY <2>6 DEF Helper!RaisedFrom
    <3>2. y \notin {"restored", "closed"}
      OBVIOUS
    <3> HIDE DEF y
    <3>3. Breaking
      BY <1>3, <2>1, <3>1, <3>2, RaisedBreaks
    <3> QED  BY <1>1, <1>3, <2>1, <2>6, <3>3, ErrorContinues
  <2> QED  BY <2>3, <2>4, <2>5, <2>6
<1>5. CASE Helper!RestoreStep
  <2>1. h.pc = "undo" /\ h.pc \in Undoing
    BY <1>5 DEF Helper!RestoreStep, Undoing
  <2>2. CASE \E end \in {"off", "ended", "failed", "stopping"} :
               /\ h.active /\ gev' = [gev EXCEPT !.rows = Helper!RowsAfter(end)]
               /\ h' = [h EXCEPT !.active = (end = "stopping"), !.pos = @ - 1, !.errs = @ \/ end = "stopping"]
    <3>1. PICK end \in {"off", "ended", "failed", "stopping"} :
               /\ h.active /\ gev' = [gev EXCEPT !.rows = Helper!RowsAfter(end)]
               /\ h' = [h EXCEPT !.active = (end = "stopping"), !.pos = @ - 1, !.errs = @ \/ end = "stopping"]
      BY <2>2
    <3>2. /\ Carries /\ h'.pc = "undo" /\ h'.prior = h.prior /\ h'.held = h.held
          /\ h'.seal = h.seal /\ h'.stops = h.stops /\ h'.state = h.state
      BY <2>1, <3>1 DEF HelperShape, HelperFields, Carries
    <3>3. ~h.seal
      BY <1>0, <3>1 DEF GuardRows
    <3>4. Helper!RowsAfter(end) \in Nat
      BY <1>0 DEF Helper!RowsAfter, GuardRows
    <3>5. GuardRows' /\ Stages'
      BY <1>0, <1>3, <2>1, <3>1, <3>2, <3>3, <3>4 DEF GuardRows, Stages, Fresh, Observing, Undoing
    <3>6. SessionInv'
      BY <1>1, <1>3, <2>1, <3>2, <3>3, <3>5, SessionMoves DEF Early, Fresh, Undoing
    <3> QED  BY <3>2, <3>6 DEF Continues, SessionStages, Undoing
  <2>3. CASE UNCHANGED gev /\ (h' = [h EXCEPT !.pos = @ - 1] \/ h' = [h EXCEPT !.pos = @ - 1, !.errs = TRUE])
    <3>1. /\ Carries /\ h'.pc = "undo" /\ h'.prior = h.prior /\ h'.held = h.held
          /\ h'.seal = h.seal /\ h'.stops = h.stops /\ h'.active = h.active /\ h'.state = h.state
      BY <2>1, <2>3 DEF HelperShape, HelperFields, Carries
    <3>2. Stages'
      BY <1>3, <2>1, <3>1 DEF Stages, Observing, Undoing
    <3> QED  BY <1>1, <1>3, <2>1, <2>3, <3>1, <3>2, Proceeds DEF Fresh, Observing, Undoing, Early, SessionStages
  <2> QED  BY <1>5, <2>2, <2>3 DEF Helper!RestoreStep
<1>6. CASE Helper!ValidateRestored
  <2>1. h.pc = "undo" /\ h.pc \in Undoing /\ UNCHANGED gev
    BY <1>6 DEF Helper!ValidateRestored, Undoing, Helper!files
  <2>2. CASE h' = Helper!Raised("error")
    BY <1>1, <1>3, <2>1, <2>2, RaisedBreaks, ErrorContinues
  <2>3. CASE h' = [Helper!Goto("proof") EXCEPT !.mutable = FALSE]
    <3>1. /\ Carries /\ h'.pc = "proof" /\ h'.prior = h.prior /\ h'.held = h.held
          /\ h'.seal = h.seal /\ h'.stops = h.stops /\ h'.active = h.active /\ h'.state = h.state
      BY <2>3 DEF HelperShape, HelperFields, Carries, Helper!Goto
    <3>2. Stages'
      BY <1>3, <2>1, <3>1 DEF Stages, Observing, Undoing
    <3> QED  BY <1>1, <1>3, <2>1, <3>1, <3>2, Proceeds DEF Fresh, Observing, Undoing, Early, SessionStages
  <2> QED  BY <1>6, <2>2, <2>3 DEF Helper!ValidateRestored
<1> QED  BY <1>2, <1>4, <1>5, <1>6

\* The evidence is sealed, the journal completed, the restoration told.
LEMMA SessionCompletes ==
  ASSUME HelperShape, h.kind = "session", SessionInv,
         Helper!SealControlEvidence \/ Helper!CompleteRestore
  PROVE  Continues
<1>0. Stages /\ GuardRows /\ ControlRows /\ Transcript /\ Events
  BY DEF SessionInv
<1>1. /\ h.pc \in {"proof", "complete"} /\ UNCHANGED gev /\ ~Told /\ h.state \notin {"restored", "closed"}
      /\ h.pc \notin Handling /\ h.prior /\ h.held
  <2>1. h.pc \in {"proof", "complete"} /\ UNCHANGED gev
    BY DEF Helper!SealControlEvidence, Helper!CompleteRestore
  <2> QED  BY <1>0, <2>1 DEF Transcript, Handling, Stages, Undoing
<1>2. CASE Helper!SealControlEvidence
  <2> DEFINE row == IF cev.phases # <<>> /\ cev.phases[Len(cev.phases)] = "restored"
                    THEN cev ELSE [cev EXCEPT !.phases = Append(@, "restored")]
  <2>1. UNCHANGED script /\ h.pc = "proof"
    BY <1>2 DEF Helper!SealControlEvidence
  <2>2. \/ /\ cev.sealed \/ Helper!MaySeal(row)
           /\ h' = Helper!Goto("complete") /\ cev' = IF cev.sealed THEN cev ELSE [row EXCEPT !.sealed = TRUE]
        \/ h' = Helper!Raised("error") /\ UNCHANGED cev
        \/ /\ ~cev.sealed /\ (cev' = row \/ Helper!TearEvidence)
           /\ h' = Helper!Raised("error") \/ h' = Helper!Raised("indeterminate")
    BY <1>2 DEF Helper!SealControlEvidence
  <2>3. DOMAIN row = {"phases", "whole", "sealed"} /\ row.sealed = cev.sealed
    BY <1>0 DEF ControlRows
  <2> HIDE DEF row
  <2>4. CASE h' = Helper!Raised("error") /\ UNCHANGED cev
    BY <1>1, <2>1, <2>4, RaisedBreaks, ErrorContinues
  <2>5. CASE /\ ~cev.sealed /\ (cev' = row \/ Helper!TearEvidence)
             /\ h' = Helper!Raised("error") \/ h' = Helper!Raised("indeterminate")
    <3>1. DOMAIN cev' = {"phases", "whole", "sealed"} /\ ~cev'.sealed
      BY <1>0, <2>3, <2>5 DEF ControlRows, Helper!TearEvidence
    <3> QED  BY <1>1, <2>1, <2>5, <3>1, RaisedBreaks, ErrorContinues
  <2>6. CASE /\ cev.sealed \/ Helper!MaySeal(row)
             /\ h' = Helper!Goto("complete") /\ cev' = IF cev.sealed THEN cev ELSE [row EXCEPT !.sealed = TRUE]
    <3>1. /\ Carries /\ h'.pc = "complete" /\ h'.prior = h.prior /\ h'.held = h.held
          /\ h'.seal = h.seal /\ h'.stops = h.stops /\ h'.active = h.active /\ h'.state = h.state
      BY <2>6 DEF HelperShape, HelperFields, Carries, Helper!Goto
    <3>2. /\ DOMAIN cev' = {"phases", "whole", "sealed"} /\ cev'.sealed
          /\ cev'.phases \in {Helper!Success, Helper!FailClosed}
      BY <1>0, <2>3, <2>6 DEF ControlRows, Helper!MaySeal
    <3>3. Stages'
      BY <1>1, <3>1 DEF Stages, Observing, Undoing
    <3>4. GuardRows' /\ (h.seal => h'.seal /\ gev'.rows = gev.rows)
      BY <1>0, <1>1, <3>1, GuardKept DEF Fresh, Observing
    <3>5. Events' /\ (Told' <=> Told) /\ Sequence(script)'
      BY <1>0, <1>1, <2>1, <3>1, <3>4, EventsKept DEF Transcript, Remembers, Carries
    <3>6. ControlRows'
      BY <1>1, <3>1, <3>2 DEF ControlRows, Fresh
    <3>7. Transcript'
      BY <1>0, <1>1, <2>1, <3>1, <3>5 DEF Transcript
    <3> QED  BY <3>1, <3>3, <3>4, <3>5, <3>6, <3>7 DEF SessionInv, Continues, SessionStages, Undoing
  <2> QED  BY <2>2, <2>4, <2>5, <2>6
<1>3. CASE Helper!CompleteRestore
  <2> DEFINE v == [Helper!Event("restore") EXCEPT !.phases = cev.phases, !.down = h.abnormal]
  <2>1. UNCHANGED cev /\ h.pc = "complete" /\ cev.sealed
    BY <1>0, <1>3 DEF Helper!CompleteRestore, ControlRows
  <2>2. v.e = "restore" /\ v.sid = h.sid /\ v.phases = cev.phases /\ v.down = h.abnormal
    BY DEF Helper!Event
  <2>3. \/ UNCHANGED script /\ h' = Helper!Raised("error")
        \/ script' = Append(script, v) /\ h' = [Helper!Raised("error") EXCEPT !.state = "restored"]
        \/ /\ script' = Append(script, v)
           /\ h' = [h EXCEPT !.state = "restored", !.try = "outer",
                             !.pc = IF h.try = "inner" THEN "except" ELSE "close"]
    BY <1>3 DEF Helper!CompleteRestore
  <2> HIDE DEF v
  <2>4. CASE UNCHANGED script /\ h' = Helper!Raised("error")
    BY <1>1, <2>1, <2>4, RaisedBreaks, ErrorContinues
  <2>5. ASSUME script' = Append(script, v), Carries, h'.state = "restored", h'.pc \in {"except", "close"},
               h'.prior = h.prior, h'.seal = h.seal, h'.stops = h.stops, h'.active = h.active
        PROVE  Continues
    <3>1. ASSUME NEW n, n = Len(script'), script'[n] = v PROVE EventHolds(n)'
      BY <2>1, <2>2, <2>5, <3>1 DEF EventHolds, Carries
    <3>2. Stages'
      BY <2>5 DEF Stages, Observing, Undoing
    <3>3. GuardRows' /\ (h.seal => h'.seal /\ gev'.rows = gev.rows)
      BY <1>0, <1>1, <2>5, GuardKept DEF Fresh, Observing
    <3>4. SessionInv'
      BY <1>1, <2>1, <2>2, <2>5, <3>1, <3>2, <3>3, SessionTells DEF Fresh, Handling
    <3> QED  BY <2>5, <3>4 DEF Continues, SessionStages, Handling
  <2>6. CASE script' = Append(script, v) /\ h' = [Helper!Raised("error") EXCEPT !.state = "restored"]
    <3> DEFINE r == Helper!Raised("error")
    <3>1. /\ DOMAIN r = HelperFields /\ r.pc \in {"close", "except"}
          /\ r.kind = h.kind /\ r.sid = h.sid /\ r.slot = h.slot /\ r.prior = h.prior /\ r.held = h.held
          /\ r.active = h.active /\ r.stops = h.stops /\ r.seal = h.seal /\ r.abnormal = h.abnormal
      BY RaisedIs
    <3> HIDE DEF r
    <3>2. h' = [r EXCEPT !.state = "restored"]
      BY <2>6 DEF r
    <3>3. /\ Carries /\ h'.state = "restored" /\ h'.pc \in {"except", "close"}
          /\ h'.prior = h.prior /\ h'.seal = h.seal /\ h'.stops = h.stops /\ h'.active = h.active
      BY <3>1, <3>2 DEF HelperFields, Carries
    <3> QED  BY <2>5, <2>6, <3>3
  <2>7. CASE /\ script' = Append(script, v)
             /\ h' = [h EXCEPT !.state = "restored", !.try = "outer",
                               !.pc = IF h.try = "inner" THEN "except" ELSE "close"]
    <3>1. /\ Carries /\ h'.state = "restored" /\ h'.pc \in {"except", "close"}
          /\ h'.prior = h.prior /\ h'.seal = h.seal /\ h'.stops = h.stops /\ h'.active = h.active
      BY <2>7 DEF HelperShape, HelperFields, Carries
    <3> QED  BY <2>5, <2>7, <3>1
  <2> QED  BY <2>3, <2>4, <2>6, <2>7
<1> QED  BY <1>2, <1>3

\* The guardian thread.
LEMMA SessionGuarded ==
  ASSUME h.kind = "session", h.pc \in SessionStages, SessionInv, Helper!GuardWakes \/ Helper!GuardSamples
  PROVE  Continues
<1>0. Stages /\ GuardRows /\ ControlRows /\ Transcript /\ Events
  BY DEF SessionInv
<1>1. UNCHANGED <<h, script, cev>> /\ (UNCHANGED gev \/ Helper!GuardianAppend)
  BY DEF Helper!GuardWakes, Helper!GuardSamples, Helper!files
<1>2. /\ DOMAIN gev' = {"rows", "sealed", "late"} /\ gev'.rows \in Nat /\ gev'.rows >= gev.rows
      /\ gev'.sealed = gev.sealed /\ (gev.sealed => gev'.rows = gev.rows)
  BY <1>0, <1>1 DEF GuardRows, Helper!GuardianAppend
<1>3. Carries
  BY <1>1 DEF Carries
<1>4. GuardRows' /\ Stages' /\ (h.seal => gev'.rows = gev.rows)
  BY <1>0, <1>1, <1>2 DEF GuardRows, Stages
<1>5. SessionInv'
  BY <1>0, <1>1, <1>3, <1>4, SessionMoves DEF ControlRows, Transcript
<1> QED  BY <1>1, <1>3, <1>5 DEF Continues

-----------------------------------------------------------------------------
\* The verifier on what a session left.

\* The events are a prefix of the frozen order, with or without the restoration.
LEMMA OrderHolds ==
  ASSUME Transcript, Events
  PROVE  Helper!EventOrder(script)
<1> DEFINE n == Len(script)
           names == [i \in DOMAIN script |-> script[i].e]
           restore == names # <<>> /\ names[Len(names)] = "restore"
           kept == IF restore THEN SubSeq(names, 1, Len(names) - 1) ELSE names
           m == IF Told THEN n - 1 ELSE n
           S == {script[i].e : i \in 1..n}
<1>1. n \in Nat /\ DOMAIN script = 1..n
  BY DEF Transcript, Sequence
<1>2. names \in Seq(S) /\ Len(names) = n /\ \A i \in 1..n : names[i] = script[i].e /\ names[i] \in S
  BY <1>1
<1>3. restore <=> Told
  BY <1>1, <1>2 DEF Told
<1>4. m \in Nat /\ m <= n
  BY <1>1 DEF Told
<1>5. \A i \in 1..m : /\ script[i].e = Helper!SuccessNames[i] /\ i < Len(Helper!SuccessNames)
  <2> TAKE i \in 1..m
  <2>1. i \in 1..n
    BY <1>1, <1>4
  <2>2. EventHolds(i)
    BY <2>1 DEF Events
  <2>3. script[i].e # "restore"
    <3> SUFFICES ASSUME script[i].e = "restore" PROVE FALSE
      OBVIOUS
    <3>0. i = n
      BY <2>2 DEF EventHolds
    <3>1. i = n /\ n > 0
      <4> HIDE DEF n, m
      <4> QED  BY <1>1, <2>1, <3>0
    <3>2. Told
      BY <3>1 DEF Told
    <3>3. m = n - 1
      BY <3>2
    <3> HIDE DEF n, m
    <3> QED  BY <1>1, <3>1, <3>3
  <2> QED  BY <2>2, <2>3 DEF EventHolds
<1> HIDE DEF n, names, S, m
<1>6. /\ kept \in Seq(S) /\ Len(kept) = m /\ \A i \in 1..m : kept[i] = names[i]
  <2>1. CASE ~Told
    BY <1>1, <1>2, <1>3, <2>1 DEF m, n
  <2>2. CASE Told
    <3>1. m = n - 1 /\ n > 0
      BY <2>2 DEF m, n, Told
    <3>2. kept = SubSeq(names, 1, m)
      BY <1>2, <1>3, <2>2, <3>1
    <3>3. \A i \in 1..m : names[i] \in S
      BY <1>1, <1>2, <1>4
    <3>4. 1 \in Int /\ m \in Int
      BY <1>4
    <3> DEFINE q == SubSeq(names, 1, m)
    <3>5. /\ q \in Seq(S) /\ Len(q) = IF 1 <= m THEN m - 1 + 1 ELSE 0
          /\ \A i \in 1..(m - 1 + 1) : q[i] = names[1 + i - 1]
      BY <3>3, <3>4, SubSeqProperties
    <3>6. m - 1 + 1 = m /\ (m = 0 \/ 1 <= m) /\ \A i \in 1..m : 1 + i - 1 = i
      BY <1>4
    <3> HIDE DEF q
    <3>7. q \in Seq(S) /\ Len(q) = m /\ \A i \in 1..m : q[i] = names[i]
      BY <3>5, <3>6
    <3> QED  BY <3>2, <3>7 DEF q
  <2> QED  BY <2>1, <2>2
<1> HIDE DEF kept, restore
<1>7. m < Len(Helper!SuccessNames)
  <2>1. CASE m = 0
    BY <2>1, NamesAre
  <2>2. CASE m > 0
    <3>1. m \in 1..m
      BY <1>4, <2>2
    <3> QED  BY <1>5, <3>1
  <2> QED  BY <1>4, <2>1, <2>2
<1>8. kept = SubSeq(Helper!SuccessNames, 1, Len(kept))
  <2> DEFINE q == SubSeq(Helper!SuccessNames, 1, m)
             T == {Helper!SuccessNames[i] : i \in 1..m}
  <2>1. \A i \in 1..m : Helper!SuccessNames[i] \in T
    OBVIOUS
  <2>2. 1 \in Int /\ m \in Int
    BY <1>4
  <2> HIDE DEF T
  <2>3. /\ q \in Seq(T) /\ Len(q) = IF 1 <= m THEN m - 1 + 1 ELSE 0
        /\ \A i \in 1..(m - 1 + 1) : q[i] = Helper!SuccessNames[1 + i - 1]
    BY <2>1, <2>2, SubSeqProperties
  <2>4. m - 1 + 1 = m /\ (m = 0 \/ 1 <= m) /\ \A i \in 1..m : 1 + i - 1 = i
    BY <1>4
  <2> HIDE DEF q
  <2>5. q \in Seq(T) /\ Len(q) = m /\ \A i \in 1..m : q[i] = Helper!SuccessNames[i]
    BY <2>3, <2>4
  <2>6. \A i \in 1..m : kept[i] = q[i]
    <3> TAKE i \in 1..m
    <3>1. names[i] = script[i].e
      BY <1>1, <1>2, <1>4
    <3> QED  BY <1>5, <1>6, <2>5, <3>1
  <2>7. q \in Seq(S \cup T) /\ kept \in Seq(S \cup T)
    BY <1>6, <2>5
  <2>8. kept = q
    BY <1>6, <2>5, <2>6, <2>7, SeqEqual
  <2> QED  BY <1>6, <2>8 DEF q
<1>9. Len(kept) < Len(Helper!SuccessNames)
  BY <1>6, <1>7
<1>10. Helper!EventOrder(script) <=> Len(kept) < Len(Helper!SuccessNames)
                                     /\ kept = SubSeq(Helper!SuccessNames, 1, Len(kept))
  BY DEF Helper!EventOrder, kept, restore, names
<1> QED  BY <1>8, <1>9, <1>10

LEMMA PhasePrefix == SubSeq(<<"prior", "applied", "restored">>, 1, 2) = <<"prior", "applied">>
<1> DEFINE S == {"prior", "applied", "restored"}
           s == <<"prior", "applied", "restored">>
           t == <<"prior", "applied">>
           u == SubSeq(s, 1, 2)
<1>1. t \in Seq(S) /\ Len(t) = 2 /\ t[1] = s[1] /\ t[2] = s[2]
  OBVIOUS
<1>2. \A i \in 1..2 : s[i] \in S
  OBVIOUS
<1> HIDE DEF S, s, t
<1>3. /\ u \in Seq(S) /\ Len(u) = IF 1 <= 2 THEN 2 - 1 + 1 ELSE 0
      /\ \A i \in 1..(2 - 1 + 1) : u[i] = s[1 + i - 1]
  <2>1. 1 \in Int /\ 2 \in Int
    OBVIOUS
  <2> QED  BY <1>2, <2>1, SubSeqProperties
<1> HIDE DEF u
<1>4. Len(u) = 2 /\ \A i \in 1..2 : u[i] = t[i]
  BY <1>1, <1>3
<1>5. u = t
  BY <1>1, <1>3, <1>4, SeqEqual
<1> QED  BY <1>5 DEF u, s, t

\* A receipt of success: the names are the frozen ones, so every event is there.
LEMMA SuccessPasses ==
  ASSUME GuardRows, ControlRows, Transcript, Events, NEW r, NEW g, NEW c,
         r.status = "success", r.script = script, r.sid = IF Len(script) > 1 THEN h.sid ELSE 0,
         r.proved, r.passed, ~r.abnormal, ~h.abnormal, r.stops = 1, h.seal, r.rows = gev.rows,
         cev.sealed, cev.phases = Helper!Success, r.cseal = cev.phases,
         g.sid = h.sid, g.rows = gev.rows, c.sid = h.sid, c.phases = cev.phases,
         [i \in DOMAIN script |-> script[i].e] = Helper!SuccessNames,
         \A k \in DOMAIN script : ~script[k].down \/ script[k].e = "restore"
  PROVE  Helper!Verify(r, script, g, c)
<1> DEFINE n == Len(script)
           last == script[n]
<1>1. n \in Nat /\ DOMAIN script = 1..n
  BY DEF Transcript, Sequence
<1>2. n = Helper!LastSlot + 4 /\ \A i \in 1..n : script[i].e = Helper!SuccessNames[i]
  <2> DEFINE names == [i \in DOMAIN script |-> script[i].e]
  <2>1. DOMAIN names = 1..n /\ \A i \in 1..n : names[i] = script[i].e
    BY <1>1
  <2>2. names = Helper!SuccessNames
    OBVIOUS
  <2> HIDE DEF names, n
  <2>3. 1..n = 1..(Helper!LastSlot + 4)
    BY <2>1, <2>2, NamesAre
  <2>4. n = Helper!LastSlot + 4
    BY <1>1, <2>3, NamesAre
  <2> QED  BY <2>1, <2>2, <2>4
<1>3. \A i \in 1..n : EventHolds(i)
  BY DEF Events
<1>4. n > 3 /\ n \in 1..n /\ 2 \in 1..n /\ 3 \in 1..n
  BY <1>2, NamesAre
<1>5. last.e = "restore" /\ last.phases = cev.phases /\ ~last.down
  BY <1>2, <1>3, <1>4, NamesAre DEF EventHolds
<1>6. script[2].sid = h.sid /\ r.sid = h.sid
  BY <1>3, <1>4 DEF EventHolds
<1>7. script[3].phases = <<"prior", "applied">>
  <2>1. script[3].e = "apply"
    BY <1>2, <1>4, NamesAre
  <2> QED  BY <1>3, <1>4, <2>1 DEF EventHolds
<1>8. Helper!Success = <<"prior", "applied", "restored">> /\ Len(Helper!Success) = 3
      /\ Helper!Success # <<>>
  BY DEF Helper!Success
<1>9. Helper!CheckpointHolds(c, script[3].phases) /\ Len(script[3].phases) = 2
  <2>1. SubSeq(<<"prior", "applied", "restored">>, 1, 2) = <<"prior", "applied">>
    BY PhasePrefix
  <2>2. Len(<<"prior", "applied">>) = 2 /\ 2 \in 1..3
    OBVIOUS
  <2> QED  BY <1>7, <1>8, <2>1, <2>2 DEF Helper!CheckpointHolds
<1>10. Helper!ObservationsHold(r, script, g)
  <2> SUFFICES ASSUME NEW k \in 1..Helper!LastSlot
               PROVE  /\ script[3 + k].k = k /\ ~script[3 + k].down
                      /\ IF k = Helper!LastSlot
                         THEN Helper!GuardianEvidenceHolds(g, script[3 + k].rows, r) /\ script[3 + k].rows = r.rows
                         ELSE script[3 + k].rows = 0
    BY DEF Helper!ObservationsHold
  <2>1. 3 + k \in 1..n /\ 3 + k > 3 /\ (3 + k) - 3 = k /\ 3 + k # 3
    BY <1>2, NamesAre
  <2>2. script[3 + k].e = "observation"
    BY <1>2, <2>1, NamesAre
  <2>3. EventHolds(3 + k)
    BY <1>3, <2>1
  <2>4. script[3 + k].k = k /\ (k # Helper!LastSlot => script[3 + k].rows = 0)
        /\ (k = Helper!LastSlot => gev.rows > 0 /\ script[3 + k].rows = gev.rows)
    BY <2>1, <2>2, <2>3 DEF EventHolds
  <2>5. ~script[3 + k].down
    BY <1>1, <2>1, <2>2
  <2> QED  BY <1>6, <2>4, <2>5 DEF Helper!GuardianEvidenceHolds
<1>11. Helper!EventOrder(script)
  BY OrderHolds
<1>12. Helper!TerminalBinds(r, script) /\ Helper!HandshakeBinds(r, script)
  BY <1>6 DEF Helper!TerminalBinds, Helper!HandshakeBinds
<1>13. Helper!StatusHolds(r, script)
  BY <1>2, <1>8, NamesAre DEF Helper!StatusHolds
<1>14. Helper!ControlEvidenceHolds(c, last, r)
  BY <1>5, <1>6 DEF Helper!ControlEvidenceHolds
<1> QED  BY <1>5, <1>9, <1>10, <1>11, <1>12, <1>13, <1>14 DEF Helper!Verify

\* A receipt of a session that failed closed.
LEMMA FailClosedPasses ==
  ASSUME GuardRows, ControlRows, Transcript, Events, NEW r, NEW g, NEW c, h.pc = "close", h.err # "indeterminate",
         r.status = "fail_closed", r.script = script, r.sid = IF Len(script) > 1 THEN h.sid ELSE 0,
         r.proved, r.passed, r.cseal = IF cev.sealed THEN cev.phases ELSE <<>>,
         c.sid = h.sid, c.phases = cev.phases
  PROVE  Helper!Verify(r, script, g, c)
<1> DEFINE last == script[Len(script)]
<1>1. Len(script) \in Nat /\ \A i \in 1..Len(script) : EventHolds(i)
  BY DEF Transcript, Sequence, Events
<1>2. Helper!EventOrder(script) /\ Helper!TerminalBinds(r, script) /\ Helper!StatusHolds(r, script)
  BY OrderHolds DEF Helper!TerminalBinds, Helper!StatusHolds
<1>3. Helper!HandshakeBinds(r, script)
  BY <1>1 DEF Helper!HandshakeBinds, EventHolds
<1>4. ASSUME cev.sealed
      PROVE  /\ script # <<>> /\ last.e = "restore" /\ last.phases = r.cseal
             /\ Helper!ControlEvidenceHolds(c, last, r)
  <2>1. Told /\ Len(script) >= 2
    BY <1>4 DEF ControlRows, Transcript
  <2>2. last.e = "restore" /\ last.phases = cev.phases
    BY <1>1, <2>1 DEF Told, EventHolds
  <2>3. r.sid = h.sid /\ cev.phases \in {Helper!Success, Helper!FailClosed}
    BY <1>1, <1>4, <2>1 DEF ControlRows
  <2> QED  BY <1>4, <2>1, <2>2, <2>3 DEF Helper!ControlEvidenceHolds
<1>5. r.status # "success" /\ (r.cseal # <<>> => cev.sealed)
  OBVIOUS
<1> QED  BY <1>2, <1>3, <1>4, <1>5 DEF Helper!Verify

\* What a closing session leaves is of one piece, and the verifier accepts it.
LEMMA LeftPasses ==
  ASSUME h.pc = "close", SessionInv, NEW passed
  PROVE  LET a == Helper!LeftBehind(passed) IN Whole(a) /\ Passes(a) /\ a.sid = h.sid
<1>0. Stages /\ GuardRows /\ ControlRows /\ Transcript /\ Events
  BY DEF SessionInv
<1> DEFINE a == Helper!LeftBehind(passed)
           proved == h.preflight /\ ~h.mutable /\ h.err # "indeterminate"
           names == [i \in DOMAIN script |-> script[i].e]
           success == /\ h.err = "none" /\ passed /\ proved /\ ~h.abnormal
                      /\ h.stops = 1 /\ h.seal /\ cev.sealed /\ cev.phases = Helper!Success
                      /\ h.state = "restored" /\ names = Helper!SuccessNames
           status == CASE success -> "success"
                       [] ~success /\ proved /\ passed -> "fail_closed"
                       [] OTHER -> "indeterminate"
<1>1. /\ a.sid = h.sid /\ a.script = script
      /\ a.gev.sid = h.sid /\ a.gev.rows = gev.rows /\ a.cev.sid = h.sid /\ a.cev.phases = cev.phases
  BY DEF Helper!LeftBehind
<1>2. /\ a.receipt.script = script /\ a.receipt.sid = IF Len(script) > 1 THEN h.sid ELSE 0
      /\ a.receipt.proved = proved /\ a.receipt.passed = passed /\ a.receipt.abnormal = h.abnormal
      /\ a.receipt.stops = h.stops /\ a.receipt.rows = IF h.seal THEN gev.rows ELSE 0
      /\ a.receipt.cseal = IF cev.sealed THEN cev.phases ELSE <<>>
  BY DEF Helper!LeftBehind
<1>3. a.receipt.status = status
  BY DEF Helper!LeftBehind, Helper!None
<1>4. /\ status \in {"success", "fail_closed", "indeterminate"}
      /\ status = "success" => success
      /\ status = "fail_closed" => proved /\ passed
  OBVIOUS
<1> HIDE DEF a, status, names
<1>5. Whole(a)
  <2>1. \A i \in 1..Len(script) : script[i].sid = h.sid
    BY <1>0 DEF Events, EventHolds
  <2>2. Sequence(script)
    BY <1>0 DEF Transcript
  <2> QED  BY <1>1, <1>2, <2>1, <2>2 DEF Whole
<1>6. Passes(a)
  <2> SUFFICES ASSUME a.receipt.status # "indeterminate",
                      \A k \in DOMAIN script : ~script[k].down \/ script[k].e = "restore"
               PROVE  Helper!Verify(a.receipt, script, a.gev, a.cev)
    BY <1>1 DEF Passes
  <2>1. CASE a.receipt.status = "success"
    <3>1. success
      BY <1>3, <1>4, <2>1
    <3>2. [i \in DOMAIN script |-> script[i].e] = Helper!SuccessNames
      BY <3>1 DEF names
    <3> QED  BY <1>0, <1>1, <1>2, <2>1, <3>1, <3>2, SuccessPasses
  <2>2. CASE a.receipt.status = "fail_closed"
    <3>1. proved /\ passed
      BY <1>3, <1>4, <2>2
    <3> QED  BY <1>0, <1>1, <1>2, <2>2, <3>1, FailClosedPasses
  <2> QED  BY <1>3, <1>4, <2>1, <2>2
<1> QED  BY <1>1, <1>5, <1>6 DEF a

-----------------------------------------------------------------------------
\* What a step of the helper does to sessions and archive.

LEMMA SessionsKept ==
  ASSUME Helper!Next, ~Helper!Start
  PROVE  UNCHANGED sessions
<1> USE DEF Helper!Works, Helper!Fails, Helper!budget
<1>1. ASSUME NEW end \in {"off", "ended", "failed", "stopping"}, Helper!JoinTo(end) PROVE UNCHANGED sessions
  BY <1>1 DEF Helper!JoinTo, Helper!SampleEnds
<1>2. ASSUME NEW good \in BOOLEAN, Helper!StopOnce(good) PROVE UNCHANGED sessions
  <2>1. /\ Helper!JoinTo("ended") => UNCHANGED sessions
        /\ Helper!JoinTo("failed") => UNCHANGED sessions
        /\ Helper!JoinTo("stopping") => UNCHANGED sessions
    BY DEF Helper!JoinTo, Helper!SampleEnds
  <2> QED  BY <1>2, <2>1 DEF Helper!StopOnce
<1>3. CASE Helper!Preflight \/ Helper!Handshake \/ Helper!CapturePrior \/ Helper!CreateJournal \/ Helper!PriorEvidence
           \/ Helper!ApplyStep \/ Helper!ValidateApplied \/ Helper!StartGuard
  BY <1>3 DEF Helper!Preflight, Helper!Handshake, Helper!CapturePrior, Helper!CreateJournal, Helper!PriorEvidence,
     Helper!ApplyStep, Helper!ValidateApplied, Helper!StartGuard
<1>4. CASE Helper!AcknowledgeApply \/ Helper!Observe \/ Helper!RecordObservation \/ Helper!AskRestore
           \/ Helper!Emergency \/ Helper!ValidateRestored \/ Helper!SealControlEvidence \/ Helper!CompleteRestore
           \/ Helper!Exit
  BY <1>4 DEF Helper!AcknowledgeApply, Helper!Observe, Helper!RecordObservation, Helper!AskRestore, Helper!Emergency,
     Helper!ValidateRestored, Helper!SealControlEvidence, Helper!CompleteRestore, Helper!Exit
<1>5. CASE Helper!TrialPreflight \/ Helper!CompleteTrial \/ Helper!Recovery \/ Helper!GuardWakes \/ Helper!Kill
  BY <1>5 DEF Helper!TrialPreflight, Helper!CompleteTrial, Helper!Recovery, Helper!RecoverBegins, Helper!RecoverStep,
     Helper!RecoverCompletes, Helper!GuardWakes, Helper!Kill
<1>6. CASE Helper!GuardSamples
  BY <1>6 DEF Helper!GuardSamples, Helper!SampleEnds
<1>7. CASE Helper!StopGuardAtEnd
  BY <1>2, <1>7 DEF Helper!StopGuardAtEnd
<1>8. CASE Helper!RestoreBegins
  BY <1>2, <1>8 DEF Helper!RestoreBegins
<1>9. CASE Helper!RestoreStep
  BY <1>1, <1>9 DEF Helper!RestoreStep
<1>10. CASE Helper!Close
  BY <1>1, <1>10 DEF Helper!Close
<1> QED  BY <1>3, <1>4, <1>5, <1>6, <1>7, <1>8, <1>9, <1>10 DEF Helper!Next, Helper!Session

\* The trial's helper: it ends, or goes on as a trial.
LEMMA TrialGoes ==
  ASSUME HelperShape, h.kind = "trial", h.pc \in TrialStages, Helper!Next
  PROVE  \/ h' = Helper!Off
         \/ h'.kind = "trial" /\ h'.sid = h.sid /\ h'.pc \in TrialStages
<1>1. ~(\/ Helper!Preflight \/ Helper!Handshake \/ Helper!PriorEvidence \/ Helper!StartGuard
        \/ Helper!AcknowledgeApply \/ Helper!Observe \/ Helper!StopGuardAtEnd \/ Helper!RecordObservation
        \/ Helper!AskRestore \/ Helper!Emergency \/ Helper!SealControlEvidence \/ Helper!CompleteRestore
        \/ Helper!Close \/ Helper!Exit)
  BY DEF Helper!Preflight, Helper!Handshake, Helper!PriorEvidence, Helper!StartGuard,
     Helper!AcknowledgeApply, Helper!Observe, Helper!StopGuardAtEnd, Helper!RecordObservation,
     Helper!AskRestore, Helper!Emergency, Helper!SealControlEvidence, Helper!CompleteRestore,
     Helper!Close, Helper!Exit, TrialStages
<1>2. ~Helper!Start
  BY OffIs DEF Helper!Start
<1> USE DEF HelperShape, HelperFields, TrialStages, Helper!Goto
<1>3. CASE Helper!TrialPreflight
  BY <1>3 DEF Helper!TrialPreflight
<1>4. CASE Helper!CapturePrior
  BY <1>4 DEF Helper!CapturePrior
<1>5. CASE Helper!CreateJournal
  BY <1>5 DEF Helper!CreateJournal
<1>6. CASE Helper!ApplyStep
  BY <1>6 DEF Helper!ApplyStep
<1>7. CASE Helper!ValidateApplied
  BY <1>7 DEF Helper!ValidateApplied
<1>8. CASE Helper!RestoreBegins
  <2> DEFINE on == [Helper!Goto("undo") EXCEPT !.state = "restoring", !.pos = Helper!Dma + 1,
                        !.errs = FALSE, !.tried = TRUE]
  <2>1. DOMAIN on = HelperFields /\ on.kind = "trial" /\ on.sid = h.sid /\ on.pc = "undo"
    OBVIOUS
  <2>2. \/ \E good \in BOOLEAN :
              h' = [on EXCEPT !.stops = 1, !.active = ~good, !.seal = good, !.poperr = ~good]
        \/ h' = [on EXCEPT !.poperr = h.started /\ ~h.seal]
        \/ h' = Helper!Off
    BY <1>8 DEF Helper!RestoreBegins, Helper!TrialDies
  <2> HIDE DEF on
  <2> QED  BY <2>1, <2>2
<1>9. CASE Helper!RestoreStep
  BY <1>9 DEF Helper!RestoreStep
<1>10. CASE Helper!ValidateRestored
  BY <1>10 DEF Helper!ValidateRestored, Helper!TrialDies
<1>11. CASE Helper!CompleteTrial \/ Helper!Kill
  BY <1>11 DEF Helper!CompleteTrial, Helper!TrialDies, Helper!Kill
<1>12. CASE Helper!Recovery
  BY <1>12 DEF Helper!Recovery, Helper!RecoverBegins, Helper!RecoverStep, Helper!RecoverCompletes
<1>13. CASE Helper!GuardWakes \/ Helper!GuardSamples
  BY <1>13 DEF Helper!GuardWakes, Helper!GuardSamples
<1> QED  BY <1>1, <1>2, <1>3, <1>4, <1>5, <1>6, <1>7, <1>8, <1>9, <1>10, <1>11, <1>12, <1>13
            DEF Helper!Next, Helper!Session

\* A session: it goes on, seals its receipt, or is killed.
LEMMA SessionGoes ==
  ASSUME HelperShape, Open, h.pc \in SessionStages, SessionInv, Helper!Next
  PROVE  Continues \/ h' = Helper!Off \/ Helper!Close
<1>1. ~(Helper!Start \/ Helper!TrialPreflight \/ Helper!CompleteTrial \/ Helper!Recovery)
  BY OffIs DEF Helper!Start, Helper!TrialPreflight, Helper!CompleteTrial, Helper!Recovery, Helper!RecoverBegins,
     Helper!RecoverStep, Helper!RecoverCompletes, Open, SessionStages, Fresh, Observing, Undoing, Handling
<1>2. Helper!Exit \/ Helper!Kill => h' = Helper!Off
  BY DEF Helper!Exit, Helper!Kill
<1> QED  BY <1>1, <1>2, SessionPrepares, SessionBegins, SessionObserves, SessionRestores, SessionCompletes,
            SessionGuarded DEF Open, Helper!Next, Helper!Session

\* A helper starts: it has told nothing.
LEMMA SessionStarts ==
  ASSUME Kinds, Numbered, Helper!Start
  PROVE  /\ Kinds' /\ Numbered' /\ (Open' => SessionInv')
<1>1. PICK kind \in {"session", "trial"} :
        h' = [Helper!Off EXCEPT !.pc = "preflight", !.kind = kind, !.sid = sessions + 1]
  BY DEF Helper!Start
<1>2. /\ sessions' = sessions + 1 /\ UNCHANGED archive
      /\ script' = <<>> /\ gev' = Helper!NoGev /\ cev' = Helper!NoCev
  BY DEF Helper!Start
<1>3. /\ h'.pc = "preflight" /\ h'.kind = kind /\ h'.sid = sessions + 1 /\ h'.state = "new"
      /\ ~h'.prior /\ ~h'.seal
  BY <1>1 DEF Helper!Off
<1>4. Kinds'
  BY <1>3 DEF Kinds, TrialStages, SessionStages, Fresh
<1>5. Numbered'
  BY <1>2, <1>3 DEF Numbered
<1>6. /\ Sequence(script') /\ Len(script') = 0
  <2>1. <<>> \in Seq({0}) /\ Len(<<>>) = 0
    OBVIOUS
  <2> QED  BY <1>2, <2>1 DEF Sequence
<1>7. Stages' /\ Transcript'
  BY <1>3, <1>6 DEF Stages, Transcript, Told, Handling, Observing, Undoing
<1>8. GuardRows'
  BY <1>2, <1>3 DEF GuardRows, Helper!NoGev, Observing
<1>9. ControlRows'
  BY <1>2, <1>3 DEF ControlRows, Helper!NoCev
<1>10. Events'
  BY <1>6 DEF Events
<1> QED  BY <1>4, <1>5, <1>7, <1>8, <1>9, <1>10 DEF SessionInv

\* A session seals its receipt: what it leaves is appended under its own number.
LEMMA SessionCloses ==
  ASSUME HelperShape, VerifierInv, Helper!Close
  PROVE  VerifierInv'
<1>1. PICK passed : archive' = Append(archive, Helper!LeftBehind(passed))
  BY DEF Helper!Close
<1>2. h.pc = "close" /\ h' = Helper!Goto("exit") /\ Helper!Next
  BY DEF Helper!Close, Helper!Next, Helper!Session
<1>3. h.kind = "session" /\ Open /\ SessionInv
  BY <1>2 DEF VerifierInv, Kinds, TrialStages, Open
<1>4. h'.kind = "session" /\ h'.sid = h.sid /\ h'.pc = "exit"
  BY <1>2, <1>3 DEF Helper!Goto, HelperShape, HelperFields
<1>5. UNCHANGED sessions
  <2>1. ~Helper!Start
    BY <1>2, OffIs DEF Helper!Start
  <2> QED  BY <1>2, <2>1, SessionsKept
<1> DEFINE e == Helper!LeftBehind(passed)
<1>6. Whole(e) /\ Passes(e) /\ e.sid = h.sid
  BY <1>2, <1>3, LeftPasses
<1>7. archive' = Append(archive, e)
  BY <1>1
<1> HIDE DEF e
<1>8. PICK S : archive \in Seq(S)
  BY DEF VerifierInv, ArchiveHolds, Archived
<1>9. archive \in Seq(S \cup {e}) /\ e \in S \cup {e}
  BY <1>8
<1>10. /\ archive' \in Seq(S \cup {e}) /\ Len(archive') = Len(archive) + 1
       /\ archive'[Len(archive) + 1] = e
       /\ \A i \in 1..Len(archive) : archive'[i] = archive[i]
  BY <1>7, <1>9, AppendProperties
<1>11. DOMAIN archive' = 1..(Len(archive) + 1) /\ DOMAIN archive = 1..Len(archive) /\ Len(archive) \in Nat
  BY <1>9, <1>10
<1>12. \A i \in DOMAIN archive' : \/ i \in DOMAIN archive /\ archive'[i] = archive[i]
                                  \/ i = Len(archive) + 1 /\ archive'[i] = e
  BY <1>10, <1>11
<1>13. Kinds'
  BY <1>4 DEF Kinds
<1>14. ArchiveHolds'
  <2>1. Archived'
    BY <1>10 DEF Archived
  <2>2. ASSUME NEW i \in DOMAIN archive' PROVE Whole(archive'[i]) /\ Passes(archive'[i])
    BY <1>6, <1>12 DEF VerifierInv, ArchiveHolds
  <2> QED  BY <2>1, <2>2 DEF ArchiveHolds
<1>15. Numbered'
  <2>0. /\ sessions \in Nat /\ e.sid = sessions
        /\ \A i \in DOMAIN archive : archive[i].sid \in Nat /\ archive[i].sid < sessions
        /\ \A i, j \in DOMAIN archive : archive[i].sid = archive[j].sid => i = j
    BY <1>3, <1>6 DEF VerifierInv, Numbered
  <2>1. \A i \in DOMAIN archive' : archive'[i].sid \in Nat /\ archive'[i].sid <= sessions
    BY <1>12, <2>0
  <2>2. ASSUME NEW i \in DOMAIN archive', NEW j \in DOMAIN archive', archive'[i].sid = archive'[j].sid
        PROVE  i = j
    BY <1>12, <2>0, <2>2
  <2>3. h'.sid = sessions
    BY <1>3, <1>4 DEF VerifierInv, Numbered
  <2>4. ~Open'
    BY <1>4 DEF Open
  <2> QED  BY <1>5, <2>0, <2>1, <2>2, <2>3, <2>4 DEF Numbered
<1>16. ~Open'
  BY <1>4 DEF Open
<1> QED  BY <1>13, <1>14, <1>15, <1>16 DEF VerifierInv

\* A helper that is off, or a session that has sealed its receipt, only ends.
LEMMA NobodyGoes ==
  ASSUME HelperShape, h.pc \in {"off", "exit"}, h.kind # "trial", Helper!Next, ~Helper!Start
  PROVE  UNCHANGED h \/ h' = Helper!Off
<1>1. ~(\/ Helper!Preflight \/ Helper!Handshake \/ Helper!PriorEvidence \/ Helper!StartGuard
        \/ Helper!AcknowledgeApply \/ Helper!Observe \/ Helper!StopGuardAtEnd \/ Helper!RecordObservation
        \/ Helper!AskRestore \/ Helper!Emergency \/ Helper!SealControlEvidence \/ Helper!CompleteRestore
        \/ Helper!Close)
  BY DEF Helper!Preflight, Helper!Handshake, Helper!PriorEvidence, Helper!StartGuard,
     Helper!AcknowledgeApply, Helper!Observe, Helper!StopGuardAtEnd, Helper!RecordObservation,
     Helper!AskRestore, Helper!Emergency, Helper!SealControlEvidence, Helper!CompleteRestore,
     Helper!Close
<1>2. ~(\/ Helper!CapturePrior \/ Helper!CreateJournal \/ Helper!ApplyStep \/ Helper!ValidateApplied
        \/ Helper!RestoreBegins \/ Helper!RestoreStep \/ Helper!ValidateRestored
        \/ Helper!TrialPreflight \/ Helper!CompleteTrial \/ Helper!Recovery)
  BY DEF Helper!CapturePrior, Helper!CreateJournal, Helper!ApplyStep, Helper!ValidateApplied,
     Helper!RestoreBegins, Helper!RestoreStep, Helper!ValidateRestored,
     Helper!TrialPreflight, Helper!CompleteTrial, Helper!Recovery,
     Helper!RecoverBegins, Helper!RecoverStep, Helper!RecoverCompletes
<1>3. CASE Helper!Exit \/ Helper!Kill \/ Helper!GuardWakes \/ Helper!GuardSamples
  BY <1>3 DEF Helper!Exit, Helper!Kill, Helper!GuardWakes, Helper!GuardSamples
<1> QED  BY <1>1, <1>2, <1>3 DEF Helper!Next, Helper!Session

LEMMA VerifierStep ==
  ASSUME HelperShape, VerifierInv, [Helper!Next]_(Helper!vars)
  PROVE  VerifierInv'
<1>1. CASE UNCHANGED Helper!vars
  <2>1. UNCHANGED <<h, script, gev, cev, archive, sessions>>
    BY <1>1 DEF Helper!vars, Helper!files, Helper!budget
  <2>2. Kinds' /\ Numbered' /\ ArchiveHolds' /\ (Open' <=> Open)
    BY <2>1 DEF VerifierInv, Kinds, Numbered, ArchiveHolds, Archived, Open, Whole, Passes
  <2>3. SessionInv => SessionInv'
    BY <2>1 DEF SessionInv, Stages, GuardRows, ControlRows, Transcript, Events, EventHolds, Told
  <2> QED  BY <2>2, <2>3 DEF VerifierInv
<1>2. CASE Helper!Close
  BY <1>2, SessionCloses
<1>3. CASE Helper!Next /\ ~Helper!Close
  <2>1. UNCHANGED archive
    BY <1>3, ArchiveGrows
  <2>2. ArchiveHolds'
    BY <2>1 DEF VerifierInv, ArchiveHolds, Archived
  <2>3. CASE Helper!Start
    BY <2>2, <2>3, SessionStarts DEF VerifierInv
  <2>4. CASE ~Helper!Start
    <3>1. UNCHANGED sessions
      BY <1>3, <2>4, SessionsKept
    <3>2. /\ h.kind = "session" /\ h.pc # "exit" => Continues \/ h' = Helper!Off
          /\ h.kind = "session" /\ h.pc = "exit" => UNCHANGED h \/ h' = Helper!Off
          /\ h.kind = "none" => UNCHANGED h \/ h' = Helper!Off
          /\ h.kind = "trial" => \/ h' = Helper!Off
                                 \/ h'.kind = "trial" /\ h'.sid = h.sid /\ h'.pc \in TrialStages
      <4>1. ASSUME h.kind = "session", h.pc # "exit" PROVE Continues \/ h' = Helper!Off
        <5>1. Open /\ h.pc \in SessionStages /\ SessionInv
          BY <4>1 DEF VerifierInv, Kinds, Open
        <5> QED  BY <1>3, <5>1, SessionGoes
      <4>2. ASSUME (h.kind = "session" /\ h.pc = "exit") \/ h.kind = "none"
            PROVE  UNCHANGED h \/ h' = Helper!Off
        <5>1. h.pc \in {"off", "exit"} /\ h.kind # "trial"
          BY <4>2 DEF VerifierInv, Kinds
        <5> QED  BY <1>3, <2>4, <5>1, NobodyGoes
      <4>3. ASSUME h.kind = "trial"
            PROVE  \/ h' = Helper!Off
                   \/ h'.kind = "trial" /\ h'.sid = h.sid /\ h'.pc \in TrialStages
        <5>1. h.pc \in TrialStages
          BY <4>3 DEF VerifierInv, Kinds
        <5> QED  BY <1>3, <4>3, <5>1, TrialGoes
      <4> QED  BY <4>1, <4>2, <4>3
    <3>3. h.kind \in {"none", "session", "trial"}
      BY DEF VerifierInv, Kinds
    <3>4. \/ h' = Helper!Off
          \/ UNCHANGED h /\ ((h.kind = "session" /\ h.pc = "exit") \/ h.kind = "none")
          \/ Continues /\ Open
          \/ h'.kind = "trial" /\ h.kind = "trial" /\ h'.sid = h.sid /\ h'.pc \in TrialStages
      BY <3>2, <3>3 DEF Open
    <3>5. CASE h' = Helper!Off
      <4>1. h'.kind = "none" /\ h'.pc = "off"
        BY <3>5, OffIs
      <4>2. Kinds' /\ Numbered' /\ ~Open'
        BY <2>1, <3>1, <4>1 DEF VerifierInv, Kinds, Numbered, Open
      <4> QED  BY <2>2, <4>2 DEF VerifierInv
    <3>6. CASE UNCHANGED h /\ ((h.kind = "session" /\ h.pc = "exit") \/ h.kind = "none")
      <4>1. Kinds' /\ Numbered' /\ ~Open'
        BY <2>1, <3>1, <3>6 DEF VerifierInv, Kinds, Numbered, Open
      <4> QED  BY <2>2, <4>1 DEF VerifierInv
    <3>7. CASE Continues /\ Open
      <4>1. SessionInv' /\ h'.kind = "session" /\ h'.sid = h.sid /\ h'.pc \in SessionStages
        BY <3>7 DEF Continues, Carries
      <4>2. Kinds' /\ Numbered'
        BY <2>1, <3>1, <3>7, <4>1 DEF VerifierInv, Kinds, Numbered, Open
      <4> QED  BY <2>2, <4>1, <4>2 DEF VerifierInv
    <3>8. CASE h'.kind = "trial" /\ h.kind = "trial" /\ h'.sid = h.sid /\ h'.pc \in TrialStages
      <4>1. Kinds' /\ Numbered' /\ ~Open'
        BY <2>1, <3>1, <3>8 DEF VerifierInv, Kinds, Numbered, Open
      <4> QED  BY <2>2, <4>1 DEF VerifierInv
    <3> QED  BY <3>4, <3>5, <3>6, <3>7, <3>8
  <2> QED  BY <2>3, <2>4
<1> QED  BY <1>1, <1>2, <1>3

\* A success the verifier accepts binds transcript, guardian evidence and control
\* evidence to the receipt's session.
LEMMA VerifyBinds ==
  ASSUME NEW r, NEW t, NEW g, NEW c, Sequence(t), r.status = "success", Helper!Verify(r, t, g, c)
  PROVE  r.script = t /\ Len(t) > 1 /\ g.sid = r.sid /\ c.sid = r.sid
<1>1. r.script = t /\ Helper!StatusHolds(r, t)
  BY DEF Helper!Verify, Helper!TerminalBinds
<1>2. Len(t) = Helper!LastSlot + 4 /\ Helper!LastSlot \in Nat /\ Helper!LastSlot >= 2
  BY <1>1, NamesAre DEF Helper!StatusHolds
<1>3. Helper!ControlEvidenceHolds(c, t[Len(t)], r) /\ Helper!ObservationsHold(r, t, g)
  BY DEF Helper!Verify
<1>4. c.sid = r.sid
  BY <1>3 DEF Helper!ControlEvidenceHolds
<1>5. Helper!LastSlot \in 1..Helper!LastSlot
  BY <1>2
<1>6. g.sid = r.sid
  BY <1>3, <1>5 DEF Helper!ObservationsHold, Helper!GuardianEvidenceHolds
<1> QED  BY <1>1, <1>2, <1>4, <1>6

LEMMA VerifierFollows ==
  ASSUME VerifierInv
  PROVE  VerifierIsExact
<1>1. ASSUME NEW i \in DOMAIN archive PROVE Passes(archive[i])
  BY DEF VerifierInv, ArchiveHolds
<1>2. ASSUME NEW i \in DOMAIN archive, NEW j \in DOMAIN archive,
             NEW k \in DOMAIN archive, NEW l \in DOMAIN archive,
             archive[i].receipt.status = "success",
             Helper!Verify(archive[i].receipt, archive[j].script, archive[k].gev, archive[l].cev)
      PROVE  i = j /\ i = k /\ i = l
  <2>1. Whole(archive[i]) /\ Whole(archive[j]) /\ Whole(archive[k]) /\ Whole(archive[l])
    BY DEF VerifierInv, ArchiveHolds
  <2>2. /\ archive[i].receipt.script = archive[j].script /\ Len(archive[j].script) > 1
        /\ archive[k].gev.sid = archive[i].receipt.sid /\ archive[l].cev.sid = archive[i].receipt.sid
    BY <1>2, <2>1, VerifyBinds DEF Whole
  <2>3. archive[i].script = archive[j].script /\ archive[i].receipt.sid = archive[i].sid
    BY <2>1, <2>2 DEF Whole
  <2>4. 1 \in 1..Len(archive[j].script)
    BY <2>1, <2>2 DEF Whole, Sequence
  <2>5. archive[j].script[1].sid = archive[i].sid /\ archive[j].script[1].sid = archive[j].sid
    BY <2>1, <2>3, <2>4 DEF Whole
  <2>6. archive[k].sid = archive[i].sid /\ archive[l].sid = archive[i].sid /\ archive[j].sid = archive[i].sid
    BY <2>1, <2>2, <2>3, <2>5 DEF Whole
  <2> QED  BY <2>6 DEF VerifierInv, Numbered
<1> QED  BY <1>1, <1>2 DEF VerifierIsExact, Helper!VerifierIsExact, Passes

(***************************************************************************)
(* VerifierAlways: whatever fails and whoever is killed, the detached      *)
(* verifier accepts what a session that closed as success or fail_closed   *)
(* left behind, unless a counter ran backwards, and accepts a success only *)
(* when receipt, transcript, guardian and control evidence are of one      *)
(* session (verify_transcript_bytes over _seal_terminal_receipt).          *)
(***************************************************************************)
THEOREM VerifierAlways == Helper!Spec => []VerifierIsExact
<1>1. Helper!Init => HelperInv /\ VerifierInv
  <2> SUFFICES ASSUME Helper!Init PROVE HelperInv /\ VerifierInv
    OBVIOUS
  <2>1. archive = <<>> /\ sessions = 0 /\ h = Helper!Off
    BY DEF Helper!Init
  <2>2. <<>> \in Seq({0}) /\ DOMAIN <<>> = {}
    OBVIOUS
  <2>3. h.kind = "none" /\ h.pc = "off"
    BY <2>1, OffIs
  <2>4. Kinds /\ Numbered /\ ~Open /\ ArchiveHolds
    BY <2>1, <2>2, <2>3 DEF Kinds, Numbered, Open, ArchiveHolds, Archived
  <2> QED  BY <2>4, HelperInit DEF VerifierInv
<1>2. HelperInv /\ VerifierInv /\ [Helper!Next]_(Helper!vars) => HelperInv' /\ VerifierInv'
  BY HelperStep, VerifierStep DEF HelperInv
<1>3. VerifierInv => VerifierIsExact
  BY VerifierFollows
<1> QED  BY <1>1, <1>2, <1>3, PTL DEF Helper!Spec

-----------------------------------------------------------------------------
\* The timing campaign

Measuring == {"receipts", "phase", "running", "run"}
Staging == {"create", "assemble", "verify", "seal", "check", "rename"}
Naming == {"sync", "validate1", "validate2", "return", "undo"}
Names3 == {"none", "ours", "other"}

Origins == [camp : {"now", "old", "none", "any"}, run : Int]

\* The ranges of what the argument is about.
TimingShape ==
    /\ now \in {"apply", "restore", "cleanup", "done", "decide"} \cup Measuring \cup Staging \cup Naming
    /\ at \in Nat /\ controls \in {"prior", "applied", "drifted"}
    /\ outcome \in {"running", "failed", "indeterminate", "killed", "returned"}
    /\ outcome # "running" => now = "done"
    /\ DOMAIN dir = {"staging", "final", "made", "sealed", "intact"}
    /\ dir.staging \in Names3 /\ dir.final \in Names3
    /\ dir.made \in BOOLEAN /\ dir.sealed \in BOOLEAN /\ dir.intact \in BOOLEAN

\* What the evidence can be: its origin, and of the campaign-wide pieces this
\* campaign or an earlier one.
EvidenceShape ==
    /\ stale = Timing!Fresh \/ stale \in Timing!Staleable
    /\ \A n \in Timing!Names : ev[n] \in Origins
    /\ \A n \in Timing!CampaignNames :
          ev[<<n, 0>>] \in {Timing!Absent, Timing!Now(0), Timing!Old(0)}

\* A control that was off its value during an estimator's command is off it until
\* the failure is on its way to the restore.
TaintIsSeen ==
    tainted # {} =>
        \/ now = "running" /\ controls = "drifted"
        \/ now = "restore" /\ error
        \/ now = "done"

\* The host is at its prior state before it is changed and from the restore on.
HostIsBack ==
    now \in {"apply", "cleanup"} \cup Staging \cup Naming => controls = "prior" /\ tainted = {}

\* What the artifact is at each place: made after the creation of its directory,
\* sealed only when its evidence verified.
ArtifactProgress ==
    /\ now \in {"apply", "restore", "create", "decide"} \cup Measuring => dir.staging # "ours"
    /\ now \in {"apply", "restore", "create", "assemble", "decide"} \cup Measuring => ~dir.made
    /\ now \in {"seal", "check", "rename"} \cup Naming => Timing!Prepare(ev)
    /\ now \in {"check", "rename"} \cup Naming => dir.sealed
    /\ now = "return" => dir.intact

\* The destination name is ours only after the rename, and then not the staging
\* name.
NameProgress ==
    dir.final = "ours" =>
        /\ now \in Naming \cup {"done"} /\ dir.staging # "ours"
        /\ dir.sealed /\ controls = "prior" /\ tainted = {} /\ Timing!Prepare(ev)

TimingInv ==
    /\ TimingShape /\ EvidenceShape /\ TaintIsSeen /\ HostIsBack /\ ArtifactProgress /\ NameProgress
    /\ FailureIsClean
    /\ outcome = "returned" => dir.final = "ours" /\ dir.staging = "none" /\ dir.intact
-----------------------------------------------------------------------------
\* Only an origin of this campaign and this run has an instant in its command.
LEMMA InstantTied ==
  ASSUME NEW o \in Origins, NEW r \in Nat, NEW k \in 0..3, Timing!Instant(o, k) = 4 * r + k
  PROVE  o = Timing!Now(r)
<1>1. o.camp = "now" /\ o.run = r
  BY DEF Timing!Instant, Origins
<1> QED  BY <1>1 DEF Timing!Now, Origins

\* What the joins of the assembler establish together: telemetry is tied down by
\* its instants, the clocks by the telemetry, the loader by the process; and the
\* campaign-wide pieces by the telemetry's campaign and the order of the receipts.
LEMMA JoinsAreEnough ==
  ASSUME EvidenceShape, Timing!Prepare(ev)
  PROVE  /\ Timing!OwnEvidence
         /\ \A n \in Timing!CampaignNames \ {"prior"} : ev[<<n, 0>>] = Timing!Now(0)
<1> USE DEF Timing!RunIndices
<1>1. \A r \in Timing!RunIndices : r \in Nat /\ \A n \in Timing!RunNames : ev[<<n, r>>] \in Origins
  BY TimingAssumption DEF EvidenceShape, Timing!Names
<1>2. /\ {"clock_pre", "telemetry_pre", "context", "parameters", "loader_before", "loader_after", "affinity",
          "observation", "updater", "timing", "clock_post", "telemetry_post"} \subseteq Timing!RunNames
  BY DEF Timing!RunNames, Timing!RunItems
<1>3. \A r \in Timing!RunIndices : /\ ev[<<"telemetry_pre", r>>] = Timing!Now(r)
                                   /\ ev[<<"telemetry_post", r>>] = Timing!Now(r)
  <2> SUFFICES ASSUME NEW r \in Timing!RunIndices
               PROVE  ev[<<"telemetry_pre", r>>] = Timing!Now(r) /\ ev[<<"telemetry_post", r>>] = Timing!Now(r)
    OBVIOUS
  <2>1. /\ Timing!Instant(ev[<<"telemetry_pre", r>>], 0) = 4 * r + 0
        /\ Timing!Instant(ev[<<"telemetry_post", r>>], 3) = 4 * r + 3
    BY DEF Timing!Prepare, Timing!Commands, Timing!RawTelemetry
  <2>2. ev[<<"telemetry_pre", r>>] \in Origins /\ ev[<<"telemetry_post", r>>] \in Origins /\ r \in Nat
    BY <1>1, <1>2
  <2> QED  BY <2>1, <2>2, InstantTied
<1>4. \A r \in Timing!RunIndices : /\ ev[<<"clock_pre", r>>] = Timing!Now(r)
                                   /\ ev[<<"clock_post", r>>] = Timing!Now(r)
  BY <1>3 DEF Timing!Prepare, Timing!DeriveRunSamples, Timing!ClockMatchesTelemetry
<1>5. \A r \in Timing!RunIndices : /\ ev[<<"observation", r>>] = Timing!Now(r)
                                   /\ ev[<<"loader_before", r>>] = Timing!Now(r)
                                   /\ ev[<<"loader_after", r>>] = Timing!Now(r)
  <2>1. \A r \in Timing!RunIndices : ev[<<"observation", r>>] = Timing!Now(r)
    <3> SUFFICES ASSUME NEW r \in Timing!RunIndices PROVE ev[<<"observation", r>>] = Timing!Now(r)
      OBVIOUS
    <3>1. Timing!Instant(ev[<<"observation", r>>], 2) = 4 * r + 2
      BY DEF Timing!Prepare, Timing!DeriveRunSamples, Timing!ProcessIdentity
    <3>2. ev[<<"observation", r>>] \in Origins /\ r \in Nat
      BY <1>1, <1>2
    <3> QED  BY <3>1, <3>2, InstantTied
  <2> QED  BY <2>1 DEF Timing!Prepare, Timing!DeriveRunSamples, Timing!ProcessIdentity
<1>6. \A r \in Timing!RunIndices : ev[<<"context", r>>].run = r
  <2>1. \A r \in Timing!RunIndices : ev[<<"context", r>>] = Timing!Content("context", Timing!Now(r))
    BY DEF Timing!Prepare, Timing!DeriveRunSamples, Timing!RuntimeContext
  <2>2. \A o : Timing!Content("context", o).run = o.run
    BY DEF Timing!Content
  <2>3. \A r : Timing!Now(r).run = r
    BY DEF Timing!Now
  <2> QED  BY <2>1, <2>2, <2>3
<1>7. \A r \in Timing!RunIndices : Timing!PidOf(ev[<<"affinity", r>>]) = Timing!PidOf(Timing!Now(r))
  BY <1>5 DEF Timing!Prepare, Timing!DeriveRunSamples, Timing!AffinityAudit
<1>8. \A r \in Timing!RunIndices : /\ ev[<<"updater", r>>] = ev[<<"timing", r>>]
                                   /\ Timing!ModeOf(ev[<<"timing", r>>].run) = Timing!ModeOf(r)
  BY DEF Timing!Prepare, Timing!DeriveRunSamples, Timing!TraceRows
<1>9. Timing!OwnEvidence
  BY <1>3, <1>4, <1>5, <1>6, <1>7, <1>8 DEF Timing!OwnEvidence
<1>10. 0 \in Timing!RunIndices
  BY TimingAssumption
<1>11. ev[<<"transcript", 0>>].camp = "now" /\ ev[<<"applied", 0>>].camp = "now"
  <2>1. Timing!HelperObservations(ev, 0) /\ Timing!ClockSnapshot(ev, 0, "clock_pre", 0)
    BY <1>10 DEF Timing!Prepare, Timing!HelperEvidence, Timing!DeriveRunSamples
  <2>2. /\ ev[<<"telemetry_pre", 0>>].camp = ev[<<"transcript", 0>>].camp
        /\ ev[<<"clock_pre", 0>>].camp = ev[<<"applied", 0>>].camp
    BY <2>1 DEF Timing!HelperObservations, Timing!ClockSnapshot
  <2>3. Timing!Now(0).camp = "now"
    BY DEF Timing!Now
  <2> QED  BY <1>3, <1>4, <1>10, <2>2, <2>3
<1>12. \A n \in Timing!CampaignNames : ev[<<n, 0>>].camp = "now" => ev[<<n, 0>>] = Timing!Now(0)
  BY DEF EvidenceShape, Timing!Absent, Timing!Now, Timing!Old
<1>13. ev[<<"restored", 0>>].camp = "now"
  BY <1>11 DEF Timing!Prepare, Timing!ControlEvidence, Timing!Captured
<1>14. /\ ev[<<"terminal", 0>>] = ev[<<"transcript", 0>>]
       /\ ev[<<"guardian", 0>>] = ev[<<"transcript", 0>>]
       /\ ev[<<"control", 0>>] = ev[<<"transcript", 0>>]
  BY DEF Timing!Prepare, Timing!HelperEvidence, Timing!HelperTranscript, Timing!HelperGuardian,
     Timing!HelperControl
<1> QED  BY <1>9, <1>11, <1>12, <1>13, <1>14 DEF Timing!CampaignNames

\* What is handed back has an origin, and a campaign-wide piece is of this
\* campaign or an earlier one.
LEMMA HandedShape ==
  ASSUME EvidenceShape
  PROVE  /\ \A n \in Timing!RunNames, r \in Timing!RunIndices : Timing!Handed(n, r) \in Origins
         /\ \A n \in Timing!CampaignNames :
                Timing!Handed(n, 0) \in {Timing!Now(0), Timing!Old(0)} /\ Timing!Handed(n, 0) \in Origins
<1>1. \A r \in Timing!RunIndices : r \in Int
  BY TimingAssumption DEF Timing!RunIndices
<1>2. \A n, o : o \in Origins => Timing!Content(n, o) \in Origins
  BY DEF Timing!Content, Origins
<1>3. \A r \in Int : Timing!Now(r) \in Origins /\ Timing!Old(r) \in Origins
  BY DEF Timing!Now, Timing!Old, Origins
<1>4. stale \in Timing!Staleable => stale[3] \in Origins
  BY <1>1, <1>3 DEF Timing!Staleable
<1>5. \A n \in Timing!RunNames, r \in Timing!RunIndices : Timing!Handed(n, r) \in Origins
  <2> SUFFICES ASSUME NEW n \in Timing!RunNames, NEW r \in Timing!RunIndices PROVE Timing!Handed(n, r) \in Origins
    OBVIOUS
  <2>1. n # "none" /\ n # "traces"
    BY DEF Timing!RunNames, Timing!RunItems
  <2>2. \/ Timing!Handed(n, r) = Timing!Content(n, Timing!Now(r))
        \/ stale[1] \in {n, "traces"} /\ Timing!Handed(n, r) = Timing!Content(n, stale[3])
    BY DEF Timing!Handed
  <2>3. stale[1] \in {n, "traces"} => stale \in Timing!Staleable
    BY <2>1 DEF EvidenceShape, Timing!Fresh
  <2> QED  BY <1>1, <1>2, <1>3, <1>4, <2>2, <2>3
<1>6. ASSUME NEW n \in Timing!CampaignNames
      PROVE  Timing!Handed(n, 0) \in {Timing!Now(0), Timing!Old(0)}
  <2>1. n \notin Timing!RunNames \cup {"traces", "none", "updater", "timing", "context", "parameters"}
    BY DEF Timing!CampaignNames, Timing!RunNames, Timing!RunItems
  <2>2. \A o : Timing!Content(n, o) = o
    BY <2>1 DEF Timing!Content
  <2>3. \/ Timing!Handed(n, 0) = Timing!Now(0)
        \/ stale[1] = n /\ Timing!Handed(n, 0) = stale[3]
    BY <2>1, <2>2 DEF Timing!Handed
  <2>4. stale[1] = n => stale \in Timing!CampaignNames \X {0} \X {Timing!Old(0)}
    BY <2>1 DEF EvidenceShape, Timing!Fresh, Timing!Staleable
  <2> QED  BY <2>3, <2>4
<1> QED  BY <1>3, <1>5, <1>6

\* Evidence that is kept or handed back keeps its shape.
LEMMA EvidenceKept ==
  ASSUME EvidenceShape, UNCHANGED stale,
         \A n \in Timing!Names : ev'[n] = ev[n] \/ ev'[n] = Timing!Handed(n[1], n[2])
  PROVE  EvidenceShape'
<1>1. \A n \in Timing!Names : n \in Timing!RunNames \X Timing!RunIndices \/ n \in Timing!CampaignNames \X {0}
  BY DEF Timing!Names
<1>2. \A n \in Timing!Names : ev[n] \in Origins
  BY DEF EvidenceShape
<1>3. \A n \in Timing!Names : ev'[n] \in Origins
  BY <1>1, <1>2, HandedShape
<1>4. \A n \in Timing!CampaignNames : <<n, 0>> \in Timing!Names
  BY DEF Timing!Names
<1>5. \A n \in Timing!CampaignNames :
          ev[<<n, 0>>] \in {Timing!Absent, Timing!Now(0), Timing!Old(0)}
  BY DEF EvidenceShape
<1>6. \A n \in Timing!CampaignNames :
          ev'[<<n, 0>>] \in {Timing!Absent, Timing!Now(0), Timing!Old(0)}
  BY <1>4, <1>5, HandedShape
<1> QED  BY <1>3, <1>6 DEF EvidenceShape, Timing!Absent, Timing!Now, Timing!Old

LEMMA EvidenceStep ==
  ASSUME EvidenceShape, at \in Nat, Timing!Next
  PROVE  EvidenceShape'
<1>1. UNCHANGED stale
  BY DEF Timing!Next, Timing!Apply, Timing!Receipts, Timing!PhaseStarts, Timing!PhaseEnds,
       Timing!RunEnds, Timing!Interrupted, Timing!Restore, Timing!CreateStaging,
       Timing!Assemble, Timing!VerifyStaging, Timing!Seal, Timing!CheckPublication,
       Timing!Rename, Timing!SyncParent, Timing!ValidateOnce, Timing!ValidateAgain,
       Timing!Return, Timing!Undo, Timing!Cleanup, Timing!InterruptedPublishing,
       Timing!Drift, Timing!GuardianPolls, Timing!Others, Timing!Edit, Timing!Kill,
       Timing!Decide, Timing!Validate, Timing!Aside
<1>2. CASE UNCHANGED ev
  BY <1>1, <1>2, EvidenceKept
<1>3. CASE Timing!Receipts \/ Timing!PhaseEnds
  <2>1. PICK names, r : Timing!Collect(names, r)
    BY <1>3 DEF Timing!Receipts, Timing!PhaseEnds
  <2>2. \A n \in Timing!Names : ev'[n] = ev[n] \/ ev'[n] = Timing!Handed(n[1], n[2])
    BY <2>1 DEF Timing!Collect
  <2> QED  BY <1>1, <2>2, EvidenceKept
<1>4. CASE Timing!Restore
  <2>1. \A n \in Timing!Names : n[1] \in Timing!CampaignNames => n[2] = 0
    <3>1. Timing!CampaignNames \cap Timing!RunNames = {}
      BY DEF Timing!CampaignNames, Timing!RunNames, Timing!RunItems
    <3> QED  BY <3>1 DEF Timing!Names
  <2>2. \A n \in Timing!Names : ev'[n] = ev[n] \/ ev'[n] = Timing!Handed(n[1], n[2])
    BY <1>4, <2>1 DEF Timing!Restore
  <2> QED  BY <1>1, <2>2, EvidenceKept
<1> QED
  BY <1>2, <1>3, <1>4
  DEF Timing!Next, Timing!Apply, Timing!PhaseStarts, Timing!RunEnds, Timing!Interrupted,
       Timing!CreateStaging, Timing!Assemble, Timing!VerifyStaging, Timing!Seal,
       Timing!CheckPublication, Timing!Rename, Timing!SyncParent, Timing!ValidateOnce,
       Timing!ValidateAgain, Timing!Return, Timing!Undo, Timing!Cleanup,
       Timing!InterruptedPublishing, Timing!Drift, Timing!GuardianPolls, Timing!Others,
       Timing!Edit, Timing!Kill, Timing!Decide, Timing!Validate, Timing!Aside

\* What is left to show of a step, once the evidence keeps its shape.
TimingRest ==
    /\ TimingShape /\ TaintIsSeen /\ HostIsBack /\ ArtifactProgress /\ NameProgress
    /\ FailureIsClean
    /\ outcome = "returned" => dir.final = "ours" /\ dir.staging = "none" /\ dir.intact

\* From the first control to the end of the last run.
LEMMA TimingMeasures ==
  ASSUME TimingRest, Timing!Apply \/ Timing!Receipts \/ Timing!PhaseStarts \/ Timing!PhaseEnds
         \/ Timing!RunEnds \/ Timing!Interrupted \/ Timing!Restore
  PROVE  TimingRest'
<1> USE DEF TimingRest, TimingShape, TaintIsSeen, HostIsBack, ArtifactProgress, NameProgress, FailureIsClean,
        Timing!FailureIsClean, Measuring, Staging, Naming, Names3
<1>1. CASE Timing!Apply
  BY <1>1 DEF Timing!Apply, Timing!End
<1>2. CASE Timing!Receipts
  BY <1>2 DEF Timing!Receipts, Timing!Raises, Timing!ValidateApplied, Timing!env
<1>3. CASE Timing!PhaseStarts
  BY <1>3 DEF Timing!PhaseStarts, Timing!Raises, Timing!ValidateApplied, Timing!env
<1>4. CASE Timing!PhaseEnds
  BY <1>4 DEF Timing!PhaseEnds, Timing!Raises, Timing!ValidateApplied, Timing!env
<1>5. CASE Timing!RunEnds
  BY <1>5 DEF Timing!RunEnds, Timing!Raises, Timing!env
<1>6. CASE Timing!Interrupted
  BY <1>6 DEF Timing!Interrupted, Timing!Raises, Timing!env
<1>7. CASE Timing!Restore
  BY <1>7 DEF Timing!Restore, Timing!End, Timing!HelperClosed
<1> QED  BY <1>1, <1>2, <1>3, <1>4, <1>5, <1>6, <1>7

\* From the staging directory to the rename.
LEMMA TimingStages ==
  ASSUME TimingRest, Timing!CreateStaging \/ Timing!Assemble \/ Timing!VerifyStaging \/ Timing!Seal
         \/ Timing!CheckPublication \/ Timing!Rename
  PROVE  TimingRest'
<1> USE DEF TimingRest, TimingShape, TaintIsSeen, HostIsBack, ArtifactProgress, NameProgress, FailureIsClean,
        Timing!FailureIsClean, Measuring, Staging, Naming, Names3
<1>1. CASE Timing!CreateStaging
  BY <1>1 DEF Timing!CreateStaging, Timing!Goes, Timing!End, Timing!Aside, Timing!env
<1>2. CASE Timing!Assemble
  BY <1>2 DEF Timing!Assemble, Timing!Goes, Timing!Aside, Timing!env
<1>3. CASE Timing!VerifyStaging
  BY <1>3 DEF Timing!VerifyStaging, Timing!Goes, Timing!Aside, Timing!VerifyArtifact, Timing!env
<1>4. CASE Timing!Seal
  BY <1>4 DEF Timing!Seal, Timing!Goes, Timing!Aside, Timing!env
<1>5. CASE Timing!CheckPublication
  BY <1>5 DEF Timing!CheckPublication, Timing!Goes, Timing!Aside, Timing!env
<1>6. CASE Timing!Rename
  BY <1>6 DEF Timing!Rename, Timing!Goes, Timing!Aside, Timing!env
<1> QED  BY <1>1, <1>2, <1>3, <1>4, <1>5, <1>6

\* From the rename to the end.
LEMMA TimingPublishes ==
  ASSUME TimingRest, Timing!SyncParent \/ Timing!ValidateOnce \/ Timing!ValidateAgain \/ Timing!Return
         \/ Timing!Undo \/ Timing!Cleanup \/ Timing!InterruptedPublishing
  PROVE  TimingRest'
<1> USE DEF TimingRest, TimingShape, TaintIsSeen, HostIsBack, ArtifactProgress, NameProgress, FailureIsClean,
        Timing!FailureIsClean, Measuring, Staging, Naming, Names3
<1>1. CASE Timing!SyncParent
  BY <1>1 DEF Timing!SyncParent, Timing!Goes, Timing!Aside, Timing!env
<1>2. CASE Timing!ValidateOnce
  BY <1>2 DEF Timing!ValidateOnce, Timing!Validate, Timing!Goes, Timing!Aside, Timing!VerifyArtifact,
     Timing!Location, Timing!env
<1>3. CASE Timing!ValidateAgain
  BY <1>3 DEF Timing!ValidateAgain, Timing!Validate, Timing!Goes, Timing!Aside, Timing!VerifyArtifact,
     Timing!Location, Timing!env
<1>4. CASE Timing!Return
  BY <1>4 DEF Timing!Return, Timing!End, Timing!Aside, Timing!Location, Timing!env
<1>5. CASE Timing!Undo
  BY <1>5 DEF Timing!Undo, Timing!Goes, Timing!End, Timing!Aside, Timing!Location, Timing!env
<1>6. CASE Timing!Cleanup
  BY <1>6 DEF Timing!Cleanup, Timing!End, Timing!Aside, Timing!env
<1>7. CASE Timing!InterruptedPublishing
  BY <1>7 DEF Timing!InterruptedPublishing, Timing!Goes, Timing!Aside, Timing!env
<1> QED  BY <1>1, <1>2, <1>3, <1>4, <1>5, <1>6, <1>7

\* The rest of the host, a kill, and the pure parts.
LEMMA TimingBeside ==
  ASSUME TimingRest, Timing!Drift \/ Timing!GuardianPolls \/ Timing!Others \/ Timing!Edit
         \/ Timing!Kill \/ Timing!Decide
  PROVE  TimingRest'
<1> USE DEF TimingRest, TimingShape, TaintIsSeen, HostIsBack, ArtifactProgress, NameProgress, FailureIsClean,
        Timing!FailureIsClean, Measuring, Staging, Naming, Names3
<1>1. CASE Timing!Drift
  BY <1>1 DEF Timing!Drift
<1>2. CASE Timing!GuardianPolls
  BY <1>2 DEF Timing!GuardianPolls
<1>3. CASE Timing!Others
  BY <1>3 DEF Timing!Others, Timing!env
<1>4. CASE Timing!Edit
  BY <1>4 DEF Timing!Edit, Timing!env
<1>5. CASE Timing!Kill
  BY <1>5 DEF Timing!Kill, Timing!End, Timing!env
<1>6. CASE Timing!Decide
  BY <1>6 DEF Timing!Decide, Timing!env
<1> QED  BY <1>1, <1>2, <1>3, <1>4, <1>5, <1>6

LEMMA TimingAlways == Timing!Spec => []TimingInv
<1>1. Timing!Init => TimingInv
  <2> SUFFICES ASSUME Timing!Init PROVE TimingInv
    OBVIOUS
  <2>1. EvidenceShape
    <3>1. \A n \in Timing!Names : ev[n] = Timing!Absent
      BY DEF Timing!Init
    <3>2. \A n \in Timing!CampaignNames : <<n, 0>> \in Timing!Names
      BY DEF Timing!Names
    <3>3. Timing!Absent \in Origins
      BY DEF Timing!Absent, Origins
    <3>4. stale = Timing!Fresh \/ stale \in Timing!Staleable
      BY DEF Timing!Init
    <3> QED  BY <3>1, <3>2, <3>3, <3>4 DEF EvidenceShape
  <2>2. TimingRest
    BY DEF Timing!Init, Timing!Empty, TimingRest, TimingShape, TaintIsSeen, HostIsBack, ArtifactProgress,
       NameProgress, FailureIsClean, Timing!FailureIsClean, Measuring, Staging, Naming, Names3
  <2> QED  BY <2>1, <2>2 DEF TimingInv, TimingRest
<1>2. TimingInv /\ [Timing!Next]_(Timing!vars) => TimingInv'
  <2> SUFFICES ASSUME TimingInv, [Timing!Next]_(Timing!vars) PROVE TimingInv'
    OBVIOUS
  <2>0. TimingRest /\ EvidenceShape /\ at \in Nat
    BY DEF TimingInv, TimingRest, TimingShape
  <2>1. CASE Timing!Next
    <3>1. EvidenceShape'
      BY <2>0, <2>1, EvidenceStep
    <3>2. TimingRest'
      BY <2>0, <2>1, TimingMeasures, TimingStages, TimingPublishes, TimingBeside DEF Timing!Next
    <3> QED  BY <3>1, <3>2 DEF TimingInv, TimingRest
  <2>2. CASE UNCHANGED Timing!vars
    BY <2>2 DEF Timing!vars, TimingInv, TimingShape, EvidenceShape, TaintIsSeen, HostIsBack, ArtifactProgress,
       NameProgress, FailureIsClean, Timing!FailureIsClean, Timing!Absent, Timing!Now, Timing!Old
  <2> QED  BY <2>1, <2>2
<1> QED  BY <1>1, <1>2, PTL DEF Timing!Spec

(***************************************************************************)
(* MeasuredAlways: whatever fails, drifts or is exchanged, and however     *)
(* many pairs are measured, an artifact under the destination name is      *)
(* sealed, of this campaign, and was measured on a host that held its      *)
(* controls (run_campaign, assemble, publish_artifact_noreplace).          *)
(***************************************************************************)
THEOREM MeasuredAlways == Timing!Spec => []MeasuredIsHeld
<1>1. TimingInv => MeasuredIsHeld
  BY JoinsAreEnough DEF TimingInv, NameProgress, MeasuredIsHeld, Timing!MeasuredIsHeld
<1> QED  BY <1>1, TimingAlways, PTL

(***************************************************************************)
(* FailureAlways: an orchestration that ends with an ordinary exception    *)
(* has put the host back and left nothing of its own under either name,    *)
(* but for an empty staging directory (run_campaign, the handlers of       *)
(* publish_artifact_noreplace and cleanup_unpublished_artifact).           *)
(***************************************************************************)
THEOREM FailureAlways == Timing!Spec => []FailureIsClean
<1>1. TimingInv => FailureIsClean
  BY DEF TimingInv
<1> QED  BY <1>1, TimingAlways, PTL

-----------------------------------------------------------------------------
\* The pure decisions.

Ratios == [num : Nat, den : Nat \ {0}]

\* The order of exact ratios is transitive: multiply out, then cancel.
LEMMA RatioTransitive ==
  ASSUME NEW a \in Ratios, NEW b \in Ratios, NEW c \in Ratios,
         Timing!CompareExactRatios(a, b) =< 0, Timing!CompareExactRatios(b, c) =< 0
  PROVE  Timing!CompareExactRatios(a, c) =< 0
<1> DEFINE x == a.num  x2 == a.den  y == b.num  y2 == b.den  z == c.num  z2 == c.den
<1>1. x \in Nat /\ y \in Nat /\ z \in Nat /\ x2 \in Nat \ {0} /\ y2 \in Nat \ {0} /\ z2 \in Nat \ {0}
  BY DEF Ratios
<1>2. x * y2 =< y * x2 /\ y * z2 =< z * y2
  BY <1>1 DEF Timing!CompareExactRatios
<1> SUFFICES x * z2 =< z * x2
  BY <1>1 DEF Timing!CompareExactRatios
<1> HIDE DEF x, x2, y, y2, z, z2
<1>3. \A m, n \in Nat, k \in Nat : m =< n => m * k =< n * k
  BY SMT
<1>4. (x * y2) * z2 =< (y * x2) * z2
  BY <1>1, <1>2, <1>3
<1>5. (y * z2) * x2 =< (z * y2) * x2
  BY <1>1, <1>2, <1>3
<1>6. (x * y2) * z2 = (x * z2) * y2 /\ (y * x2) * z2 = (y * z2) * x2 /\ (z * y2) * x2 = (z * x2) * y2
  BY <1>1
<1>7. (x * z2) * y2 =< (z * x2) * y2
  BY <1>1, <1>4, <1>5, <1>6
<1>8. \A m, n \in Nat, k \in Nat \ {0} : m * k =< n * k => m =< n
  BY SMT
<1>9. x * z2 \in Nat /\ z * x2 \in Nat
  BY <1>1
<1> QED  BY <1>1, <1>7, <1>8, <1>9

\* The instance's counting of a finite set is the library's.
LEMMA TimingCounts ==
  ASSUME NEW S
  PROVE  Timing!Cardinality(S) = Cardinality(S)
BY DEF Timing!Cardinality, Cardinality

\* Two different indices make a set of at least two.
LEMMA TwoOfThree ==
  ASSUME NEW S \in SUBSET (1..3), NEW i \in S, NEW j \in S, i # j
  PROVE  Cardinality(S) >= 2
<1>0. IsFiniteSet(1..3)
  <2>1. 1 \in Int /\ 3 \in Int
    OBVIOUS
  <2> QED  BY <2>1, FS_Interval
<1>1. IsFiniteSet(S) /\ {i, j} \subseteq S
  BY <1>0, FS_Subset
<1>2. Cardinality({i, j}) = 2
  <2>1. IsFiniteSet({i}) /\ Cardinality({i}) = 1 /\ j \notin {i} /\ {i} \cup {j} = {i, j}
    BY FS_Singleton
  <2>2. Cardinality({i} \cup {j}) = IF j \in {i} THEN Cardinality({i}) ELSE Cardinality({i}) + 1
    BY <2>1, FS_AddElement
  <2> QED  BY <2>1, <2>2
<1>3. Cardinality({i, j}) =< Cardinality(S) /\ Cardinality(S) \in Nat
  BY <1>1, FS_Subset, FS_CardinalityType
<1> QED  BY <1>2, <1>3

\* What the three ratios' middle one is compared with, two of them on each side.
LEMMA MiddleIsMedian ==
  ASSUME NEW s \in [1..3 -> Ratios], NEW m \in Ratios,
         \E i, j, k \in 1..3 :
            /\ i # j /\ j # k /\ s[j] = m
            /\ Timing!CompareExactRatios(s[i], m) =< 0 /\ Timing!CompareExactRatios(m, s[k]) =< 0
  PROVE  Timing!IsMedian(m, s)
<1>1. PICK i, j, k \in 1..3 :
            /\ i # j /\ j # k /\ s[j] = m
            /\ Timing!CompareExactRatios(s[i], m) =< 0 /\ Timing!CompareExactRatios(m, s[k]) =< 0
  OBVIOUS
<1>2. Timing!CompareExactRatios(m, m) = 0
  BY DEF Timing!CompareExactRatios, Ratios
<1>3. Timing!CompareExactRatios(s[k], m) >= 0
  <2>1. s[k] \in Ratios
    OBVIOUS
  <2> QED  BY <1>1, <2>1 DEF Timing!CompareExactRatios, Ratios
<1>4. Cardinality({n \in 1..3 : Timing!CompareExactRatios(s[n], m) =< 0}) >= 2
  BY <1>1, <1>2, TwoOfThree
<1>5. Cardinality({n \in 1..3 : Timing!CompareExactRatios(s[n], m) >= 0}) >= 2
  BY <1>1, <1>2, <1>3, TwoOfThree
<1>6. /\ Timing!Cardinality({n \in 1..3 : Timing!CompareExactRatios(s[n], m) =< 0}) >= 2
      /\ Timing!Cardinality({n \in 1..3 : Timing!CompareExactRatios(s[n], m) >= 0}) >= 2
  BY <1>4, <1>5, TimingCounts
<1> QED  BY <1>1, <1>6 DEF Timing!IsMedian

\* An exchange keeps the three ratios and puts two neighbours in order.
LEMMA Exchange ==
  ASSUME NEW s \in [1..3 -> Ratios], NEW i \in 1..2
  PROVE  /\ Timing!Swapped(s, i) \in [1..3 -> Ratios]
         /\ Timing!CompareExactRatios(Timing!Swapped(s, i)[i], Timing!Swapped(s, i)[i + 1]) =< 0
         /\ \/ Timing!Swapped(s, i) = s
            \/ /\ Timing!Swapped(s, i) = [s EXCEPT ![i] = s[i + 1], ![i + 1] = s[i]]
               /\ Timing!CompareExactRatios(s[i + 1], s[i]) =< 0
<1>1. \A a, b \in Ratios : /\ Timing!CompareExactRatios(a, b) \in Int
                           /\ Timing!CompareExactRatios(a, b) > 0 => Timing!CompareExactRatios(b, a) =< 0
  BY DEF Timing!CompareExactRatios, Ratios
<1>2. s[i] \in Ratios /\ s[i + 1] \in Ratios /\ i + 1 \in 1..3 /\ i # i + 1
  OBVIOUS
<1> QED  BY <1>1, <1>2 DEF Timing!Swapped

\* t holds the three ratios of s, each in one place.
Rearranged(t, s) ==
    \E i, j, k \in 1..3 : i # j /\ j # k /\ i # k /\ t[1] = s[i] /\ t[2] = s[j] /\ t[3] = s[k]

LEMMA ExchangeRearranges ==
  ASSUME NEW s \in [1..3 -> Ratios], NEW t \in [1..3 -> Ratios], Rearranged(t, s), NEW n \in 1..2
  PROVE  Rearranged(Timing!Swapped(t, n), s)
<1>1. PICK i, j, k \in 1..3 : i # j /\ j # k /\ i # k /\ t[1] = s[i] /\ t[2] = s[j] /\ t[3] = s[k]
  BY DEF Rearranged
<1>2. CASE Timing!Swapped(t, n) = t
  BY <1>2
<1>3. CASE Timing!Swapped(t, n) = [t EXCEPT ![n] = t[n + 1], ![n + 1] = t[n]]
  <2> DEFINE u == Timing!Swapped(t, n)
  <2>1. CASE n = 1
    <3>1. u[1] = s[j] /\ u[2] = s[i] /\ u[3] = s[k]
      BY <1>1, <1>3, <2>1
    <3> QED  BY <1>1, <3>1 DEF Rearranged
  <2>2. CASE n = 2
    <3>1. u[1] = s[i] /\ u[2] = s[k] /\ u[3] = s[j]
      BY <1>1, <1>3, <2>2
    <3> QED  BY <1>1, <3>1 DEF Rearranged
  <2> QED  BY <2>1, <2>2
<1> QED  BY <1>2, <1>3, Exchange

\* Three exchanges sort three ratios; the middle one is the median.
LEMMA MedianOfThree ==
  ASSUME NEW s \in [1..3 -> Ratios]
  PROVE  Timing!IsMedian(Timing!MedianOfThreeRatios(s), s)
<1> DEFINE le(x, y) == Timing!CompareExactRatios(x, y) =< 0
           a == Timing!Swapped(s, 1)
           b == Timing!Swapped(a, 2)
           c == Timing!Swapped(b, 1)
<1>0. 1 \in 1..2 /\ 2 \in 1..2
  OBVIOUS
<1>1. /\ a \in [1..3 -> Ratios] /\ le(a[1], a[2])
  BY <1>0, Exchange
<1>2. /\ b \in [1..3 -> Ratios] /\ le(b[2], b[3])
      /\ \/ b = a
         \/ b = [a EXCEPT ![2] = a[3], ![3] = a[2]]
  BY <1>0, <1>1, Exchange
<1>3. /\ c \in [1..3 -> Ratios] /\ le(c[1], c[2])
      /\ \/ c = b
         \/ c = [b EXCEPT ![1] = b[2], ![2] = b[1]]
  BY <1>0, <1>2, Exchange
<1>4. Rearranged(c, s)
  <2>1. Rearranged(s, s)
    BY DEF Rearranged
  <2>2. Rearranged(a, s)
    BY <1>0, <2>1, ExchangeRearranges
  <2>3. Rearranged(b, s)
    BY <1>0, <1>1, <2>2, ExchangeRearranges
  <2> QED  BY <1>0, <1>2, <2>3, ExchangeRearranges
<1>5. le(b[1], b[3])
  <2>1. CASE b = a
    <3>1. b[1] \in Ratios /\ b[2] \in Ratios /\ b[3] \in Ratios
      BY <1>2
    <3>2. le(b[1], b[2]) /\ le(b[2], b[3])
      BY <1>1, <1>2, <2>1
    <3> HIDE DEF a, b, c
    <3> QED  BY <3>1, <3>2, RatioTransitive
  <2>2. CASE b = [a EXCEPT ![2] = a[3], ![3] = a[2]]
    <3>1. b[1] = a[1] /\ b[3] = a[2]
      <4> HIDE DEF a, b, c
      <4> QED  BY <1>1, <2>2
    <3> QED  BY <1>1, <3>1
  <2> HIDE DEF a, b, c
  <2> QED  BY <1>2, <2>1, <2>2
<1> HIDE DEF a, b, c
<1>6. le(c[2], c[3])
  <2>1. c[3] = b[3] /\ (c[2] = b[2] \/ c[2] = b[1])
    BY <1>2, <1>3
  <2> HIDE DEF le
  <2> QED  BY <1>2, <1>5, <2>1
<1>7. c[2] \in Ratios
  BY <1>3
<1>8. PICK i, j, k \in 1..3 : i # j /\ j # k /\ i # k /\ c[1] = s[i] /\ c[2] = s[j] /\ c[3] = s[k]
  BY <1>4 DEF Rearranged
<1>9. Timing!IsMedian(c[2], s)
  <2>1. i # j /\ j # k /\ s[j] = c[2] /\ le(s[i], c[2]) /\ le(c[2], s[k])
    BY <1>3, <1>6, <1>8
  <2> QED  BY <1>7, <2>1, MiddleIsMedian
<1>10. Timing!MedianOfThreeRatios(s) = c[2]
  BY DEF Timing!MedianOfThreeRatios, a, b, c
<1> QED  BY <1>9, <1>10

\* A profile that loads isolates the estimator: the estimator's one CPU is the
\* only one online on its core, and the roles and interrupts are elsewhere.
LEMMA LoadedIsolates ==
  ASSUME NEW p, Timing!ProfileLoads(p)
  PROVE  Timing!Isolates(p)
<1>1. Timing!RolesHold(p) /\ Timing!CoresHold(p) /\ Timing!CpuControlsHold(p) /\ Timing!InterruptsHold(p)
  BY DEF Timing!ProfileLoads
<1> SUFFICES ASSUME NEW e \in p.estimator, NEW c \in p.cores, e \in c.siblings
             PROVE  /\ \A s \in c.siblings \ {e} : s \in p.offline /\ ~p.expectedOnline[s]
                    /\ (p.helper \union p.housekeeping \union p.defaultIrq \union UNION p.irqs)
                            \intersect c.siblings = {}
  BY DEF Timing!Isolates
<1>2. Timing!CoreHolds(p, c) /\ c.siblings \subseteq Timing!Cpus
  BY <1>1 DEF Timing!CoresHold
<1>3. /\ c.online \union c.offline = c.siblings
      /\ c.siblings \intersect p.estimator = c.online
      /\ c.online = c.siblings \intersect p.online
      /\ c.offline = c.siblings \intersect p.offline
  BY <1>2 DEF Timing!CoreHolds
<1>4. /\ p.estimator \intersect p.helper = {} /\ p.estimator \intersect p.housekeeping = {}
      /\ p.online = p.estimator \union p.helper \union p.housekeeping
  <2> DEFINE roles == <<p.estimator, p.helper, p.housekeeping, p.offline>>
  <2>1. \A i, j \in 1..4 : i # j => roles[i] \intersect roles[j] = {}
    BY <1>1 DEF Timing!RolesHold
  <2>2. 1 \in 1..4 /\ 2 \in 1..4 /\ 3 \in 1..4
        /\ roles[1] = p.estimator /\ roles[2] = p.helper /\ roles[3] = p.housekeeping
    OBVIOUS
  <2>3. p.online = p.estimator \union p.helper \union p.housekeeping
    BY <1>1 DEF Timing!RolesHold
  <2> HIDE DEF roles
  <2> QED  BY <2>1, <2>2, <2>3
<1>5. p.estimator = {e}
  <2>1. Cardinality(p.estimator) = 1
    BY <1>1, TimingCounts DEF Timing!RolesHold
  <2>2. PICK x : p.estimator = {x}
    <3>1. IsFiniteSet(Timing!Cpus)
      <4>1. 0 \in Int /\ LogicalCpus - 1 \in Int
        BY TimingAssumption
      <4> QED  BY <4>1, FS_Interval DEF Timing!Cpus
    <3>2. p.estimator \subseteq Timing!Cpus
      <4> DEFINE roles == <<p.estimator, p.helper, p.housekeeping, p.offline>>
      <4>1. UNION {roles[i] : i \in 1..4} = Timing!Cpus
        BY <1>1 DEF Timing!RolesHold
      <4>2. roles[1] = p.estimator /\ 1 \in 1..4
        OBVIOUS
      <4> HIDE DEF roles
      <4> QED  BY <4>1, <4>2
    <3>3. IsFiniteSet(p.estimator)
      BY <3>1, <3>2, FS_Subset
    <3> QED  BY <2>1, <3>3, FS_Singleton
  <2> QED  BY <2>2
<1>6. \A s \in c.siblings \ {e} : s \in p.offline /\ ~p.expectedOnline[s]
  <2> TAKE s \in c.siblings \ {e}
  <2>1. s \in p.offline /\ s \in Timing!Cpus
    BY <1>2, <1>3, <1>5
  <2> QED  BY <1>1, <2>1 DEF Timing!CpuControlsHold
<1>7. p.defaultIrq \subseteq p.housekeeping /\ UNION p.irqs \subseteq p.housekeeping
  BY <1>1 DEF Timing!InterruptsHold
<1> QED  BY <1>3, <1>4, <1>6, <1>7

\* An input of the pure parts waits for its decision, and then carries the answer.
PureInv ==
    \/ probe = Timing!NoProbe /\ now # "decide"
    \/ now \in {"decide", "done"} /\ probe.of = "pair"
    \/ now = "decide" /\ \E m \in MedianProbes : probe = [of |-> "median", in |-> m]
    \/ now = "decide" /\ \E p \in PlanProbes : probe = [of |-> "plan", in |-> p]
    \/ now = "done" /\ \E m \in MedianProbes :
          probe = [of |-> "median", in |-> m, out |-> Timing!MedianOfThreeRatios(m)]
    \/ now = "done" /\ \E p \in PlanProbes :
          probe = [of |-> "plan", in |-> p, out |-> Timing!ProfileLoads(p)]

\* The orchestration never touches such an input, nor comes to its decision.
LEMMA OthersLeaveProbes ==
  ASSUME Timing!Next, ~Timing!Decide
  PROVE  probe' = probe /\ (now' = now \/ (now \notin {"decide", "done"} /\ now' # "decide"))
<1> USE DEF Timing!Fine, Timing!Fault
<1>1. CASE Timing!Apply \/ Timing!Receipts \/ Timing!PhaseStarts \/ Timing!PhaseEnds \/ Timing!RunEnds
           \/ Timing!Interrupted \/ Timing!Restore
  BY <1>1 DEF Timing!Apply, Timing!Receipts, Timing!PhaseStarts, Timing!PhaseEnds, Timing!RunEnds,
       Timing!Interrupted, Timing!Restore, Timing!Raises, Timing!End
<1>2. CASE Timing!CreateStaging \/ Timing!Assemble \/ Timing!VerifyStaging \/ Timing!Seal
           \/ Timing!CheckPublication \/ Timing!Rename \/ Timing!SyncParent
  BY <1>2 DEF Timing!CreateStaging, Timing!Assemble, Timing!VerifyStaging, Timing!Seal,
       Timing!CheckPublication, Timing!Rename, Timing!SyncParent, Timing!Goes, Timing!End, Timing!Aside
<1>3. CASE Timing!ValidateOnce \/ Timing!ValidateAgain \/ Timing!Return \/ Timing!Undo \/ Timing!Cleanup
           \/ Timing!InterruptedPublishing
  BY <1>3 DEF Timing!ValidateOnce, Timing!ValidateAgain, Timing!Validate, Timing!Return, Timing!Undo,
       Timing!Cleanup, Timing!InterruptedPublishing, Timing!Goes, Timing!End, Timing!Aside
<1>4. CASE Timing!Drift \/ Timing!GuardianPolls \/ Timing!Others \/ Timing!Edit \/ Timing!Kill
  BY <1>4 DEF Timing!Drift, Timing!GuardianPolls, Timing!Others, Timing!Edit, Timing!Kill, Timing!End
<1> QED  BY <1>1, <1>2, <1>3, <1>4 DEF Timing!Next

LEMMA PureAlways == Timing!Spec => []PureInv
<1>1. Timing!Init => PureInv
  BY DEF Timing!Init, PureInv
<1>2. PureInv /\ [Timing!Next]_timing => PureInv'
  <2> SUFFICES ASSUME PureInv, [Timing!Next]_timing PROVE PureInv'
    OBVIOUS
  <2>1. CASE UNCHANGED timing
    BY <2>1 DEF timing, PureInv
  <2>2. CASE Timing!Next /\ ~Timing!Decide
    BY <2>2, OthersLeaveProbes DEF PureInv
  <2>3. CASE Timing!Decide
    <3>1. now = "decide" /\ now' = "done"
      BY <2>3 DEF Timing!Decide
    <3>2. CASE probe.of = "pair"
      <4>1. probe'.of = "pair"
        BY <2>3, <3>2 DEF Timing!Decide
      <4> QED  BY <3>1, <4>1 DEF PureInv
    <3>3. CASE \E m \in MedianProbes : probe = [of |-> "median", in |-> m]
      BY <2>3, <3>1, <3>3 DEF Timing!Decide, PureInv
    <3>4. CASE \E p \in PlanProbes : probe = [of |-> "plan", in |-> p]
      BY <2>3, <3>1, <3>4 DEF Timing!Decide, PureInv
    <3> QED  BY <3>1, <3>2, <3>3, <3>4 DEF PureInv
  <2> QED  BY <2>1, <2>2, <2>3
<1> QED  BY <1>1, <1>2, PTL DEF Timing!Spec, Timing!vars, timing

\* A profile that loads leaves the estimator's physical core to the estimator
\* (cp2_timing_profile.py 578-1001), for every machine and every profile.
THEOREM PlanAlways == Timing!Spec => []Timing!PlanIsolates
<1>1. PureInv => Timing!PlanIsolates
  <2> SUFFICES ASSUME PureInv, now = "done", probe.of = "plan", probe.out
               PROVE  Timing!Isolates(probe.in)
    BY DEF Timing!PlanIsolates
  <2>1. PICK p \in PlanProbes : probe = [of |-> "plan", in |-> p, out |-> Timing!ProfileLoads(p)]
    BY DEF PureInv, Timing!NoProbe
  <2>2. Timing!ProfileLoads(p) /\ probe.in = p
    BY <2>1
  <2> QED  BY <2>2, LoadedIsolates
<1> QED  BY <1>1, PureAlways, PTL

\* What is reported for the three pairs is the median of their ratios, whatever
\* the ratios and their order (cp2_timing_math.py median_of_three_ratios).
THEOREM MedianAlways ==
  Timing!Spec => [](now = "done" /\ probe.of = "median" => Timing!IsMedian(probe.out, probe.in))
<1>1. PureInv => (now = "done" /\ probe.of = "median" => Timing!IsMedian(probe.out, probe.in))
  <2> SUFFICES ASSUME PureInv, now = "done", probe.of = "median"
               PROVE  Timing!IsMedian(probe.out, probe.in)
    OBVIOUS
  <2>1. PICK m \in MedianProbes :
          probe = [of |-> "median", in |-> m, out |-> Timing!MedianOfThreeRatios(m)]
    BY DEF PureInv, Timing!NoProbe
  <2>2. m \in [1..3 -> Ratios]
    BY TimingAssumption DEF Ratios
  <2>3. probe.out = Timing!MedianOfThreeRatios(m) /\ probe.in = m
    BY <2>1
  <2> QED  BY <2>2, <2>3, MedianOfThree
<1> QED  BY <1>1, PureAlways, PTL
=============================================================================
