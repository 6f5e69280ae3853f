-------------------------- MODULE CpusetPlacement --------------------------
(***************************************************************************)
(* How PrivilegedTimingBackend moves every thread of the estimator into    *)
(* its cpuset and back while the estimator goes on creating and ending     *)
(* threads.  A new thread starts where its creator is.  A thread is 1..    *)
(* MaxThreads; thread 1 is the process's leader.                           *)
(***************************************************************************)
EXTENDS Integers, FiniteSets

CONSTANTS
    MaxThreads,   \* bound: threads the estimator ever has
    Attempts      \* attempts of a stable capture and of the placement (8)

VARIABLES
    live,     \* threads of the estimator
    born,     \* threads created so far
    home,     \* thread -> "in" the cpuset or "out" of it
    pc,       \* what the backend does next
    goal,     \* what the capture in progress is for
    shot,     \* the threads the capture listed
    first,    \* the rows of the first of two captures, or {}
    rows,     \* the last stable capture, as a set of <<thread, home>>
    prior,    \* the captured prior rows
    batch,    \* threads of the capture that is being moved
    todo,     \* those of them still to move
    tries, attempt

world == <<live, born, home>>
backend == <<pc, goal, shot, first, rows, prior, batch, todo, tries, attempt>>
vars == <<world, backend>>

Threads == 1..MaxThreads
Tids(r) == {x[1] : x \in r}
Members == {t \in live : home[t] = "in"}
Rows(ts) == {<<t, home[t]>> : t \in ts}

Init ==
    /\ live = {1} /\ born = 1 /\ home = [t \in Threads |-> "out"]
    /\ pc = "list" /\ goal = "prior" /\ shot = {} /\ first = {} /\ rows = {}
    /\ prior = {} /\ batch = {} /\ todo = {} /\ tries = 1 /\ attempt = 1

-----------------------------------------------------------------------------
\* The estimator; a thread identity is not used twice (the start time tells).

Spawn ==
    /\ born < MaxThreads /\ born' = born + 1
    /\ \E p \in live :
        live' = live \cup {born'} /\ home' = [home EXCEPT ![born'] = home[p]]
    /\ UNCHANGED backend

ThreadEnds ==
    /\ \E t \in live \ {1} : live' = live \ {t}
    /\ UNCHANGED <<born, home, backend>>

ProcessEnds ==
    /\ live # {} /\ live' = {}
    /\ UNCHANGED <<born, home, backend>>

-----------------------------------------------------------------------------
\* _stable_descendant_state

\* The start of a capture for the goal g.
CaptureFor(g) ==
    /\ pc' = "list" /\ goal' = g /\ first' = {} /\ tries' = 1

Again ==
    /\ first' = {} /\ tries' = tries + 1 /\ UNCHANGED rows
    /\ pc' = IF tries = Attempts THEN "failed" ELSE "list"

\* _descendant_state_once lists the threads ...
ListThreads ==
    /\ pc = "list"
    /\ IF live = {} THEN Again /\ UNCHANGED shot
       ELSE shot' = live /\ pc' = "rows" /\ UNCHANGED <<first, rows, tries>>
    /\ UNCHANGED <<world, goal, prior, batch, todo, attempt>>

\* ... then _thread_rows reads each; a thread that is gone spoils the capture,
\* and two captures in a row must agree.
ReadRows ==
    /\ pc = "rows"
    /\ IF ~(shot \subseteq live) \/ (first # {} /\ first # Rows(shot)) THEN Again
       ELSE IF first = {} THEN first' = Rows(shot) /\ pc' = "list" /\ UNCHANGED <<rows, tries>>
       ELSE rows' = Rows(shot) /\ pc' = goal /\ UNCHANGED <<first, tries>>
    /\ UNCHANGED <<world, goal, shot, prior, batch, todo, attempt>>

-----------------------------------------------------------------------------
\* _prior_record and _create_cpuset

CapturePrior ==
    /\ pc = "prior" /\ prior' = rows /\ CaptureFor("before")
    /\ UNCHANGED <<world, shot, rows, batch, todo, attempt>>

PlanMoves ==
    /\ pc = "before" /\ batch' = Tids(rows) /\ todo' = Tids(rows) /\ pc' = "move"
    /\ UNCHANGED <<world, goal, shot, first, rows, prior, tries, attempt>>

\* Each thread of the capture is moved; one that is gone ends the placement.
MoveIn ==
    /\ pc = "move"
    /\ \/ \E t \in todo :
            /\ \A u \in todo : t <= u
            /\ todo' = todo \ {t}
            /\ IF t \in live THEN home' = [home EXCEPT ![t] = "in"] /\ UNCHANGED pc
               ELSE pc' = "failed" /\ UNCHANGED home
            /\ UNCHANGED <<goal, first, tries>>
       \/ todo = {} /\ CaptureFor("after") /\ UNCHANGED <<todo, home>>
    /\ UNCHANGED <<live, born, shot, rows, prior, batch, attempt>>

\* All inside, and nobody else inside (_validate_scheduler_population too).
Confined(r) == (\A x \in r : x[2] = "in") /\ Members = Tids(r)

\* Mutant: it is enough that the threads that were moved are inside.
AcceptPlacementOfBatch ==
    /\ pc = "after"
    /\ LET stable == batch \cap live \subseteq Members IN
       \/ stable /\ pc' = "placed" /\ UNCHANGED <<goal, first, tries, attempt>>
       \/ /\ ~stable /\ attempt' = attempt + 1
          /\ IF attempt = Attempts THEN pc' = "failed" /\ UNCHANGED <<goal, first, tries>>
             ELSE CaptureFor("before")
    /\ UNCHANGED <<world, shot, rows, prior, batch, todo>>

\* The threads must be the same as before they were moved; otherwise once more.
AcceptPlacement ==
    /\ pc = "after"
    /\ LET stable == Tids(rows) = batch /\ Confined(rows) IN
       \/ stable /\ pc' = "placed" /\ UNCHANGED <<goal, first, tries, attempt>>
       \/ /\ ~stable /\ attempt' = attempt + 1
          /\ IF attempt = Attempts THEN pc' = "failed" /\ UNCHANGED <<goal, first, tries>>
             ELSE CaptureFor("before")
    /\ UNCHANGED <<world, shot, rows, prior, batch, todo>>

\* The guardian looks again while the campaign runs.
GuardianLooks ==
    /\ pc = "placed" /\ CaptureFor("prove")
    /\ UNCHANGED <<world, shot, rows, prior, batch, todo, attempt>>

GuardianProves ==
    /\ pc = "prove" /\ pc' = IF Confined(rows) THEN "placed" ELSE "failed"
    /\ UNCHANGED <<world, goal, shot, first, rows, prior, batch, todo, tries, attempt>>

-----------------------------------------------------------------------------
\* restore: by the helper itself, or after its death by a replacement

Release ==
    /\ pc \in {"placed", "failed"} /\ prior # {} /\ goal \notin {"undo", "check", "external"}
    /\ CaptureFor("undo")
    /\ UNCHANGED <<world, shot, rows, prior, batch, todo, attempt>>

\* _restore_scheduler_partition: every prior thread and no other must be there.
PlanRelease ==
    /\ pc = "undo" /\ batch' = Tids(rows) /\ todo' = Tids(prior)
    /\ pc' = IF Tids(rows) = Tids(prior) THEN "leave" ELSE "lost"
    /\ UNCHANGED <<world, goal, shot, first, rows, prior, tries, attempt>>

\* The helper is killed; a replacement finds the prior rows in the journal.
HelperDies ==
    /\ pc \notin {"restored", "recovered"} /\ goal # "external" /\ prior # {}
    /\ pc' = "dead" /\ goal' = "external"
    /\ UNCHANGED <<world, shot, first, rows, prior, batch, todo, tries, attempt>>

\* _external_recovery_task_rows: a process that is gone is skipped, one that is
\* there must have its prior threads; nobody else may be inside.
PlanRecovery ==
    /\ pc = "dead" /\ batch' = live /\ todo' = live
    /\ pc' = IF live \in {{}, Tids(prior)} /\ Members \subseteq live THEN "leave" ELSE "lost"
    /\ UNCHANGED <<world, goal, shot, first, rows, prior, tries, attempt>>

\* Each goes back to where it was.
MoveOut ==
    /\ pc = "leave" /\ todo # {}
    /\ \E t \in todo :
        /\ \A u \in todo : t <= u
        /\ todo' = todo \ {t}
        /\ IF t \in live
           THEN home' = [home EXCEPT ![t] = (CHOOSE x \in prior : x[1] = t)[2]] /\ UNCHANGED pc
           ELSE pc' = "lost" /\ UNCHANGED home
    /\ UNCHANGED <<live, born, goal, shot, first, rows, prior, batch, tries, attempt>>

\* The group can be removed when nobody is inside.
RemoveCpuset ==
    /\ pc = "leave" /\ todo = {}
    /\ IF Members # {} THEN pc' = "lost" /\ UNCHANGED <<goal, first, tries>>
       ELSE IF goal = "external" THEN pc' = "validate" /\ UNCHANGED <<goal, first, tries>>
       ELSE CaptureFor("check")
    /\ UNCHANGED <<world, shot, rows, prior, batch, todo, attempt>>

\* validate_restored: the whole prior record, read again.
ValidateRestored ==
    /\ pc = "check" /\ pc' = IF rows = prior THEN "restored" ELSE "lost"
    /\ UNCHANGED <<world, goal, shot, first, rows, prior, batch, todo, tries, attempt>>

\* validate_external_recovery: the same threads, none of the live ones gone
\* since, all where they were.
ValidateRecovery ==
    /\ pc = "validate"
    /\ pc' = IF live = batch /\ Rows(live) \subseteq prior THEN "recovered" ELSE "lost"
    /\ UNCHANGED <<world, goal, shot, first, rows, prior, batch, todo, tries, attempt>>

-----------------------------------------------------------------------------
Next ==
    \/ Spawn \/ ThreadEnds \/ ProcessEnds
    \/ ListThreads \/ ReadRows \/ CapturePrior \/ PlanMoves \/ MoveIn \/ AcceptPlacement
    \/ GuardianLooks \/ GuardianProves
    \/ Release \/ PlanRelease \/ HelperDies \/ PlanRecovery \/ MoveOut \/ RemoveCpuset
    \/ ValidateRestored \/ ValidateRecovery

Spec == Init /\ [][Next]_vars

(***************************************************************************)
(* PartitionHolds: once the placement is accepted no thread of the         *)
(* estimator is outside the cpuset, whatever it created or ended meanwhile *)
(* (_create_cpuset); once the restoration or the recovery is validated     *)
(* none is inside (_restore_scheduler_partition, remove_cpuset).           *)
(***************************************************************************)
PartitionHolds ==
    /\ pc \in {"placed", "prove"} => Members = live
    /\ pc \in {"restored", "recovered"} => Members = {}
=============================================================================
