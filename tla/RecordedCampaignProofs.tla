----------------------- MODULE RecordedCampaignProofs -----------------------
(***************************************************************************)
(* RecordedCampaign proved for any number of campaigns, recordings, edits  *)
(* and faults: what is published is verified and true, and a committed     *)
(* directory never changes again.                                          *)
(***************************************************************************)
EXTENDS RecordedCampaign, TLAPS

\* Where the parent may be: before its supervisor is forked, ...
Unforked == {"open"} \cup Barrier \cup
            {"refuse", "registry", "parents", "partial", "register", "staged", "workspaces", "mounts", "fork",
             "unmake", "unregister", "abandon"}
\* ... and among these, before there is a directory, ...
Fresh == {"open"} \cup Barrier \cup {"refuse", "registry", "parents", "partial"}
\* ... before it asks the verifier, ...
Early == Unforked \cup {"await", "bags"}
\* ... with a directory that was verified and that it still means to publish, ...
Verified == {"snapshot", "publish", "rename", "renamed", "published", "commit"}
\* ... in the handling of a failed publication, and after the outcome is settled.
Failing == {"clean", "state", "reconcile", "reconcile2", "unrename", "unrenamed", "unpublish",
            "mark_mode", "mark_move", "mark", "unmarked"}
Ending == {"close", "remove", "done", "idle"}

Places == Early \cup {"verify"} \cup Verified \cup Failing \cup {"report"} \cup Ending

Outcomes == {"none", "refused", "raised", "failed", "unmarked", "passed", "killed"}
Trees == [at : {"none", "hidden", "final"}, mode : {"none", "open", "sealed"}, bytes : Nat, sums : Nat,
          ready : Nat, built : Nat, runs : Seq(Nat \X Nat), marker : {"none", "untrusted", "trusted"}]
Workers == [st : {"none", "enter", "pidns", "copy", "capsule", "build", "audit", "pair", "ros", "accept",
                  "assemble", "replay", "seal", "sealed", "told", "gone"},
            i : Nat, pend : BOOLEAN, ok : BOOLEAN, sup : {"none", "up", "passed", "failed", "dead"},
            stray : BOOLEAN, strict : BOOLEAN, idx : Nat, exe : Nat]
Parents == [pc : Places, pend : BOOLEAN, gen : Nat, names : Nat, ready : Nat, made : Nat,
            latch : {"none", "hidden", "final"}, committed : BOOLEAN, failed : BOOLEAN,
            snap : SUBSET (Nat \X {"none", "untrusted", "trusted"}), private : BOOLEAN, owners : BOOLEAN,
            verdict : {"none", "pass", "fail"}]

\* The ranges of the variables: the surroundings, ...
TypeWorld ==
    /\ src \in [gen : Nat, clean : BOOLEAN, extra : Nat] /\ bag \in Nat /\ unit \in Nat
    /\ edits \in Nat /\ faults \in Nat /\ lock \in {"free", "ours", "other"}
    /\ run \in 0 .. MaxRuns
\* ... the parent, ...
TypeParent == p \in Parents /\ (p.pc # "idle" => run > 0)
\* ... the worker: nothing of it is left once it is gone, and its result is told
\* only then, ...
Quiet == wk.st \in {"none", "gone"}
TypeWorker ==
    /\ wk \in Workers
    /\ wk.stray => ~Quiet
    /\ wk.sup \in {"passed", "failed"} => wk.st = "gone"
    /\ ~Quiet => run > 0
\* ... and the directories.
TypeTree == tree \in [1 .. MaxRuns -> Trees] /\ outcome \in [1 .. MaxRuns -> Outcomes]
\* The parent takes away no more components than there are.
TypeOutput ==
    /\ anc \in 0 .. Depth
    /\ p.pc \notin {"abandon", "unmarked"} \cup Ending => p.made <= anc

\* Who has something to compare with what is held is at a step that can refuse.
Comparing == Barrier \cup {"parents", "staged", "fork", "bags", "snapshot", "rename", "published", "commit"}
Pending ==
    /\ p.pend => p.pc \in Comparing
    /\ wk.pend => wk.st \notin {"none", "told", "gone"}

TypeOK == TypeWorld /\ TypeParent /\ TypeWorker /\ TypeTree /\ TypeOutput /\ Pending

-----------------------------------------------------------------------------
\* What was verified about the content of a directory.
Contents(t) ==
    t.bytes = t.sums /\ t.ready = t.built /\ t.runs = [i \in 1 .. Recordings |-> <<0, 0>>]
Intact(t) == t.mode = "sealed" /\ t.marker = "none"

\* What an outcome says of the directory.
Told(t, o) ==
    /\ o = "passed" => t.at = "final" /\ Intact(t)
    /\ o = "failed" => t.marker = "trusted"
    /\ o = "refused" => t.at = "none"
    /\ t.at = "final" /\ t.marker # "trusted" => o \in {"passed", "unmarked", "killed"}

\* The campaigns before and after the present one.
Others ==
    \A r \in 1 .. MaxRuns :
       /\ r < run => Told(tree[r], outcome[r]) /\ (tree[r].at = "final" => Contents(tree[r]))
       /\ r > run => tree[r] = NoTree /\ outcome[r] = "none"

\* The present one: no verdict and nothing published before the verifier is asked, ...
EarlyInv(t) ==
    /\ p.pc \in Early => p.verdict = "none" /\ ~p.committed /\ t.at # "final"
    /\ p.pc \in Fresh => t = NoTree
    /\ p.pc \in Unforked => wk.st = "none"
    /\ p.pc \in {"bags", "verify"} => wk.st = "gone" /\ ~p.committed /\ t.at # "final"
\* ... a verdict that still holds of what is published, because nobody is left
\* who could change it, ...
VerdictInv(t) ==
    /\ p.verdict = "pass" => wk.st = "gone" /\ Contents(t)
    /\ t.at = "final" => p.verdict = "pass"
\* ... whole and unmarked until the campaign fails, ...
IntactInv(t) ==
    /\ \/ p.pc \in Verified
       \/ p.pc = "verify" /\ p.verdict = "pass"
       \/ p.pc = "clean" /\ ~p.failed
       \/ p.committed
       => p.verdict = "pass" /\ Intact(t)
    /\ p.pc \in {"renamed", "published", "commit", "report"} \/ p.committed => t.at = "final"
    /\ p.committed => p.pc \in {"report", "state"} \cup Ending
    /\ p.pc = "report" => p.committed
    /\ p.pc \in {"snapshot", "clean", "publish", "rename"} => t.at # "final"
\* ... and an outcome that is told when it is settled.
OutcomeInv(t) ==
    /\ p.pc \notin Ending => outcome[run] = "none"
    /\ p.pc \in Ending => Told(t, outcome[run]) /\ outcome[run] # "none"

Present == run > 0 => EarlyInv(tree[run]) /\ VerdictInv(tree[run]) /\ IntactInv(tree[run]) /\ OutcomeInv(tree[run])

IInv == TypeOK /\ Others /\ Present

-----------------------------------------------------------------------------
\* The steps of the parent.

USE BoundAssumption

\* Where an exception may be raised.
Raisable == Places \ {"idle", "open", "refuse", "abandon", "unmake", "unregister", "clean",
                      "reconcile", "reconcile2", "state", "unmarked", "close", "remove", "done"}

Raised ==
    /\ Raise /\ p.pc \in Raisable /\ UNCHANGED <<tree, outcome, run>>
    /\ wk' = wk \/ wk' = [wk EXCEPT !.sup = "dead"]

\* A step that leaves the directory, its outcome and the worker alone.
Straight ==
    /\ UNCHANGED <<tree, outcome, run, wk>>
    /\ p'.verdict = p.verdict /\ p'.committed = p.committed
    /\ \/ p'.pc = p.pc /\ p'.failed = p.failed
       \/ p.pc \in Fresh /\ p'.pc \in Fresh
       \/ p.pc \in Unforked /\ p'.pc \in Unforked \ Fresh
       \/ p.pc = "await" /\ p'.pc = "bags" /\ wk.st = "gone"
       \/ p.pc = "bags" /\ p'.pc = "verify"
       \/ p.pc = "verify" /\ p'.pc = "snapshot" /\ p.verdict = "pass"
       \/ p.pc = "snapshot" /\ p'.pc = "clean"
       \/ p.pc = "clean" /\ p'.pc = "publish" /\ ~p.failed
       \/ p.pc = "clean" /\ p'.pc = "state"
       \/ p.pc = "publish" /\ p'.pc = "rename"
       \/ p.pc \in {"renamed", "published"} /\ p'.pc \in {"published", "commit"}
       \/ p.pc \in {"reconcile", "unrenamed", "reconcile2"} /\ p'.pc \in {"unrename", "state", "reconcile2"}
       \/ p.pc = "state" /\ p'.pc \in {"mark_mode", "unmarked"} /\ ~p.committed
       \/ p.pc = "state" /\ p'.pc = "report" /\ p.committed
       \/ p.pc \in Ending /\ p'.pc \in Ending

\* A step of the worker, its supervisor or the surroundings: nothing is written
\* once the worker is gone, and the directory keeps its name and a trusted marker.
Beside ==
    /\ p' = p /\ UNCHANGED <<outcome, run>>
    /\ Quiet => tree' = tree /\ wk'.st = wk.st
    /\ ~Quiet => \E t \in Trees : /\ tree' = [tree EXCEPT ![run] = t] /\ t.at = Out.at
                                  /\ Out.marker = "trusted" => t.marker = "trusted"

\* The steps that matter to a directory and its outcome.
Decisive ==
    \/ Start \/ Refuse \/ CreatePartial \/ RollbackLocal \/ RollbackEmpty \/ Abandon \/ ForkSupervisor
    \/ RunVerifier \/ (RenameNoReplace /\ ~Raise) \/ Commit \/ RenameBack \/ UnsealForMarker \/ Quarantine
    \/ CommitMarker \/ Unmarked \/ Report \/ Kill

Goes == (p' \in Parents /\ (p'.pc # "idle" => run' > 0)) /\ (Raised \/ Straight \/ Beside \/ Decisive)

LEMMA RaiseGoes ==
    ASSUME TypeParent, Raise, p.pc \in Raisable, UNCHANGED <<tree, outcome, run>>,
           wk' = wk \/ wk' = [wk EXCEPT !.sup = "dead"]
    PROVE  Goes
<1>1. Handler(p.pc) \in Places \ {"idle"}
  BY DEF Handler, Places, Early, Unforked, Failing
<1>2. p' \in Parents /\ (p'.pc # "idle" => run' > 0)
  <2>1. run > 0
    BY DEF TypeParent, Raisable
  <2>2. p' \in Parents
    BY <1>1 DEF Raise, TypeParent, Parents
  <2> QED  BY <2>1, <2>2
<1> QED  BY <1>2 DEF Goes, Raised

\* The parent moves on: a lemma for each shape of such a step.
LEMMA ToIs ==
    ASSUME TypeParent, NEW pc \in Places, To(pc)
    PROVE  /\ p' \in Parents /\ p'.pc = pc /\ p'.verdict = p.verdict /\ p'.committed = p.committed
           /\ p'.failed = p.failed
BY DEF To, TypeParent, Parents

LEMMA ReadIs ==
    ASSUME TypeParent, NEW pc \in Places, Read(pc)
    PROVE  /\ p' \in Parents /\ p'.pc = pc /\ p'.verdict = p.verdict /\ p'.committed = p.committed
           /\ p'.failed = p.failed
BY DEF Read, TypeParent, Parents

LEMMA OutTyped ==
    ASSUME TypeWorld, TypeTree, run > 0
    PROVE  Out \in Trees /\ run \in 1 .. MaxRuns
BY DEF TypeWorld, TypeTree, Out

LEMMA BesideUnwritten ==
    ASSUME TypeWorld, TypeParent, TypeWorker, TypeTree, UNCHANGED <<p, tree, outcome, run>>,
           Quiet => wk'.st = wk.st
    PROVE  Goes
<1>1. ~Quiet => Out \in Trees /\ tree' = [tree EXCEPT ![run] = Out]
  BY OutTyped DEF TypeWorker, TypeTree, Out
<1> QED  BY <1>1 DEF Goes, Beside, TypeParent

LEMMA BesideWritten ==
    ASSUME TypeWorld, TypeParent, TypeWorker, TypeTree, UNCHANGED <<p, outcome, run>>, ~Quiet,
           NEW t \in Trees, t.at = Out.at, t.marker = Out.marker, tree' = [tree EXCEPT ![run] = t]
    PROVE  Goes
BY DEF Goes, Beside, TypeParent

\* Every step is one of these.
LEMMA StepKinds ==
    ASSUME TypeWorld, TypeParent, TypeWorker, TypeTree, Pending, [Next]_vars
    PROVE  Goes
<1> DEFINE Goal == Goes
<1>1. ASSUME Start PROVE Goal
  <2>1. p' = [NoParent EXCEPT !.pc = "open"] /\ run' = run + 1 /\ run \in Nat
    BY <1>1 DEF Start, TypeWorld
  <2>2. p' \in Parents
    BY <2>1 DEF NoParent, Parents, Places, Early, Unforked, Fresh, Barrier, Verified, Failing,
       Ending
  <2> QED  BY <1>1, <2>1, <2>2 DEF Goes, Decisive
<1>2. ASSUME NextRun PROVE Goal
  <2>1. p.pc = "done" /\ UNCHANGED <<tree, outcome, run, wk>>
    BY <1>2 DEF NextRun, At, world
  <2>2. To("idle")
    BY <1>2 DEF NextRun, At
  <2>3. /\ p' \in Parents /\ p'.pc = "idle" /\ p'.verdict = p.verdict
        /\ p'.committed = p.committed /\ p'.failed = p.failed
    BY <2>2, ToIs DEF Places, Early, Unforked, Fresh, Barrier, Verified, Failing, Ending
  <2>4. run' > 0
    BY <2>1 DEF TypeParent
  <2> QED  BY <2>1, <2>3, <2>4 DEF Goes, Straight, Places, Early, Unforked, Fresh, Barrier,
              Verified, Failing, Ending
<1>3. ASSUME Revalidate PROVE Goal
  <2>1. CASE Raise
    <3>1. p.pc \in Raisable
      BY <1>3 DEF Revalidate, Pending, Comparing, Raisable, Barrier, Places, Early, Unforked,
         Verified
    <3> QED  BY <1>3, <2>1, <3>1, RaiseGoes DEF Revalidate
  <2>2. CASE ~Raise
    <3>1. p' = [p EXCEPT !.pend = FALSE] /\ UNCHANGED <<tree, outcome, run, wk>>
      BY <1>3, <2>2 DEF Revalidate
    <3>2. /\ p' \in Parents /\ p'.pc = p.pc /\ p'.verdict = p.verdict /\ p'.committed = p.committed
          /\ p'.failed = p.failed
      BY <3>1 DEF TypeParent, Parents
    <3> QED  BY <3>1, <3>2 DEF Goes, Straight, TypeParent
  <2> QED  BY <2>1, <2>2
<1>4. ASSUME OpenRepository PROVE Goal
  <2>1. p.pc = "open" /\ UNCHANGED <<tree, outcome, run, wk>>
    BY <1>4 DEF OpenRepository, At, world
  <2>2. p' = [p EXCEPT !.gen = src.gen, !.names = src.extra, !.pc = "establish"]
    BY <1>4 DEF OpenRepository, At
  <2>3. /\ p' \in Parents /\ p'.pc = "establish" /\ p'.verdict = p.verdict
        /\ p'.committed = p.committed /\ p'.failed = p.failed
    BY <2>2 DEF TypeParent, Parents, Places, Early, Unforked, Fresh, Barrier, Verified, Failing,
       Ending, TypeWorld
  <2>4. run' > 0
    BY <2>1 DEF TypeParent
  <2> QED  BY <2>1, <2>3, <2>4 DEF Goes, Straight, Places, Early, Unforked, Fresh, Barrier,
              Verified, Failing, Ending
<1>5. ASSUME EstablishSource PROVE Goal
  <2>1. CASE Raise
    BY <1>5, <2>1, RaiseGoes DEF EstablishSource, At, Raisable, Places, Early, Unforked, Fresh,
       Barrier, Verified, Failing, Ending
  <2>2. CASE ~Raise
    <3>1. p.pc = "establish" /\ UNCHANGED <<tree, outcome, run, wk>>
      BY <1>5, <2>2 DEF EstablishSource, At, world
    <3>2. p' = [p EXCEPT !.pc = "before", !.pend = TRUE, !.private = TRUE]
      BY <1>5, <2>2 DEF EstablishSource, At
    <3>3. /\ p' \in Parents /\ p'.pc = "before" /\ p'.verdict = p.verdict
          /\ p'.committed = p.committed /\ p'.failed = p.failed
      BY <3>2 DEF TypeParent, Parents, Places, Early, Unforked, Fresh, Barrier, Verified,
         Failing, Ending, TypeWorld
    <3>4. run' > 0
      BY <3>1 DEF TypeParent
    <3> QED  BY <3>1, <3>3, <3>4 DEF Goes, Straight, Places, Early, Unforked, Fresh, Barrier,
                Verified, Failing, Ending
  <2> QED  BY <2>1, <2>2
<1>6. ASSUME CaptureBefore PROVE Goal
  <2>1. p.pc = "before" /\ UNCHANGED <<tree, outcome, run, wk>>
    BY <1>6 DEF CaptureBefore, At, world
  <2>2. p' = [p EXCEPT !.ready = src.gen, !.pc = "tests", !.pend = TRUE]
    BY <1>6 DEF CaptureBefore, At
  <2>3. /\ p' \in Parents /\ p'.pc = "tests" /\ p'.verdict = p.verdict
        /\ p'.committed = p.committed /\ p'.failed = p.failed
    BY <2>2 DEF TypeParent, Parents, Places, Early, Unforked, Fresh, Barrier, Verified, Failing,
       Ending, TypeWorld
  <2>4. run' > 0
    BY <2>1 DEF TypeParent
  <2> QED  BY <2>1, <2>3, <2>4 DEF Goes, Straight, Places, Early, Unforked, Fresh, Barrier,
              Verified, Failing, Ending
<1>7. ASSUME RunSelfTests PROVE Goal
  <2>1. CASE Raise
    BY <1>7, <2>1, RaiseGoes DEF RunSelfTests, At, Raisable, Places, Early, Unforked, Fresh,
       Barrier, Verified, Failing, Ending
  <2>2. CASE ~Raise
    <3>1. p.pc = "tests" /\ UNCHANGED <<tree, outcome, run, wk>>
      BY <1>7, <2>2 DEF RunSelfTests, At, world
    <3>2. Read("after")
      BY <1>7, <2>2 DEF RunSelfTests, At
    <3>3. /\ p' \in Parents /\ p'.pc = "after" /\ p'.verdict = p.verdict
          /\ p'.committed = p.committed /\ p'.failed = p.failed
      BY <3>2, ReadIs DEF Places, Early, Unforked, Fresh, Barrier, Verified, Failing, Ending
    <3>4. run' > 0
      BY <3>1 DEF TypeParent
    <3> QED  BY <3>1, <3>3, <3>4 DEF Goes, Straight, Places, Early, Unforked, Fresh, Barrier,
                Verified, Failing, Ending
  <2> QED  BY <2>1, <2>2
<1>8. ASSUME CaptureAfter PROVE Goal
  <2>1. CASE Raise
    BY <1>8, <2>1, RaiseGoes DEF CaptureAfter, At, Raisable, Places, Early, Unforked, Fresh,
       Barrier, Verified, Failing, Ending
  <2>2. CASE ~Raise
    <3>1. p.pc = "after" /\ UNCHANGED <<tree, outcome, run, wk>>
      BY <1>8, <2>2 DEF CaptureAfter, At, world
    <3>2. Read("lock")
      BY <1>8, <2>2 DEF CaptureAfter, At
    <3>3. /\ p' \in Parents /\ p'.pc = "lock" /\ p'.verdict = p.verdict
          /\ p'.committed = p.committed /\ p'.failed = p.failed
      BY <3>2, ReadIs DEF Places, Early, Unforked, Fresh, Barrier, Verified, Failing, Ending
    <3>4. run' > 0
      BY <3>1 DEF TypeParent
    <3> QED  BY <3>1, <3>3, <3>4 DEF Goes, Straight, Places, Early, Unforked, Fresh, Barrier,
                Verified, Failing, Ending
  <2> QED  BY <2>1, <2>2
<1>9. ASSUME AcquireDataLock PROVE Goal
  <2>1. CASE Raise
    BY <1>9, <2>1, RaiseGoes DEF AcquireDataLock, At, Raisable, Places, Early, Unforked, Fresh,
       Barrier, Verified, Failing, Ending
  <2>2. CASE ~Raise
    <3>1. p.pc = "lock" /\ UNCHANGED <<tree, outcome, run, wk>>
      BY <1>9, <2>2 DEF AcquireDataLock, At, world
    <3>2. To("postlock")
      BY <1>9, <2>2 DEF AcquireDataLock, At
    <3>3. /\ p' \in Parents /\ p'.pc = "postlock" /\ p'.verdict = p.verdict
          /\ p'.committed = p.committed /\ p'.failed = p.failed
      BY <3>2, ToIs DEF Places, Early, Unforked, Fresh, Barrier, Verified, Failing, Ending
    <3>4. run' > 0
      BY <3>1 DEF TypeParent
    <3> QED  BY <3>1, <3>3, <3>4 DEF Goes, Straight, Places, Early, Unforked, Fresh, Barrier,
                Verified, Failing, Ending
  <2> QED  BY <2>1, <2>2
<1>10. ASSUME PostLock PROVE Goal
  <2>1. CASE Raise
    BY <1>10, <2>1, RaiseGoes DEF PostLock, At, Raisable, Places, Early, Unforked, Fresh,
       Barrier, Verified, Failing, Ending
  <2>2. CASE ~Raise
    <3>1. p.pc = "postlock" /\ UNCHANGED <<tree, outcome, run, wk>>
      BY <1>10, <2>2 DEF PostLock, At, world
    <3>2. Read("freeze")
      BY <1>10, <2>2 DEF PostLock, At
    <3>3. /\ p' \in Parents /\ p'.pc = "freeze" /\ p'.verdict = p.verdict
          /\ p'.committed = p.committed /\ p'.failed = p.failed
      BY <3>2, ReadIs DEF Places, Early, Unforked, Fresh, Barrier, Verified, Failing, Ending
    <3>4. run' > 0
      BY <3>1 DEF TypeParent
    <3> QED  BY <3>1, <3>3, <3>4 DEF Goes, Straight, Places, Early, Unforked, Fresh, Barrier,
                Verified, Failing, Ending
  <2> QED  BY <2>1, <2>2
<1>11. ASSUME FreezeUnitArtifact PROVE Goal
  <2>1. p.pc = "freeze" /\ UNCHANGED <<tree, outcome, run, wk>>
    BY <1>11 DEF FreezeUnitArtifact, At, world
  <2>2. Read("unit")
    BY <1>11 DEF FreezeUnitArtifact, At
  <2>3. /\ p' \in Parents /\ p'.pc = "unit" /\ p'.verdict = p.verdict
        /\ p'.committed = p.committed /\ p'.failed = p.failed
    BY <2>2, ReadIs DEF Places, Early, Unforked, Fresh, Barrier, Verified, Failing, Ending
  <2>4. run' > 0
    BY <2>1 DEF TypeParent
  <2> QED  BY <2>1, <2>3, <2>4 DEF Goes, Straight, Places, Early, Unforked, Fresh, Barrier,
              Verified, Failing, Ending
<1>12. ASSUME InvokeUnitVerifier PROVE Goal
  <2>1. CASE Raise
    BY <1>12, <2>1, RaiseGoes DEF InvokeUnitVerifier, At, Raisable, Places, Early, Unforked,
       Fresh, Barrier, Verified, Failing, Ending
  <2>2. CASE ~Raise
    <3>1. p.pc = "unit" /\ UNCHANGED <<tree, outcome, run, wk>>
      BY <1>12, <2>2 DEF InvokeUnitVerifier, At, world
    <3>2. Read("postunit")
      BY <1>12, <2>2 DEF InvokeUnitVerifier, At
    <3>3. /\ p' \in Parents /\ p'.pc = "postunit" /\ p'.verdict = p.verdict
          /\ p'.committed = p.committed /\ p'.failed = p.failed
      BY <3>2, ReadIs DEF Places, Early, Unforked, Fresh, Barrier, Verified, Failing, Ending
    <3>4. run' > 0
      BY <3>1 DEF TypeParent
    <3> QED  BY <3>1, <3>3, <3>4 DEF Goes, Straight, Places, Early, Unforked, Fresh, Barrier,
                Verified, Failing, Ending
  <2> QED  BY <2>1, <2>2
<1>13. ASSUME PostUnit PROVE Goal
  <2>1. CASE Raise
    BY <1>13, <2>1, RaiseGoes DEF PostUnit, At, Raisable, Places, Early, Unforked, Fresh,
       Barrier, Verified, Failing, Ending
  <2>2. CASE ~Raise
    <3>1. p.pc = "postunit" /\ UNCHANGED <<tree, outcome, run, wk>>
      BY <1>13, <2>2 DEF PostUnit, At, world
    <3>2. Read("seal")
      BY <1>13, <2>2 DEF PostUnit, At
    <3>3. /\ p' \in Parents /\ p'.pc = "seal" /\ p'.verdict = p.verdict
          /\ p'.committed = p.committed /\ p'.failed = p.failed
      BY <3>2, ReadIs DEF Places, Early, Unforked, Fresh, Barrier, Verified, Failing, Ending
    <3>4. run' > 0
      BY <3>1 DEF TypeParent
    <3> QED  BY <3>1, <3>3, <3>4 DEF Goes, Straight, Places, Early, Unforked, Fresh, Barrier,
                Verified, Failing, Ending
  <2> QED  BY <2>1, <2>2
<1>14. ASSUME SealPrivateTree PROVE Goal
  <2>1. p.pc = "seal" /\ UNCHANGED <<tree, outcome, run, wk>>
    BY <1>14 DEF SealPrivateTree, At, world
  <2>2. Read("authorize")
    BY <1>14 DEF SealPrivateTree, At
  <2>3. /\ p' \in Parents /\ p'.pc = "authorize" /\ p'.verdict = p.verdict
        /\ p'.committed = p.committed /\ p'.failed = p.failed
    BY <2>2, ReadIs DEF Places, Early, Unforked, Fresh, Barrier, Verified, Failing, Ending
  <2>4. run' > 0
    BY <2>1 DEF TypeParent
  <2> QED  BY <2>1, <2>3, <2>4 DEF Goes, Straight, Places, Early, Unforked, Fresh, Barrier,
              Verified, Failing, Ending
<1>15. ASSUME Authorize PROVE Goal
  <2>1. p.pc = "authorize" /\ UNCHANGED <<tree, outcome, run, wk>>
    BY <1>15 DEF Authorize, At, world
  <2>2. To("registry")
    BY <1>15 DEF Authorize, At
  <2>3. /\ p' \in Parents /\ p'.pc = "registry" /\ p'.verdict = p.verdict
        /\ p'.committed = p.committed /\ p'.failed = p.failed
    BY <2>2, ToIs DEF Places, Early, Unforked, Fresh, Barrier, Verified, Failing, Ending
  <2>4. run' > 0
    BY <2>1 DEF TypeParent
  <2> QED  BY <2>1, <2>3, <2>4 DEF Goes, Straight, Places, Early, Unforked, Fresh, Barrier,
              Verified, Failing, Ending
<1>16. ASSUME Refuse PROVE Goal
  <2>1. To("remove") /\ run' = run /\ run > 0
    BY <1>16 DEF Refuse, At, TypeParent
  <2>2. p' \in Parents
    BY <2>1, ToIs DEF Places, Early, Unforked, Fresh, Barrier, Verified, Failing, Ending
  <2> QED  BY <1>16, <2>1, <2>2 DEF Goes, Decisive
<1>17. ASSUME ReadRegistry PROVE Goal
  <2>1. p.pc = "registry" /\ UNCHANGED <<tree, outcome, run, wk>>
    BY <1>17 DEF ReadRegistry, At, world
  <2>2. Read("parents")
    BY <1>17 DEF ReadRegistry, At
  <2>3. /\ p' \in Parents /\ p'.pc = "parents" /\ p'.verdict = p.verdict
        /\ p'.committed = p.committed /\ p'.failed = p.failed
    BY <2>2, ReadIs DEF Places, Early, Unforked, Fresh, Barrier, Verified, Failing, Ending
  <2>4. run' > 0
    BY <2>1 DEF TypeParent
  <2> QED  BY <2>1, <2>3, <2>4 DEF Goes, Straight, Places, Early, Unforked, Fresh, Barrier,
              Verified, Failing, Ending
<1>18. ASSUME AcquireParent PROVE Goal
  <2>1. CASE Raise
    BY <1>18, <2>1, RaiseGoes DEF AcquireParent, At, Raisable, Places, Early, Unforked, Fresh,
       Barrier, Verified, Failing, Ending
  <2>2. CASE ~Raise
    <3>1. p.pc = "parents" /\ UNCHANGED <<tree, outcome, run, wk>> /\ run > 0
      BY <1>18 DEF AcquireParent, At, TypeParent
    <3>2. p' = [p EXCEPT !.made = @ + 1] \/ To("partial")
      BY <1>18, <2>2 DEF AcquireParent
    <3>3. CASE p' = [p EXCEPT !.made = @ + 1]
      <4>1. /\ p' \in Parents /\ p'.pc = p.pc /\ p'.verdict = p.verdict /\ p'.committed = p.committed
            /\ p'.failed = p.failed
        BY <3>3 DEF TypeParent, Parents
      <4> QED  BY <3>1, <4>1 DEF Goes, Straight
    <3>4. CASE To("partial")
      <4>1. /\ p' \in Parents /\ p'.pc = "partial" /\ p'.verdict = p.verdict /\ p'.committed = p.committed
        BY <3>4, ToIs DEF Places, Early, Unforked, Fresh, Barrier, Verified, Failing, Ending
      <4> QED  BY <3>1, <4>1 DEF Goes, Straight, Fresh
    <3> QED  BY <3>2, <3>3, <3>4
  <2> QED  BY <2>1, <2>2
<1>19. ASSUME CreatePartial PROVE Goal
  <2>1. To("register") /\ run' = run /\ run > 0
    BY <1>19 DEF CreatePartial, At, TypeParent
  <2>2. p' \in Parents
    BY <2>1, ToIs DEF Places, Early, Unforked, Fresh, Barrier, Verified, Failing, Ending
  <2> QED  BY <1>19, <2>1, <2>2 DEF Goes, Decisive
<1>20. ASSUME Register PROVE Goal
  <2>1. CASE Raise
    BY <1>20, <2>1, RaiseGoes DEF Register, At, Raisable, Places, Early, Unforked, Fresh,
       Barrier, Verified, Failing, Ending
  <2>2. CASE ~Raise
    <3>1. p.pc = "register" /\ UNCHANGED <<tree, outcome, run, wk>>
      BY <1>20, <2>2 DEF Register, At, world
    <3>2. p' = [p EXCEPT !.latch = "hidden", !.pc = "staged", !.pend = TRUE]
      BY <1>20, <2>2 DEF Register, At
    <3>3. /\ p' \in Parents /\ p'.pc = "staged" /\ p'.verdict = p.verdict
          /\ p'.committed = p.committed /\ p'.failed = p.failed
      BY <3>2 DEF TypeParent, Parents, Places, Early, Unforked, Fresh, Barrier, Verified,
         Failing, Ending, TypeWorld
    <3>4. run' > 0
      BY <3>1 DEF TypeParent
    <3> QED  BY <3>1, <3>3, <3>4 DEF Goes, Straight, Places, Early, Unforked, Fresh, Barrier,
                Verified, Failing, Ending
  <2> QED  BY <2>1, <2>2
<1>21. ASSUME RollbackLocal PROVE Goal
  <2>1. To("abandon") /\ run' = run /\ run > 0
    BY <1>21 DEF RollbackLocal, At, TypeParent
  <2>2. p' \in Parents
    BY <2>1, ToIs DEF Places, Early, Unforked, Fresh, Barrier, Verified, Failing, Ending
  <2> QED  BY <1>21, <2>1, <2>2 DEF Goes, Decisive
<1>22. ASSUME RollbackEmpty PROVE Goal
  <2>1. p' = [p EXCEPT !.pc = "abandon", !.latch = "none"] /\ run' = run /\ run > 0
    BY <1>22 DEF RollbackEmpty, At, TypeParent
  <2>2. p' \in Parents
    BY <2>1 DEF TypeParent, Parents, Places, Early, Unforked, Fresh, Barrier, Verified, Failing,
       Ending
  <2> QED  BY <1>22, <2>1, <2>2 DEF Goes, Decisive
<1>23. ASSUME Abandon PROVE Goal
  <2>1. To("close") /\ run' = run /\ run > 0
    BY <1>23 DEF Abandon, At, TypeParent
  <2>2. p' \in Parents
    BY <2>1, ToIs DEF Places, Early, Unforked, Fresh, Barrier, Verified, Failing, Ending
  <2> QED  BY <1>23, <2>1, <2>2 DEF Goes, Decisive
<1>24. ASSUME EnterCampaign PROVE Goal
  <2>1. p.pc = "staged" /\ UNCHANGED <<tree, outcome, run, wk>>
    BY <1>24 DEF EnterCampaign, At, world
  <2>2. To("workspaces")
    BY <1>24 DEF EnterCampaign, At
  <2>3. /\ p' \in Parents /\ p'.pc = "workspaces" /\ p'.verdict = p.verdict
        /\ p'.committed = p.committed /\ p'.failed = p.failed
    BY <2>2, ToIs DEF Places, Early, Unforked, Fresh, Barrier, Verified, Failing, Ending
  <2>4. run' > 0
    BY <2>1 DEF TypeParent
  <2> QED  BY <2>1, <2>3, <2>4 DEF Goes, Straight, Places, Early, Unforked, Fresh, Barrier,
              Verified, Failing, Ending
<1>25. ASSUME CreateWorkspaces PROVE Goal
  <2>1. p.pc = "workspaces" /\ UNCHANGED <<tree, outcome, run, wk>>
    BY <1>25 DEF CreateWorkspaces, At, world
  <2>2. p' = [p EXCEPT !.owners = TRUE, !.pc = "mounts"]
    BY <1>25 DEF CreateWorkspaces, At
  <2>3. /\ p' \in Parents /\ p'.pc = "mounts" /\ p'.verdict = p.verdict
        /\ p'.committed = p.committed /\ p'.failed = p.failed
    BY <2>2 DEF TypeParent, Parents, Places, Early, Unforked, Fresh, Barrier, Verified, Failing,
       Ending, TypeWorld
  <2>4. run' > 0
    BY <2>1 DEF TypeParent
  <2> QED  BY <2>1, <2>3, <2>4 DEF Goes, Straight, Places, Early, Unforked, Fresh, Barrier,
              Verified, Failing, Ending
<1>26. ASSUME HoldBags PROVE Goal
  <2>1. CASE Raise
    BY <1>26, <2>1, RaiseGoes DEF HoldBags, At, Raisable, Places, Early, Unforked, Fresh,
       Barrier, Verified, Failing, Ending
  <2>2. CASE ~Raise
    <3>1. p.pc = "mounts" /\ UNCHANGED <<tree, outcome, run, wk>>
      BY <1>26, <2>2 DEF HoldBags, At, world
    <3>2. Read("fork")
      BY <1>26, <2>2 DEF HoldBags, At
    <3>3. /\ p' \in Parents /\ p'.pc = "fork" /\ p'.verdict = p.verdict
          /\ p'.committed = p.committed /\ p'.failed = p.failed
      BY <3>2, ReadIs DEF Places, Early, Unforked, Fresh, Barrier, Verified, Failing, Ending
    <3>4. run' > 0
      BY <3>1 DEF TypeParent
    <3> QED  BY <3>1, <3>3, <3>4 DEF Goes, Straight, Places, Early, Unforked, Fresh, Barrier,
                Verified, Failing, Ending
  <2> QED  BY <2>1, <2>2
<1>27. ASSUME ForkSupervisor PROVE Goal
  <2>1. To("await") /\ run' = run /\ run > 0
    BY <1>27 DEF ForkSupervisor, At, TypeParent
  <2>2. p' \in Parents
    BY <2>1, ToIs DEF Places, Early, Unforked, Fresh, Barrier, Verified, Failing, Ending
  <2> QED  BY <1>27, <2>1, <2>2 DEF Goes, Decisive
<1>28. ASSUME AwaitResult PROVE Goal
  <2>1. CASE Raise
    BY <1>28, <2>1, RaiseGoes DEF AwaitResult, At, Raisable, Places, Early, Unforked, Fresh,
       Barrier, Verified, Failing, Ending
  <2>2. CASE ~Raise
    <3>1. p.pc = "await" /\ UNCHANGED <<tree, outcome, run, wk>> /\ wk.st = "gone"
      BY <1>28, <2>2 DEF AwaitResult, At, world, TypeWorker
    <3>2. Read("bags")
      BY <1>28, <2>2 DEF AwaitResult, At, TypeWorker
    <3>3. /\ p' \in Parents /\ p'.pc = "bags" /\ p'.verdict = p.verdict
          /\ p'.committed = p.committed /\ p'.failed = p.failed
      BY <3>2, ReadIs DEF Places, Early, Unforked, Fresh, Barrier, Verified, Failing, Ending
    <3>4. run' > 0
      BY <3>1 DEF TypeParent
    <3> QED  BY <3>1, <3>3, <3>4 DEF Goes, Straight, Places, Early, Unforked, Fresh, Barrier,
                Verified, Failing, Ending
  <2> QED  BY <2>1, <2>2
<1>29. ASSUME CheckResult PROVE Goal
  <2>1. CASE Raise
    BY <1>29, <2>1, RaiseGoes DEF CheckResult, At, Raisable, Places, Early, Unforked, Fresh,
       Barrier, Verified, Failing, Ending
  <2>2. CASE ~Raise
    <3>1. p.pc = "bags" /\ UNCHANGED <<tree, outcome, run, wk>>
      BY <1>29, <2>2 DEF CheckResult, At, world
    <3>2. To("verify")
      BY <1>29, <2>2 DEF CheckResult, At
    <3>3. /\ p' \in Parents /\ p'.pc = "verify" /\ p'.verdict = p.verdict
          /\ p'.committed = p.committed /\ p'.failed = p.failed
      BY <3>2, ToIs DEF Places, Early, Unforked, Fresh, Barrier, Verified, Failing, Ending
    <3>4. run' > 0
      BY <3>1 DEF TypeParent
    <3> QED  BY <3>1, <3>3, <3>4 DEF Goes, Straight, Places, Early, Unforked, Fresh, Barrier,
                Verified, Failing, Ending
  <2> QED  BY <2>1, <2>2
<1>30. ASSUME RunVerifier PROVE Goal
  <2>1. PICK v \in {"pass", "fail"} : p' = [p EXCEPT !.verdict = v]
    BY <1>30 DEF RunVerifier
  <2>2. p' \in Parents /\ run' = run /\ run > 0
    BY <1>30, <2>1 DEF RunVerifier, At, TypeParent, Parents
  <2>3. Decisive
    BY <1>30 DEF Decisive
  <2> QED  BY <2>2, <2>3 DEF Goes
<1>31. ASSUME DetachedVerify PROVE Goal
  <2>1. CASE Raise
    BY <1>31, <2>1, RaiseGoes DEF DetachedVerify, At, Raisable, Places, Early, Unforked, Fresh,
       Barrier, Verified, Failing, Ending
  <2>2. CASE ~Raise
    <3>1. p.pc = "verify" /\ UNCHANGED <<tree, outcome, run, wk>> /\ p.verdict = "pass"
      BY <1>31, <2>2 DEF DetachedVerify, At, world
    <3>2. Read("snapshot")
      BY <1>31, <2>2 DEF DetachedVerify, At
    <3>3. /\ p' \in Parents /\ p'.pc = "snapshot" /\ p'.verdict = p.verdict
          /\ p'.committed = p.committed /\ p'.failed = p.failed
      BY <3>2, ReadIs DEF Places, Early, Unforked, Fresh, Barrier, Verified, Failing, Ending
    <3>4. run' > 0
      BY <3>1 DEF TypeParent
    <3> QED  BY <3>1, <3>3, <3>4 DEF Goes, Straight, Places, Early, Unforked, Fresh, Barrier,
                Verified, Failing, Ending
  <2> QED  BY <2>1, <2>2
<1>32. ASSUME TakeSnapshot PROVE Goal
  <2>1. CASE Raise
    BY <1>32, <2>1, RaiseGoes DEF TakeSnapshot, At, Raisable, Places, Early, Unforked, Fresh,
       Barrier, Verified, Failing, Ending
  <2>2. CASE ~Raise
    <3>1. p.pc = "snapshot" /\ UNCHANGED <<tree, outcome, run, wk>> /\ run > 0
      BY <1>32 DEF TakeSnapshot, At, TypeParent
    <3>2. p' = [p EXCEPT !.snap = Snapshot(Out), !.pc = "clean"]
      BY <1>32, <2>2 DEF TakeSnapshot
    <3>3. Snapshot(Out) \in SUBSET (Nat \X {"none", "untrusted", "trusted"})
      BY <3>1, OutTyped DEF Snapshot, Trees
    <3>4. /\ p' \in Parents /\ p'.pc = "clean" /\ p'.verdict = p.verdict /\ p'.committed = p.committed
      BY <3>2, <3>3 DEF TypeParent, Parents, Places, Early, Unforked, Fresh, Barrier, Verified,
         Failing, Ending
    <3> QED  BY <3>1, <3>4 DEF Goes, Straight
  <2> QED  BY <2>1, <2>2
<1>33. ASSUME CleanWorkspaces PROVE Goal
  <2>1. p.pc = "clean" /\ UNCHANGED <<tree, outcome, run, wk>> /\ run > 0
    BY <1>33 DEF CleanWorkspaces, TypeParent
  <2>2. \/ p' = [p EXCEPT !.owners = FALSE, !.pc = "state"]
        \/ ~p.failed /\ p' = [p EXCEPT !.owners = FALSE, !.pc = "publish"]
        \/ p' = [p EXCEPT !.failed = TRUE, !.pc = "state"]
    BY <1>33 DEF CleanWorkspaces
  <2>3. ASSUME p' = [p EXCEPT !.owners = FALSE, !.pc = "state"] PROVE Goal
    <3>1. p' \in Parents /\ p'.pc = "state" /\ p'.verdict = p.verdict /\ p'.committed = p.committed
      BY <2>3 DEF TypeParent, Parents, Places, Early, Unforked, Fresh, Barrier, Verified,
         Failing, Ending
    <3> QED  BY <2>1, <3>1 DEF Goes, Straight
  <2>4. ASSUME ~p.failed, p' = [p EXCEPT !.owners = FALSE, !.pc = "publish"] PROVE Goal
    <3>1. p' \in Parents /\ p'.pc = "publish" /\ p'.verdict = p.verdict /\ p'.committed = p.committed
      BY <2>4 DEF TypeParent, Parents, Places, Early, Unforked, Fresh, Barrier, Verified,
         Failing, Ending
    <3> QED  BY <2>1, <2>4, <3>1 DEF Goes, Straight
  <2>5. ASSUME p' = [p EXCEPT !.failed = TRUE, !.pc = "state"] PROVE Goal
    <3>1. p' \in Parents /\ p'.pc = "state" /\ p'.verdict = p.verdict /\ p'.committed = p.committed
      BY <2>5 DEF TypeParent, Parents, Places, Early, Unforked, Fresh, Barrier, Verified,
         Failing, Ending
    <3> QED  BY <2>1, <3>1 DEF Goes, Straight
  <2> QED  BY <2>2, <2>3, <2>4, <2>5
<1>34. ASSUME Publish PROVE Goal
  <2>1. CASE Raise
    BY <1>34, <2>1, RaiseGoes DEF Publish, At, Raisable, Places, Early, Unforked, Fresh,
       Barrier, Verified, Failing, Ending
  <2>2. CASE ~Raise
    <3>1. p.pc = "publish" /\ UNCHANGED <<tree, outcome, run, wk>>
      BY <1>34, <2>2 DEF Publish, At, world
    <3>2. Read("rename")
      BY <1>34, <2>2 DEF Publish, At
    <3>3. /\ p' \in Parents /\ p'.pc = "rename" /\ p'.verdict = p.verdict
          /\ p'.committed = p.committed /\ p'.failed = p.failed
      BY <3>2, ReadIs DEF Places, Early, Unforked, Fresh, Barrier, Verified, Failing, Ending
    <3>4. run' > 0
      BY <3>1 DEF TypeParent
    <3> QED  BY <3>1, <3>3, <3>4 DEF Goes, Straight, Places, Early, Unforked, Fresh, Barrier,
                Verified, Failing, Ending
  <2> QED  BY <2>1, <2>2
<1>35. ASSUME RenameNoReplace PROVE Goal
  <2>1. CASE Raise
    <3>1. p' # p /\ UNCHANGED <<tree, outcome, run, wk>> /\ p.pc \in Raisable
      <4>1. p.pc = "rename"
        BY <1>35 DEF RenameNoReplace, At
      <4>2. p'.pc = "reconcile"
        BY <2>1, <4>1 DEF Raise, Handler, TypeParent, Parents, Barrier, Campaign
      <4>3. ~To("renamed")
        BY <4>2 DEF To, TypeParent, Parents
      <4> QED  BY <1>35, <4>1, <4>2, <4>3 DEF RenameNoReplace, Raisable, Places, Early,
                  Unforked, Fresh, Barrier, Verified, Failing, Ending
    <3> QED  BY <2>1, <3>1, RaiseGoes
  <2>2. CASE ~Raise
    <3>1. To("renamed") /\ run' = run /\ run > 0
      BY <1>35, <2>2 DEF RenameNoReplace, At, TypeParent
    <3>2. p' \in Parents
      BY <3>1, ToIs DEF Places, Early, Unforked, Fresh, Barrier, Verified, Failing, Ending
    <3> QED  BY <1>35, <2>2, <3>1, <3>2 DEF Goes, Decisive
  <2> QED  BY <2>1, <2>2
<1>36. ASSUME Rebaseline PROVE Goal
  <2>1. p.pc = "renamed" /\ UNCHANGED <<tree, outcome, run, wk>>
    BY <1>36 DEF Rebaseline, At, world
  <2>2. p' = [p EXCEPT !.latch = "final", !.pc = "published", !.pend = TRUE]
    BY <1>36 DEF Rebaseline, At
  <2>3. /\ p' \in Parents /\ p'.pc = "published" /\ p'.verdict = p.verdict
        /\ p'.committed = p.committed /\ p'.failed = p.failed
    BY <2>2 DEF TypeParent, Parents, Places, Early, Unforked, Fresh, Barrier, Verified, Failing,
       Ending, TypeWorld
  <2>4. run' > 0
    BY <2>1 DEF TypeParent
  <2> QED  BY <2>1, <2>3, <2>4 DEF Goes, Straight, Places, Early, Unforked, Fresh, Barrier,
              Verified, Failing, Ending
<1>37. ASSUME AfterPublish PROVE Goal
  <2>1. p.pc = "published" /\ UNCHANGED <<tree, outcome, run, wk>>
    BY <1>37 DEF AfterPublish, At, world
  <2>2. Read("commit")
    BY <1>37 DEF AfterPublish, At
  <2>3. /\ p' \in Parents /\ p'.pc = "commit" /\ p'.verdict = p.verdict
        /\ p'.committed = p.committed /\ p'.failed = p.failed
    BY <2>2, ReadIs DEF Places, Early, Unforked, Fresh, Barrier, Verified, Failing, Ending
  <2>4. run' > 0
    BY <2>1 DEF TypeParent
  <2> QED  BY <2>1, <2>3, <2>4 DEF Goes, Straight, Places, Early, Unforked, Fresh, Barrier,
              Verified, Failing, Ending
<1>38. ASSUME Commit PROVE Goal
  <2>1. p' = [p EXCEPT !.committed = TRUE, !.pc = "report"] /\ run' = run /\ run > 0
    BY <1>38 DEF Commit, At, TypeParent
  <2>2. p' \in Parents
    BY <2>1 DEF TypeParent, Parents, Places, Early, Unforked, Fresh, Barrier, Verified, Failing,
       Ending
  <2> QED  BY <1>38, <2>1, <2>2 DEF Goes, Decisive
<1>39. ASSUME Reconcile PROVE Goal
  <2>1. p.pc = "reconcile" /\ UNCHANGED <<tree, outcome, run, wk>> /\ run > 0
    BY <1>39 DEF Reconcile, TypeParent
  <2>2. PICK latch \in {"none", "hidden", "final"}, pc \in {"unrename", "state", "reconcile2"} :
           p' = [p EXCEPT !.latch = latch, !.pc = pc]
    BY <1>39, <2>1, OutTyped DEF Reconcile, Trees
  <2>3. pc \in Places
    BY DEF Places, Failing
  <2>4. p' \in Parents /\ p'.pc = pc /\ p'.verdict = p.verdict /\ p'.committed = p.committed
    BY <2>2, <2>3 DEF TypeParent, Parents
  <2> QED  BY <2>1, <2>4 DEF Goes, Straight
<1>40. ASSUME RenameBack PROVE Goal
  <2>1. To("unrenamed") /\ run' = run /\ run > 0
    BY <1>40 DEF RenameBack, At, TypeParent
  <2>2. p' \in Parents
    BY <2>1, ToIs DEF Places, Early, Unforked, Fresh, Barrier, Verified, Failing, Ending
  <2> QED  BY <1>40, <2>1, <2>2 DEF Goes, Decisive
<1>41. ASSUME Unrenamed PROVE Goal
  <2>1. p.pc = "unrenamed" /\ UNCHANGED <<tree, outcome, run, wk>> /\ run > 0
    BY <1>41 DEF Unrenamed, TypeParent
  <2>2. PICK latch \in {"none", "hidden", "final"}, pc \in {"unrename", "state", "reconcile2"} :
           p' = [p EXCEPT !.latch = latch, !.pc = pc]
    BY <1>41, <2>1, OutTyped DEF Unrenamed, Trees
  <2>3. pc \in Places
    BY DEF Places, Failing
  <2>4. p' \in Parents /\ p'.pc = pc /\ p'.verdict = p.verdict /\ p'.committed = p.committed
    BY <2>2, <2>3 DEF TypeParent, Parents
  <2> QED  BY <2>1, <2>4 DEF Goes, Straight
<1>42. ASSUME ReconcileAgain PROVE Goal
  <2>1. p.pc = "reconcile2" /\ UNCHANGED <<tree, outcome, run, wk>> /\ run > 0
    BY <1>42 DEF ReconcileAgain, TypeParent
  <2>2. PICK latch \in {"none", "hidden", "final"}, pc \in {"unrename", "state", "reconcile2"} :
           p' = [p EXCEPT !.latch = latch, !.pc = pc]
    BY <1>42, <2>1, OutTyped DEF ReconcileAgain, Trees
  <2>3. pc \in Places
    BY DEF Places, Failing
  <2>4. p' \in Parents /\ p'.pc = pc /\ p'.verdict = p.verdict /\ p'.committed = p.committed
    BY <2>2, <2>3 DEF TypeParent, Parents
  <2> QED  BY <2>1, <2>4 DEF Goes, Straight
<1>43. ASSUME PublicationState PROVE Goal
  <2>1. p.pc = "state" /\ UNCHANGED <<tree, outcome, run, wk>> /\ run > 0
    BY <1>43 DEF PublicationState, TypeParent
  <2>2. \/ p.committed /\ To("report")
        \/ ~p.committed /\ \E pc \in {"mark_mode", "unmarked"} : To(pc)
    BY <1>43 DEF PublicationState
  <2>3. CASE p.committed /\ To("report")
    <3>1. p' \in Parents /\ p'.pc = "report" /\ p'.verdict = p.verdict /\ p'.committed = p.committed
      BY <2>3, ToIs DEF Places, Early, Unforked, Fresh, Barrier, Verified, Failing, Ending
    <3> QED  BY <2>1, <2>3, <3>1 DEF Goes, Straight
  <2>4. ASSUME NEW pc \in {"mark_mode", "unmarked"}, ~p.committed, To(pc) PROVE Goal
    <3>1. p' \in Parents /\ p'.pc = pc /\ p'.verdict = p.verdict /\ p'.committed = p.committed
      BY <2>4, ToIs DEF Places, Early, Unforked, Fresh, Barrier, Verified, Failing, Ending
    <3> QED  BY <2>1, <2>4, <3>1 DEF Goes, Straight
  <2> QED  BY <2>2, <2>3, <2>4
<1>44. ASSUME UnsealForMarker PROVE Goal
  <2>1. To("mark_move") /\ run' = run /\ run > 0
    BY <1>44 DEF UnsealForMarker, At, TypeParent
  <2>2. p' \in Parents
    BY <2>1, ToIs DEF Places, Early, Unforked, Fresh, Barrier, Verified, Failing, Ending
  <2> QED  BY <1>44, <2>1, <2>2 DEF Goes, Decisive
<1>45. ASSUME Quarantine PROVE Goal
  <2>1. To("mark") /\ run' = run /\ run > 0
    BY <1>45 DEF Quarantine, At, TypeParent
  <2>2. p' \in Parents
    BY <2>1, ToIs DEF Places, Early, Unforked, Fresh, Barrier, Verified, Failing, Ending
  <2> QED  BY <1>45, <2>1, <2>2 DEF Goes, Decisive
<1>46. ASSUME CommitMarker PROVE Goal
  <2>1. \E pc \in {"close", "unmarked"} : To(pc)
    BY <1>46 DEF CommitMarker
  <2>2. p' \in Parents /\ run' = run /\ run > 0
    BY <1>46, <2>1, ToIs DEF CommitMarker, At, TypeParent, Places, Early, Unforked, Fresh,
       Barrier, Verified, Failing, Ending
  <2> QED  BY <1>46, <2>2 DEF Goes, Decisive
<1>47. ASSUME Unmarked PROVE Goal
  <2>1. To("close") /\ run' = run /\ run > 0
    BY <1>47 DEF Unmarked, At, TypeParent
  <2>2. p' \in Parents
    BY <2>1, ToIs DEF Places, Early, Unforked, Fresh, Barrier, Verified, Failing, Ending
  <2> QED  BY <1>47, <2>1, <2>2 DEF Goes, Decisive
<1>48. ASSUME Report PROVE Goal
  <2>1. To("close") /\ run' = run /\ run > 0
    BY <1>48 DEF Report, At, TypeParent
  <2>2. p' \in Parents
    BY <2>1, ToIs DEF Places, Early, Unforked, Fresh, Barrier, Verified, Failing, Ending
  <2> QED  BY <1>48, <2>1, <2>2 DEF Goes, Decisive
<1>49. ASSUME RemovePrivateTree PROVE Goal
  <2>1. p.pc = "remove" /\ UNCHANGED <<tree, outcome, run, wk>> /\ run > 0
    BY <1>49 DEF RemovePrivateTree, TypeParent
  <2>2. p' = [p EXCEPT !.pc = "done", !.private = FALSE] \/ To("done")
    BY <1>49 DEF RemovePrivateTree
  <2>3. p' \in Parents /\ p'.pc = "done" /\ p'.verdict = p.verdict /\ p'.committed = p.committed
    <3>1. CASE To("done")
      BY <3>1, ToIs DEF Places, Early, Unforked, Fresh, Barrier, Verified, Failing, Ending
    <3>2. CASE p' = [p EXCEPT !.pc = "done", !.private = FALSE]
      BY <3>2 DEF TypeParent, Parents, Places, Early, Unforked, Fresh, Barrier, Verified,
         Failing, Ending
    <3> QED  BY <2>2, <3>1, <3>2
  <2> QED  BY <2>1, <2>3 DEF Goes, Straight, Ending
<1>50. ASSUME Close PROVE Goal
  <2>1. p.pc = "close" /\ UNCHANGED <<tree, outcome, run, wk>>
    BY <1>50 DEF Close, At, world
  <2>2. To("remove")
    BY <1>50 DEF Close, At
  <2>3. /\ p' \in Parents /\ p'.pc = "remove" /\ p'.verdict = p.verdict
        /\ p'.committed = p.committed /\ p'.failed = p.failed
    BY <2>2, ToIs DEF Places, Early, Unforked, Fresh, Barrier, Verified, Failing, Ending
  <2>4. run' > 0
    BY <2>1 DEF TypeParent
  <2> QED  BY <2>1, <2>3, <2>4 DEF Goes, Straight, Places, Early, Unforked, Fresh, Barrier,
              Verified, Failing, Ending
<1>51. ASSUME WorkerRevalidate PROVE Goal
  <2>1. UNCHANGED <<p, tree, outcome, run>> /\ ~Quiet
    BY <1>51 DEF WorkerRevalidate, Quiet, WAt, Pending
  <2> QED  BY <2>1, BesideUnwritten
<1>52. ASSUME InstallMounts PROVE Goal
  <2>1. UNCHANGED <<p, tree, outcome, run>> /\ ~Quiet
    BY <1>52 DEF InstallMounts, Quiet, WAt
  <2> QED  BY <2>1, BesideUnwritten
<1>53. ASSUME EnterNamespaces PROVE Goal
  <2>1. UNCHANGED <<p, tree, outcome, run>> /\ ~Quiet
    BY <1>53 DEF EnterNamespaces, Quiet, WAt
  <2> QED  BY <2>1, BesideUnwritten
<1>54. ASSUME CopyReadiness PROVE Goal
  <2>1. UNCHANGED <<p, outcome, run>> /\ ~Quiet
    BY <1>54 DEF CopyReadiness, Quiet, WAt
  <2> DEFINE t == [Out EXCEPT !.ready = p.ready]
  <2>2. tree' = [tree EXCEPT ![run] = t]
    BY <1>54, <2>1 DEF CopyReadiness, Out
  <2>3. t \in Trees /\ t.at = Out.at /\ t.marker = Out.marker
    BY <2>1, OutTyped DEF TypeWorker, Trees, TypeParent, Parents, TypeWorld, Workers
  <2> HIDE DEF t
  <2> QED  BY <2>1, <2>2, <2>3, BesideWritten
<1>55. ASSUME StageCapsule PROVE Goal
  <2>1. UNCHANGED <<p, tree, outcome, run>> /\ ~Quiet
    BY <1>55 DEF StageCapsule, Quiet, WAt
  <2> QED  BY <2>1, BesideUnwritten
<1>56. ASSUME BuildRuntime PROVE Goal
  <2>1. UNCHANGED <<p, outcome, run>> /\ ~Quiet
    BY <1>56 DEF BuildRuntime, Quiet, WAt
  <2> DEFINE t == [Out EXCEPT !.built = p.gen]
  <2>2. tree' = [tree EXCEPT ![run] = t]
    BY <1>56, <2>1 DEF BuildRuntime, Out
  <2>3. t \in Trees /\ t.at = Out.at /\ t.marker = Out.marker
    BY <2>1, OutTyped DEF TypeWorker, Trees, TypeParent, Parents, TypeWorld, Workers
  <2> HIDE DEF t
  <2> QED  BY <2>1, <2>2, <2>3, BesideWritten
<1>57. ASSUME AuditBuild PROVE Goal
  <2>1. UNCHANGED <<p, tree, outcome, run>> /\ ~Quiet
    BY <1>57 DEF AuditBuild, Quiet, WAt
  <2> QED  BY <2>1, BesideUnwritten
<1>58. ASSUME PairIndex PROVE Goal
  <2>1. UNCHANGED <<p, tree, outcome, run>> /\ ~Quiet
    BY <1>58 DEF PairIndex, Quiet, WAt
  <2> QED  BY <2>1, BesideUnwritten
<1>59. ASSUME RosRun PROVE Goal
  <2>1. UNCHANGED <<p, outcome, run>> /\ ~Quiet
    BY <1>59 DEF RosRun, Quiet, WAt
  <2> DEFINE t == [Out EXCEPT !.runs = Append(@, <<bag, wk.exe>>)]
  <2>2. tree' = [tree EXCEPT ![run] = t]
    BY <1>59, <2>1 DEF RosRun, Out
  <2>3. t \in Trees /\ t.at = Out.at /\ t.marker = Out.marker
    <3>1. Out \in Trees /\ <<bag, wk.exe>> \in Nat \X Nat
      BY <2>1, OutTyped DEF TypeWorker, TypeWorld, Workers
    <3>2. Append(Out.runs, <<bag, wk.exe>>) \in Seq(Nat \X Nat)
      BY <3>1 DEF Trees
    <3> QED  BY <3>1, <3>2 DEF Trees
  <2> HIDE DEF t
  <2> QED  BY <2>1, <2>2, <2>3, BesideWritten
<1>60. ASSUME AcceptRun PROVE Goal
  <2>1. UNCHANGED <<p, tree, outcome, run>> /\ ~Quiet
    BY <1>60 DEF AcceptRun, Quiet, WAt
  <2> QED  BY <2>1, BesideUnwritten
<1>61. ASSUME Assemble PROVE Goal
  <2>1. UNCHANGED <<p, tree, outcome, run>> /\ ~Quiet
    BY <1>61 DEF Assemble, Quiet, WAt
  <2> QED  BY <2>1, BesideUnwritten
<1>62. ASSUME OfflineReplay PROVE Goal
  <2>1. UNCHANGED <<p, tree, outcome, run>> /\ ~Quiet
    BY <1>62 DEF OfflineReplay, Quiet, WAt
  <2> QED  BY <2>1, BesideUnwritten
<1>63. ASSUME SealArtifact PROVE Goal
  <2>1. UNCHANGED <<p, outcome, run>> /\ ~Quiet
    BY <1>63 DEF SealArtifact, Quiet, WAt
  <2>2. CASE tree' = tree
    BY <2>1, <2>2, BesideUnwritten
  <2>3. CASE tree' # tree
    <3> DEFINE t == [Out EXCEPT !.sums = Out.bytes, !.mode = "sealed"]
    <3>1. tree' = [tree EXCEPT ![run] = t]
      BY <1>63, <2>1, <2>3 DEF SealArtifact, Out
    <3>2. t \in Trees /\ t.at = Out.at /\ t.marker = Out.marker
      BY <2>1, OutTyped DEF TypeWorker, Trees
    <3> HIDE DEF t
    <3> QED  BY <2>1, <3>1, <3>2, BesideWritten
  <2> QED  BY <2>2, <2>3
<1>64. ASSUME WorkerPasses PROVE Goal
  <2>1. UNCHANGED <<p, tree, outcome, run>> /\ ~Quiet
    BY <1>64 DEF WorkerPasses, Quiet, WAt
  <2> QED  BY <2>1, BesideUnwritten
<1>65. ASSUME NamespaceEnds PROVE Goal
  <2>1. UNCHANGED <<p, tree, outcome, run>> /\ ~Quiet
    BY <1>65 DEF NamespaceEnds, Quiet, WAt, WorkerAlive
  <2> QED  BY <2>1, BesideUnwritten
<1>66. ASSUME SupervisorForwards PROVE Goal
  <2>1. UNCHANGED <<p, tree, outcome, run>> /\ wk'.st = wk.st
    BY <1>66 DEF SupervisorForwards, TypeWorker, Workers
  <2> QED  BY <2>1, BesideUnwritten
<1>67. ASSUME Edit PROVE Goal
  <2>1. UNCHANGED <<p, wk, tree, outcome, run>>
    BY <1>67 DEF Edit
  <2> QED  BY <2>1, BesideUnwritten DEF Quiet
<1>68. ASSUME SpoilBag PROVE Goal
  <2>1. UNCHANGED <<p, wk, tree, outcome, run>>
    BY <1>68 DEF SpoilBag
  <2> QED  BY <2>1, BesideUnwritten DEF Quiet
<1>69. ASSUME OtherLocks PROVE Goal
  <2>1. UNCHANGED <<p, wk, tree, outcome, run>>
    BY <1>69 DEF OtherLocks
  <2> QED  BY <2>1, BesideUnwritten DEF Quiet
<1>70. ASSUME StrayWrites PROVE Goal
  <2>1. UNCHANGED <<p, outcome, run>> /\ ~Quiet
    BY <1>70 DEF StrayWrites, TypeWorker
  <2>2. CASE tree' = tree
    BY <2>1, <2>2, BesideUnwritten
  <2>3. CASE tree' # tree
    <3>1. Out \in Trees
      BY <2>1, OutTyped DEF TypeWorker
    <3>2. PICK m \in {Out.marker, "untrusted"} :
             /\ m = "untrusted" => Out.marker \in {"none", "untrusted"}
             /\ tree' = [tree EXCEPT ![run].bytes = @ + 1, ![run].marker = m]
      BY <1>70, <2>3 DEF StrayWrites
    <3> DEFINE t == [Out EXCEPT !.bytes = @ + 1, !.marker = m]
    <3>3. tree' = [tree EXCEPT ![run] = t]
      BY <3>2 DEF Out
    <3>4. t \in Trees /\ t.at = Out.at /\ (Out.marker = "trusted" => t.marker = "trusted")
      <4>1. m \in {"none", "untrusted", "trusted"} /\ (Out.marker = "trusted" => m = "trusted")
        BY <3>1, <3>2 DEF Trees
      <4>2. Out.bytes + 1 \in Nat
        BY <3>1 DEF Trees
      <4>3. t = [Out EXCEPT !.bytes = Out.bytes + 1, !.marker = m]
        OBVIOUS
      <4>4. t.at = Out.at /\ t.marker = m
        BY <3>1, <4>3 DEF Trees
      <4>5. t \in Trees
        BY <3>1, <4>1, <4>2, <4>3 DEF Trees
      <4> QED  BY <4>1, <4>4, <4>5
    <3> HIDE DEF t
    <3> QED  BY <2>1, <3>3, <3>4 DEF Goes, Beside, TypeParent
  <2> QED  BY <2>2, <2>3
<1>71. ASSUME Interrupt PROVE Goal
  BY <1>71, RaiseGoes DEF Interrupt, Raisable, TypeParent, Parents
<1>72. ASSUME WorkerRaises PROVE Goal
  <2>1. UNCHANGED <<p, tree, outcome, run>> /\ ~Quiet
    BY <1>72 DEF WorkerRaises, Quiet, WAt, WorkerAlive
  <2> QED  BY <2>1, BesideUnwritten
<1>73. ASSUME CommandStrays PROVE Goal
  <2>1. UNCHANGED <<p, tree, outcome, run>> /\ ~Quiet
    BY <1>73 DEF CommandStrays, Quiet, WAt
  <2> QED  BY <2>1, BesideUnwritten
<1>74. ASSUME SupervisorDies PROVE Goal
  <2>1. UNCHANGED <<p, tree, outcome, run>> /\ wk'.st = wk.st
    BY <1>74 DEF SupervisorDies, TypeWorker, Workers
  <2> QED  BY <2>1, BesideUnwritten
<1>75. ASSUME Kill PROVE Goal
  <2>1. p' = [p EXCEPT !.pc = "done", !.pend = FALSE] /\ run' = run /\ run > 0
    BY <1>75 DEF Kill, At, TypeParent
  <2>2. p' \in Parents
    BY <2>1 DEF TypeParent, Parents, Places, Early, Unforked, Fresh, Barrier, Verified, Failing,
       Ending
  <2> QED  BY <1>75, <2>1, <2>2 DEF Goes, Decisive
<1>76. ASSUME UNCHANGED vars PROVE Goal
  BY <1>76, BesideUnwritten DEF vars
<1> HIDE DEF Goal
<1>77. ASSUME BarrierStep PROVE Goal
  BY <1>77, <1>4, <1>5, <1>6, <1>7, <1>8, <1>9, <1>10, <1>11, <1>12, <1>13, <1>14, <1>15,
     <1>16, <1>17 DEF BarrierStep
<1>78. ASSUME OutputStep PROVE Goal
  BY <1>78, <1>18, <1>19, <1>20, <1>21, <1>22, <1>23 DEF OutputStep
<1>79. ASSUME CampaignStep PROVE Goal
  BY <1>79, <1>24, <1>25, <1>26, <1>27, <1>28, <1>29, <1>30, <1>31, <1>32, <1>33 DEF
     CampaignStep
<1>80. ASSUME PublishStep PROVE Goal
  BY <1>80, <1>34, <1>35, <1>36, <1>37, <1>38, <1>39, <1>40, <1>41, <1>42 DEF PublishStep
<1>81. ASSUME EndStep PROVE Goal
  BY <1>81, <1>43, <1>44, <1>45, <1>46, <1>47, <1>48, <1>49, <1>50 DEF EndStep
<1>82. ASSUME WorkerStep PROVE Goal
  BY <1>82, <1>51, <1>52, <1>53, <1>54, <1>55, <1>56, <1>57, <1>58, <1>59, <1>60, <1>61,
     <1>62, <1>63, <1>64, <1>65, <1>66 DEF WorkerStep
<1>83. ASSUME Mishap PROVE Goal
  BY <1>83, <1>67, <1>68, <1>69, <1>70, <1>71, <1>72, <1>73, <1>74, <1>75 DEF Mishap
<1>84. ASSUME ParentStep PROVE Goal
  BY <1>84, <1>3, <1>77, <1>78, <1>79, <1>80, <1>81 DEF ParentStep
<1>85. ASSUME Next PROVE Goal
  BY <1>85, <1>84, <1>1, <1>2, <1>82, <1>83 DEF Next
<1> QED  BY <1>76, <1>85 DEF Goal

\* What an exception leaves alone.
LEMMA RaiseOutput ==
    ASSUME TypeParent, TypeOutput, Raise, p.pc \in Raisable, anc' = anc
    PROVE  TypeOutput'
<1>1. p'.made = p.made
  BY DEF Raise, TypeParent, Parents
<1>2. p.pc \notin {"abandon", "unmarked"} \cup Ending
  BY DEF Raisable, Ending
<1> QED  BY <1>1, <1>2 DEF TypeOutput

LEMMA RaisePending ==
    ASSUME TypeParent, Pending, Raise, wk' = wk \/ wk' = [wk EXCEPT !.sup = "dead"], TypeWorker
    PROVE  Pending'
<1>1. ~p'.pend
  BY DEF Raise, TypeParent, Parents
<1>2. wk'.pend = wk.pend /\ wk'.st = wk.st
  BY DEF TypeWorker, Workers
<1> QED  BY <1>1, <1>2 DEF Pending

LEMMA ReadPending ==
    ASSUME TypeParent, Pending, NEW pc \in Comparing, Read(pc), wk' = wk
    PROVE  Pending'
<1>1. p'.pc = pc
  BY DEF Read, TypeParent, Parents
<1> QED  BY <1>1 DEF Pending

\* What the worker does next, or tells.
LEMMA WToTyped ==
    ASSUME TypeWorker, NEW st \in {"pidns", "copy", "capsule", "build", "audit", "pair", "ros", "accept",
                                   "replay", "seal", "sealed"}, WTo(st), ~Quiet, run' = run
    PROVE  TypeWorker' /\ wk'.st = st
<1>1. wk' = [wk EXCEPT !.st = st, !.pend = TRUE] /\ wk \in Workers
  BY DEF WTo, TypeWorker
<1>2. wk' \in Workers /\ wk'.st = st /\ wk'.sup = wk.sup
  BY <1>1 DEF Workers
<1> QED  BY <1>2 DEF TypeWorker, Quiet

LEMMA WTellTyped ==
    ASSUME TypeWorker, NEW ok \in BOOLEAN, WTell(ok), ~Quiet, run' = run
    PROVE  TypeWorker' /\ wk'.st = "told" /\ ~wk'.pend
<1>1. wk \in Workers
  BY DEF TypeWorker
<1>2. wk' = [wk EXCEPT !.st = "told", !.ok = ok, !.pend = FALSE]
  BY DEF WTell
<1>3. wk'.st = "told" /\ wk'.sup = wk.sup /\ ~wk'.pend
  BY <1>1, <1>2 DEF Workers
<1>4. wk' \in Workers
  <2>1. CASE ok = TRUE
    BY <1>1, <1>2, <2>1 DEF Workers
  <2>2. CASE ok = FALSE
    BY <1>1, <1>2, <2>2 DEF Workers
  <2> QED  BY <2>1, <2>2
<1> QED  BY <1>3, <1>4 DEF TypeWorker, Quiet

-----------------------------------------------------------------------------
\* Type correctness, one lemma for each part.

\* The surroundings.
LEMMA WorldTyped ==
    ASSUME TypeWorld, [Next]_vars
    PROVE  TypeWorld'
<1> DEFINE Goal == TypeWorld'
<1>1. ASSUME Start PROVE Goal
  BY <1>1 DEF Start, At, NoWorker, NoParent, TypeWorld
<1>2. ASSUME NextRun PROVE Goal
  BY <1>2 DEF NextRun, world, To, TypeWorld
<1>3. ASSUME Revalidate PROVE Goal
  BY <1>3 DEF Revalidate, world, Raise, Bound, Handler, HeldContent, Namespace, Barrier,
     Campaign, TypeWorld
<1>4. ASSUME OpenRepository PROVE Goal
  BY <1>4 DEF OpenRepository, world, At, TypeWorld
<1>5. ASSUME EstablishSource PROVE Goal
  BY <1>5 DEF EstablishSource, world, At, Raise, Handler, Barrier, Campaign, TypeWorld
<1>6. ASSUME CaptureBefore PROVE Goal
  BY <1>6 DEF CaptureBefore, world, At, TypeWorld
<1>7. ASSUME RunSelfTests PROVE Goal
  BY <1>7 DEF RunSelfTests, world, Read, At, Raise, Fails, Works, Handler, Barrier,
     Campaign, TypeWorld
<1>8. ASSUME CaptureAfter PROVE Goal
  BY <1>8 DEF CaptureAfter, world, Read, At, Raise, Handler, Barrier, Campaign, TypeWorld
<1>9. ASSUME AcquireDataLock PROVE Goal
  BY <1>9 DEF AcquireDataLock, world, To, At, Raise, Handler, Barrier, Campaign, TypeWorld
<1>10. ASSUME PostLock PROVE Goal
  BY <1>10 DEF PostLock, world, Read, At, Raise, Handler, Barrier, Campaign, TypeWorld
<1>11. ASSUME FreezeUnitArtifact PROVE Goal
  BY <1>11 DEF FreezeUnitArtifact, world, Read, At, TypeWorld
<1>12. ASSUME InvokeUnitVerifier PROVE Goal
  BY <1>12 DEF InvokeUnitVerifier, world, Read, At, Raise, Fails, Works, Handler, Barrier,
     Campaign, TypeWorld
<1>13. ASSUME PostUnit PROVE Goal
  BY <1>13 DEF PostUnit, world, Read, At, Raise, Handler, Barrier, Campaign, TypeWorld
<1>14. ASSUME SealPrivateTree PROVE Goal
  BY <1>14 DEF SealPrivateTree, world, Read, At, TypeWorld
<1>15. ASSUME Authorize PROVE Goal
  BY <1>15 DEF Authorize, world, To, At, TypeWorld
<1>16. ASSUME Refuse PROVE Goal
  BY <1>16 DEF Refuse, world, To, Holds, TypeWorld
<1>17. ASSUME ReadRegistry PROVE Goal
  BY <1>17 DEF ReadRegistry, world, Read, At, TypeWorld
<1>18. ASSUME AcquireParent PROVE Goal
  BY <1>18 DEF AcquireParent, world, To, At, Raise, FinalTaken, Handler, Barrier, Campaign,
     TypeWorld
<1>19. ASSUME CreatePartial PROVE Goal
  BY <1>19 DEF CreatePartial, world, To, At, NoTree, TypeWorld
<1>20. ASSUME Register PROVE Goal
  BY <1>20 DEF Register, world, At, Raise, Bound, Handler, HeldContent, Namespace, Barrier,
     Campaign, TypeWorld
<1>21. ASSUME RollbackLocal PROVE Goal
  BY <1>21 DEF RollbackLocal, world, To, RemoveCreated, Fails, Works, NoTree, TypeWorld
<1>22. ASSUME RollbackEmpty PROVE Goal
  BY <1>22 DEF RollbackEmpty, world, RemoveCreated, Fails, Works, NoTree, TypeWorld
<1>23. ASSUME Abandon PROVE Goal
  BY <1>23 DEF Abandon, world, To, Holds, TypeWorld
<1>24. ASSUME EnterCampaign PROVE Goal
  BY <1>24 DEF EnterCampaign, world, To, At, TypeWorld
<1>25. ASSUME CreateWorkspaces PROVE Goal
  BY <1>25 DEF CreateWorkspaces, world, At, TypeWorld
<1>26. ASSUME HoldBags PROVE Goal
  BY <1>26 DEF HoldBags, world, Read, At, Raise, Handler, Barrier, Campaign, TypeWorld
<1>27. ASSUME ForkSupervisor PROVE Goal
  BY <1>27 DEF ForkSupervisor, world, To, At, NoWorker, TypeWorld
<1>28. ASSUME AwaitResult PROVE Goal
  BY <1>28 DEF AwaitResult, world, Read, At, Raise, Handler, Barrier, Campaign, TypeWorld
<1>29. ASSUME CheckResult PROVE Goal
  BY <1>29 DEF CheckResult, world, To, At, Raise, Out, Handler, Barrier, Campaign, TypeWorld
<1>30. ASSUME RunVerifier PROVE Goal
  BY <1>30 DEF RunVerifier, world, At, Out, Fails, Works, TypeWorld
<1>31. ASSUME DetachedVerify PROVE Goal
  BY <1>31 DEF DetachedVerify, world, Read, At, Raise, Handler, Barrier, Campaign, TypeWorld
<1>32. ASSUME TakeSnapshot PROVE Goal
  BY <1>32 DEF TakeSnapshot, world, At, Raise, Out, Handler, Barrier, Campaign, TypeWorld
<1>33. ASSUME CleanWorkspaces PROVE Goal
  BY <1>33 DEF CleanWorkspaces, world, Fails, Works, TypeWorld
<1>34. ASSUME Publish PROVE Goal
  BY <1>34 DEF Publish, world, Read, At, Raise, Out, Handler, Barrier, Campaign, TypeWorld
<1>35. ASSUME RenameNoReplace PROVE Goal
  BY <1>35 DEF RenameNoReplace, world, To, At, Raise, FinalTaken, Handler, Barrier,
     Campaign, TypeWorld
<1>36. ASSUME Rebaseline PROVE Goal
  BY <1>36 DEF Rebaseline, world, At, TypeWorld
<1>37. ASSUME AfterPublish PROVE Goal
  BY <1>37 DEF AfterPublish, world, Read, At, TypeWorld
<1>38. ASSUME Commit PROVE Goal
  BY <1>38 DEF Commit, world, At, TypeWorld
<1>39. ASSUME Reconcile PROVE Goal
  BY <1>39 DEF Reconcile, world, Out, TypeWorld
<1>40. ASSUME RenameBack PROVE Goal
  BY <1>40 DEF RenameBack, world, To, TypeWorld
<1>41. ASSUME Unrenamed PROVE Goal
  BY <1>41 DEF Unrenamed, world, Bound, HeldContent, Namespace, TypeWorld
<1>42. ASSUME ReconcileAgain PROVE Goal
  BY <1>42 DEF ReconcileAgain, world, Out, TypeWorld
<1>43. ASSUME PublicationState PROVE Goal
  BY <1>43 DEF PublicationState, world, To, Out, TypeWorld
<1>44. ASSUME UnsealForMarker PROVE Goal
  BY <1>44 DEF UnsealForMarker, world, To, At, TypeWorld
<1>45. ASSUME Quarantine PROVE Goal
  BY <1>45 DEF Quarantine, world, To, At, TypeWorld
<1>46. ASSUME CommitMarker PROVE Goal
  BY <1>46 DEF CommitMarker, world, To, At, Out, Holds, TypeWorld
<1>47. ASSUME Unmarked PROVE Goal
  BY <1>47 DEF Unmarked, world, To, Holds, TypeWorld
<1>48. ASSUME Report PROVE Goal
  BY <1>48 DEF Report, world, To, At, Holds, TypeWorld
<1>49. ASSUME RemovePrivateTree PROVE Goal
  BY <1>49 DEF RemovePrivateTree, world, To, Fails, Works, TypeWorld
<1>50. ASSUME Close PROVE Goal
  BY <1>50 DEF Close, world, To, TypeWorld
<1>51. ASSUME WorkerRevalidate PROVE Goal
  BY <1>51 DEF WorkerRevalidate, world, Bound, WTell, HeldContent, Namespace, TypeWorld
<1>52. ASSUME InstallMounts PROVE Goal
  BY <1>52 DEF InstallMounts, world, WTo, WAt, TypeWorld
<1>53. ASSUME EnterNamespaces PROVE Goal
  BY <1>53 DEF EnterNamespaces, world, WTo, WAt, TypeWorld
<1>54. ASSUME CopyReadiness PROVE Goal
  BY <1>54 DEF CopyReadiness, world, WTo, WAt, WTell, TypeWorld
<1>55. ASSUME StageCapsule PROVE Goal
  BY <1>55 DEF StageCapsule, world, WTo, WAt, TypeWorld
<1>56. ASSUME BuildRuntime PROVE Goal
  BY <1>56 DEF BuildRuntime, world, Fails, Works, WAt, TypeWorld
<1>57. ASSUME AuditBuild PROVE Goal
  BY <1>57 DEF AuditBuild, world, WTo, WAt, WTell, TypeWorld
<1>58. ASSUME PairIndex PROVE Goal
  BY <1>58 DEF PairIndex, world, WAt, WTell, TypeWorld
<1>59. ASSUME RosRun PROVE Goal
  BY <1>59 DEF RosRun, world, WTo, WAt, TypeWorld
<1>60. ASSUME AcceptRun PROVE Goal
  BY <1>60 DEF AcceptRun, world, Out, WAt, WTell, TypeWorld
<1>61. ASSUME Assemble PROVE Goal
  BY <1>61 DEF Assemble, world, WTo, WAt, TypeWorld
<1>62. ASSUME OfflineReplay PROVE Goal
  BY <1>62 DEF OfflineReplay, world, WTo, WAt, TypeWorld
<1>63. ASSUME SealArtifact PROVE Goal
  BY <1>63 DEF SealArtifact, world, Out, WTo, WAt, WTell, TypeWorld
<1>64. ASSUME WorkerPasses PROVE Goal
  BY <1>64 DEF WorkerPasses, world, WAt, WTell, TypeWorld
<1>65. ASSUME NamespaceEnds PROVE Goal
  BY <1>65 DEF NamespaceEnds, world, Fails, Works, WorkerAlive, TypeWorld
<1>66. ASSUME SupervisorForwards PROVE Goal
  BY <1>66 DEF SupervisorForwards, world, TypeWorld
<1>67. ASSUME Edit PROVE Goal
  <2>1. src' \in [gen : Nat, clean : BOOLEAN, extra : Nat]
    <3>1. src.gen + 1 \in Nat /\ src.extra + 1 \in Nat /\ src \in [gen : Nat, clean : BOOLEAN, extra : Nat]
      BY DEF TypeWorld
    <3>2. ASSUME NEW c \in BOOLEAN, src' = [src EXCEPT !.gen = @ + 1, !.clean = c]
          PROVE  src' \in [gen : Nat, clean : BOOLEAN, extra : Nat]
      <4>1. src' = [gen |-> src.gen + 1, clean |-> c, extra |-> src.extra]
        BY <3>1, <3>2
      <4> QED  BY <3>1, <4>1
    <3>3. ASSUME src' = [src EXCEPT !.extra = @ + 1]
          PROVE  src' \in [gen : Nat, clean : BOOLEAN, extra : Nat]
      BY <3>1, <3>3
    <3> QED  BY <1>67, <3>2, <3>3 DEF Edit
  <2>2. /\ UNCHANGED <<bag, unit, lock, faults, run>> /\ edits' = edits + 1
    BY <1>67 DEF Edit
  <2> QED  BY <2>1, <2>2 DEF TypeWorld
<1>68. ASSUME SpoilBag PROVE Goal
  BY <1>68 DEF SpoilBag, TypeWorld
<1>69. ASSUME OtherLocks PROVE Goal
  BY <1>69 DEF OtherLocks, TypeWorld
<1>70. ASSUME StrayWrites PROVE Goal
  BY <1>70 DEF StrayWrites, Out, TypeWorld
<1>71. ASSUME Interrupt PROVE Goal
  BY <1>71 DEF Interrupt, world, Raise, Fails, Handler, Barrier, Campaign, TypeWorld
<1>72. ASSUME WorkerRaises PROVE Goal
  BY <1>72 DEF WorkerRaises, world, Fails, WTell, WorkerAlive, TypeWorld
<1>73. ASSUME CommandStrays PROVE Goal
  BY <1>73 DEF CommandStrays, world, Fails, TypeWorld
<1>74. ASSUME SupervisorDies PROVE Goal
  BY <1>74 DEF SupervisorDies, world, Fails, TypeWorld
<1>75. ASSUME Kill PROVE Goal
  BY <1>75 DEF Kill, world, Fails, TypeWorld
<1>76. ASSUME UNCHANGED vars PROVE Goal
  BY <1>76 DEF vars, TypeWorld
<1> HIDE DEF Goal
<1>77. ASSUME BarrierStep PROVE Goal
  BY <1>77, <1>4, <1>5, <1>6, <1>7, <1>8, <1>9, <1>10, <1>11, <1>12, <1>13, <1>14, <1>15,
     <1>16, <1>17 DEF BarrierStep
<1>78. ASSUME OutputStep PROVE Goal
  BY <1>78, <1>18, <1>19, <1>20, <1>21, <1>22, <1>23 DEF OutputStep
<1>79. ASSUME CampaignStep PROVE Goal
  BY <1>79, <1>24, <1>25, <1>26, <1>27, <1>28, <1>29, <1>30, <1>31, <1>32, <1>33 DEF
     CampaignStep
<1>80. ASSUME PublishStep PROVE Goal
  BY <1>80, <1>34, <1>35, <1>36, <1>37, <1>38, <1>39, <1>40, <1>41, <1>42 DEF PublishStep
<1>81. ASSUME EndStep PROVE Goal
  BY <1>81, <1>43, <1>44, <1>45, <1>46, <1>47, <1>48, <1>49, <1>50 DEF EndStep
<1>82. ASSUME WorkerStep PROVE Goal
  BY <1>82, <1>51, <1>52, <1>53, <1>54, <1>55, <1>56, <1>57, <1>58, <1>59, <1>60, <1>61,
     <1>62, <1>63, <1>64, <1>65, <1>66 DEF WorkerStep
<1>83. ASSUME Mishap PROVE Goal
  BY <1>83, <1>67, <1>68, <1>69, <1>70, <1>71, <1>72, <1>73, <1>74, <1>75 DEF Mishap
<1>84. ASSUME ParentStep PROVE Goal
  BY <1>84, <1>3, <1>77, <1>78, <1>79, <1>80, <1>81 DEF ParentStep
<1>85. ASSUME Next PROVE Goal
  BY <1>85, <1>84, <1>1, <1>2, <1>82, <1>83 DEF Next
<1> QED  BY <1>76, <1>85 DEF Goal

\* The worker and its supervisor.
LEMMA WorkerTyped ==
    ASSUME TypeWorld, TypeParent, TypeWorker, Pending, [Next]_vars
    PROVE  TypeWorker'
<1> DEFINE Goal == TypeWorker'
<1>1. ASSUME Start PROVE Goal
  BY <1>1 DEF Start, At, NoWorker, TypeWorker, Workers, Quiet
<1>2. ASSUME NextRun PROVE Goal
  BY <1>2 DEF NextRun, world, TypeWorker, Workers, Quiet
<1>3. ASSUME Revalidate PROVE Goal
  BY <1>3 DEF Revalidate, world, TypeWorker, Workers, Quiet
<1>4. ASSUME OpenRepository PROVE Goal
  BY <1>4 DEF OpenRepository, world, At, TypeWorker, Workers, Quiet
<1>5. ASSUME EstablishSource PROVE Goal
  BY <1>5 DEF EstablishSource, world, At, TypeWorker, Workers, Quiet
<1>6. ASSUME CaptureBefore PROVE Goal
  BY <1>6 DEF CaptureBefore, world, At, TypeWorker, Workers, Quiet
<1>7. ASSUME RunSelfTests PROVE Goal
  BY <1>7 DEF RunSelfTests, world, At, Fails, Works, TypeWorker, Workers, Quiet
<1>8. ASSUME CaptureAfter PROVE Goal
  BY <1>8 DEF CaptureAfter, world, At, TypeWorker, Workers, Quiet
<1>9. ASSUME AcquireDataLock PROVE Goal
  BY <1>9 DEF AcquireDataLock, world, At, TypeWorker, Workers, Quiet
<1>10. ASSUME PostLock PROVE Goal
  BY <1>10 DEF PostLock, world, At, TypeWorker, Workers, Quiet
<1>11. ASSUME FreezeUnitArtifact PROVE Goal
  BY <1>11 DEF FreezeUnitArtifact, world, At, TypeWorker, Workers, Quiet
<1>12. ASSUME InvokeUnitVerifier PROVE Goal
  BY <1>12 DEF InvokeUnitVerifier, world, At, Fails, Works, TypeWorker, Workers, Quiet
<1>13. ASSUME PostUnit PROVE Goal
  BY <1>13 DEF PostUnit, world, At, TypeWorker, Workers, Quiet
<1>14. ASSUME SealPrivateTree PROVE Goal
  BY <1>14 DEF SealPrivateTree, world, At, TypeWorker, Workers, Quiet
<1>15. ASSUME Authorize PROVE Goal
  BY <1>15 DEF Authorize, world, At, TypeWorker, Workers, Quiet
<1>16. ASSUME Refuse PROVE Goal
  BY <1>16 DEF Refuse, world, TypeWorker, Workers, Quiet
<1>17. ASSUME ReadRegistry PROVE Goal
  BY <1>17 DEF ReadRegistry, world, At, TypeWorker, Workers, Quiet
<1>18. ASSUME AcquireParent PROVE Goal
  BY <1>18 DEF AcquireParent, world, At, TypeWorker, Workers, Quiet
<1>19. ASSUME CreatePartial PROVE Goal
  BY <1>19 DEF CreatePartial, world, At, TypeWorker, Workers, Quiet
<1>20. ASSUME Register PROVE Goal
  BY <1>20 DEF Register, world, At, TypeWorker, Workers, Quiet
<1>21. ASSUME RollbackLocal PROVE Goal
  BY <1>21 DEF RollbackLocal, world, TypeWorker, Workers, Quiet
<1>22. ASSUME RollbackEmpty PROVE Goal
  BY <1>22 DEF RollbackEmpty, world, TypeWorker, Workers, Quiet
<1>23. ASSUME Abandon PROVE Goal
  BY <1>23 DEF Abandon, world, TypeWorker, Workers, Quiet
<1>24. ASSUME EnterCampaign PROVE Goal
  BY <1>24 DEF EnterCampaign, world, At, TypeWorker, Workers, Quiet
<1>25. ASSUME CreateWorkspaces PROVE Goal
  BY <1>25 DEF CreateWorkspaces, world, At, TypeWorker, Workers, Quiet
<1>26. ASSUME HoldBags PROVE Goal
  BY <1>26 DEF HoldBags, world, At, TypeWorker, Workers, Quiet
<1>27. ASSUME ForkSupervisor PROVE Goal
  <2>1. wk' = [NoWorker EXCEPT !.st = "enter", !.sup = "up"] /\ run' = run /\ run > 0
    BY <1>27 DEF ForkSupervisor, At, TypeParent
  <2>2. wk' \in Workers /\ wk'.st = "enter" /\ wk'.sup = "up"
    BY <2>1 DEF NoWorker, Workers
  <2> QED  BY <2>1, <2>2 DEF TypeWorker, Quiet
<1>28. ASSUME AwaitResult PROVE Goal
  BY <1>28 DEF AwaitResult, world, At, TypeWorker, Workers, Quiet
<1>29. ASSUME CheckResult PROVE Goal
  BY <1>29 DEF CheckResult, world, At, Out, TypeWorker, Workers, Quiet
<1>30. ASSUME RunVerifier PROVE Goal
  BY <1>30 DEF RunVerifier, world, At, Out, Fails, Works, TypeWorker, Workers, Quiet
<1>31. ASSUME DetachedVerify PROVE Goal
  BY <1>31 DEF DetachedVerify, world, At, TypeWorker, Workers, Quiet
<1>32. ASSUME TakeSnapshot PROVE Goal
  BY <1>32 DEF TakeSnapshot, world, At, Out, TypeWorker, Workers, Quiet
<1>33. ASSUME CleanWorkspaces PROVE Goal
  BY <1>33 DEF CleanWorkspaces, world, Fails, Works, TypeWorker, Workers, Quiet
<1>34. ASSUME Publish PROVE Goal
  BY <1>34 DEF Publish, world, At, Out, TypeWorker, Workers, Quiet
<1>35. ASSUME RenameNoReplace PROVE Goal
  BY <1>35 DEF RenameNoReplace, world, At, TypeWorker, Workers, Quiet
<1>36. ASSUME Rebaseline PROVE Goal
  BY <1>36 DEF Rebaseline, world, At, TypeWorker, Workers, Quiet
<1>37. ASSUME AfterPublish PROVE Goal
  BY <1>37 DEF AfterPublish, world, At, TypeWorker, Workers, Quiet
<1>38. ASSUME Commit PROVE Goal
  BY <1>38 DEF Commit, world, At, TypeWorker, Workers, Quiet
<1>39. ASSUME Reconcile PROVE Goal
  BY <1>39 DEF Reconcile, world, Out, TypeWorker, Workers, Quiet
<1>40. ASSUME RenameBack PROVE Goal
  BY <1>40 DEF RenameBack, world, TypeWorker, Workers, Quiet
<1>41. ASSUME Unrenamed PROVE Goal
  BY <1>41 DEF Unrenamed, world, TypeWorker, Workers, Quiet
<1>42. ASSUME ReconcileAgain PROVE Goal
  BY <1>42 DEF ReconcileAgain, world, Out, TypeWorker, Workers, Quiet
<1>43. ASSUME PublicationState PROVE Goal
  BY <1>43 DEF PublicationState, world, Out, TypeWorker, Workers, Quiet
<1>44. ASSUME UnsealForMarker PROVE Goal
  BY <1>44 DEF UnsealForMarker, world, At, TypeWorker, Workers, Quiet
<1>45. ASSUME Quarantine PROVE Goal
  BY <1>45 DEF Quarantine, world, At, TypeWorker, Workers, Quiet
<1>46. ASSUME CommitMarker PROVE Goal
  BY <1>46 DEF CommitMarker, world, At, Out, TypeWorker, Workers, Quiet
<1>47. ASSUME Unmarked PROVE Goal
  BY <1>47 DEF Unmarked, world, TypeWorker, Workers, Quiet
<1>48. ASSUME Report PROVE Goal
  BY <1>48 DEF Report, world, At, TypeWorker, Workers, Quiet
<1>49. ASSUME RemovePrivateTree PROVE Goal
  BY <1>49 DEF RemovePrivateTree, world, Fails, Works, TypeWorker, Workers, Quiet
<1>50. ASSUME Close PROVE Goal
  BY <1>50 DEF Close, world, TypeWorker, Workers, Quiet
<1>51. ASSUME WorkerRevalidate PROVE Goal
  <2>1. ~Quiet /\ run' = run /\ (wk' = [wk EXCEPT !.pend = FALSE] \/ WTell(FALSE))
    BY <1>51 DEF WorkerRevalidate, Pending, Quiet
  <2>2. CASE WTell(FALSE)
    BY <2>1, <2>2, WTellTyped
  <2>3. CASE wk' = [wk EXCEPT !.pend = FALSE]
    BY <2>1, <2>3 DEF TypeWorker, Workers, Quiet
  <2> QED  BY <2>1, <2>2, <2>3
<1>52. ASSUME InstallMounts PROVE Goal
  BY <1>52, WToTyped, WTellTyped DEF InstallMounts, WAt, Quiet
<1>53. ASSUME EnterNamespaces PROVE Goal
  BY <1>53, WToTyped, WTellTyped DEF EnterNamespaces, WAt, Quiet
<1>54. ASSUME CopyReadiness PROVE Goal
  BY <1>54, WToTyped, WTellTyped DEF CopyReadiness, WAt, Quiet
<1>55. ASSUME StageCapsule PROVE Goal
  BY <1>55, WToTyped, WTellTyped DEF StageCapsule, WAt, Quiet
<1>56. ASSUME BuildRuntime PROVE Goal
  BY <1>56 DEF BuildRuntime, world, Fails, Works, WAt, TypeWorker, Workers, Quiet
<1>57. ASSUME AuditBuild PROVE Goal
  BY <1>57, WToTyped, WTellTyped DEF AuditBuild, WAt, Quiet
<1>58. ASSUME PairIndex PROVE Goal
  <2>1. ~Quiet /\ run' = run /\ bag \in Nat
    BY <1>58 DEF PairIndex, WAt, Quiet, TypeWorld
  <2>2. WTell(FALSE) \/ wk' = [wk EXCEPT !.st = "ros", !.pend = TRUE, !.idx = bag]
    BY <1>58 DEF PairIndex
  <2>3. CASE WTell(FALSE)
    BY <2>1, <2>3, WTellTyped
  <2>4. CASE wk' = [wk EXCEPT !.st = "ros", !.pend = TRUE, !.idx = bag]
    BY <2>1, <2>4 DEF TypeWorker, Workers, Quiet
  <2> QED  BY <2>2, <2>3, <2>4
<1>59. ASSUME RosRun PROVE Goal
  BY <1>59 DEF RosRun, world, WTo, WAt, TypeWorker, Workers, Quiet
<1>60. ASSUME AcceptRun PROVE Goal
  <2>1. ~Quiet /\ run' = run /\ wk.i + 1 \in Nat
    BY <1>60 DEF AcceptRun, WAt, Quiet, TypeWorker, Workers
  <2>2. WTell(FALSE) \/ \E st \in {"pair", "assemble"} : wk' = [wk EXCEPT !.i = @ + 1, !.st = st]
    BY <1>60 DEF AcceptRun
  <2>3. CASE WTell(FALSE)
    BY <2>1, <2>3, WTellTyped
  <2>4. ASSUME NEW st \in {"pair", "assemble"}, wk' = [wk EXCEPT !.i = @ + 1, !.st = st] PROVE Goal
    BY <2>1, <2>4 DEF TypeWorker, Workers, Quiet
  <2> QED  BY <2>2, <2>3, <2>4
<1>61. ASSUME Assemble PROVE Goal
  BY <1>61, WToTyped, WTellTyped DEF Assemble, WAt, Quiet
<1>62. ASSUME OfflineReplay PROVE Goal
  BY <1>62, WToTyped, WTellTyped DEF OfflineReplay, WAt, Quiet
<1>63. ASSUME SealArtifact PROVE Goal
  BY <1>63, WToTyped, WTellTyped DEF SealArtifact, WAt, Quiet
<1>64. ASSUME WorkerPasses PROVE Goal
  BY <1>64, WToTyped, WTellTyped DEF WorkerPasses, WAt, Quiet
<1>65. ASSUME NamespaceEnds PROVE Goal
  BY <1>65 DEF NamespaceEnds, world, Fails, Works, WorkerAlive, TypeWorker, Workers, Quiet
<1>66. ASSUME SupervisorForwards PROVE Goal
  BY <1>66 DEF SupervisorForwards, world, TypeWorker, Workers, Quiet
<1>67. ASSUME Edit PROVE Goal
  BY <1>67 DEF Edit, TypeWorker, Workers, Quiet
<1>68. ASSUME SpoilBag PROVE Goal
  BY <1>68 DEF SpoilBag, TypeWorker, Workers, Quiet
<1>69. ASSUME OtherLocks PROVE Goal
  BY <1>69 DEF OtherLocks, TypeWorker, Workers, Quiet
<1>70. ASSUME StrayWrites PROVE Goal
  BY <1>70 DEF StrayWrites, Out, TypeWorker, Workers, Quiet
<1>71. ASSUME Interrupt PROVE Goal
  BY <1>71 DEF Interrupt, world, Fails, TypeWorker, Workers, Quiet
<1>72. ASSUME WorkerRaises PROVE Goal
  BY <1>72, WTellTyped DEF WorkerRaises, WorkerAlive, Quiet
<1>73. ASSUME CommandStrays PROVE Goal
  BY <1>73 DEF CommandStrays, world, Fails, TypeWorker, Workers, Quiet
<1>74. ASSUME SupervisorDies PROVE Goal
  BY <1>74 DEF SupervisorDies, world, Fails, TypeWorker, Workers, Quiet
<1>75. ASSUME Kill PROVE Goal
  BY <1>75 DEF Kill, world, Fails, TypeWorker, Workers, Quiet
<1>76. ASSUME UNCHANGED vars PROVE Goal
  BY <1>76 DEF vars, TypeWorker, Workers, Quiet
<1> HIDE DEF Goal
<1>77. ASSUME BarrierStep PROVE Goal
  BY <1>77, <1>4, <1>5, <1>6, <1>7, <1>8, <1>9, <1>10, <1>11, <1>12, <1>13, <1>14, <1>15,
     <1>16, <1>17 DEF BarrierStep
<1>78. ASSUME OutputStep PROVE Goal
  BY <1>78, <1>18, <1>19, <1>20, <1>21, <1>22, <1>23 DEF OutputStep
<1>79. ASSUME CampaignStep PROVE Goal
  BY <1>79, <1>24, <1>25, <1>26, <1>27, <1>28, <1>29, <1>30, <1>31, <1>32, <1>33 DEF
     CampaignStep
<1>80. ASSUME PublishStep PROVE Goal
  BY <1>80, <1>34, <1>35, <1>36, <1>37, <1>38, <1>39, <1>40, <1>41, <1>42 DEF PublishStep
<1>81. ASSUME EndStep PROVE Goal
  BY <1>81, <1>43, <1>44, <1>45, <1>46, <1>47, <1>48, <1>49, <1>50 DEF EndStep
<1>82. ASSUME WorkerStep PROVE Goal
  BY <1>82, <1>51, <1>52, <1>53, <1>54, <1>55, <1>56, <1>57, <1>58, <1>59, <1>60, <1>61,
     <1>62, <1>63, <1>64, <1>65, <1>66 DEF WorkerStep
<1>83. ASSUME Mishap PROVE Goal
  BY <1>83, <1>67, <1>68, <1>69, <1>70, <1>71, <1>72, <1>73, <1>74, <1>75 DEF Mishap
<1>84. ASSUME ParentStep PROVE Goal
  BY <1>84, <1>3, <1>77, <1>78, <1>79, <1>80, <1>81 DEF ParentStep
<1>85. ASSUME Next PROVE Goal
  BY <1>85, <1>84, <1>1, <1>2, <1>82, <1>83 DEF Next
<1> QED  BY <1>76, <1>85 DEF Goal

\* The output parent.
LEMMA OutputTyped ==
    ASSUME TypeWorld, TypeParent, TypeOutput, Pending, [Next]_vars
    PROVE  TypeOutput'
<1> DEFINE Goal == TypeOutput'
<1>1. ASSUME Start PROVE Goal
  BY <1>1 DEF Start, At, NoWorker, NoParent, TypeOutput, TypeParent, Parents, Ending
<1>2. ASSUME NextRun PROVE Goal
  BY <1>2 DEF NextRun, world, To, TypeOutput, TypeParent, Parents, Ending
<1>3. ASSUME Revalidate PROVE Goal
  <2>1. p.pc \in Raisable /\ anc' = anc
    BY <1>3 DEF Revalidate, Pending, Comparing, Raisable, Barrier, Places, Early, Unforked, Verified
  <2>2. CASE Raise
    BY <2>1, <2>2, RaiseOutput
  <2>3. CASE ~Raise
    BY <1>3, <2>3 DEF Revalidate, TypeOutput, TypeParent, Parents
  <2> QED  BY <2>2, <2>3
<1>4. ASSUME OpenRepository PROVE Goal
  BY <1>4 DEF OpenRepository, world, At, TypeOutput, TypeParent, Parents, Ending
<1>5. ASSUME EstablishSource PROVE Goal
  <2>1. CASE Raise
    BY <1>5, <2>1, RaiseOutput DEF EstablishSource, world, At, Raisable, Places, Early,
       Unforked, Barrier, Verified, Failing
  <2>2. CASE ~Raise
    BY <1>5, <2>2 DEF EstablishSource, world, At, TypeOutput, TypeParent, Parents, Ending
  <2> QED  BY <2>1, <2>2
<1>6. ASSUME CaptureBefore PROVE Goal
  BY <1>6 DEF CaptureBefore, world, At, TypeOutput, TypeParent, Parents, Ending
<1>7. ASSUME RunSelfTests PROVE Goal
  <2>1. CASE Raise
    BY <1>7, <2>1, RaiseOutput DEF RunSelfTests, world, At, Raisable, Places, Early, Unforked,
       Barrier, Verified, Failing
  <2>2. CASE ~Raise
    BY <1>7, <2>2 DEF RunSelfTests, world, Read, At, Fails, Works, TypeOutput, TypeParent,
       Parents, Ending
  <2> QED  BY <2>1, <2>2
<1>8. ASSUME CaptureAfter PROVE Goal
  <2>1. CASE Raise
    BY <1>8, <2>1, RaiseOutput DEF CaptureAfter, world, At, Raisable, Places, Early, Unforked,
       Barrier, Verified, Failing
  <2>2. CASE ~Raise
    BY <1>8, <2>2 DEF CaptureAfter, world, Read, At, TypeOutput, TypeParent, Parents, Ending
  <2> QED  BY <2>1, <2>2
<1>9. ASSUME AcquireDataLock PROVE Goal
  <2>1. CASE Raise
    BY <1>9, <2>1, RaiseOutput DEF AcquireDataLock, world, At, Raisable, Places, Early,
       Unforked, Barrier, Verified, Failing
  <2>2. CASE ~Raise
    BY <1>9, <2>2 DEF AcquireDataLock, world, To, At, TypeOutput, TypeParent, Parents,
       Ending
  <2> QED  BY <2>1, <2>2
<1>10. ASSUME PostLock PROVE Goal
  <2>1. CASE Raise
    BY <1>10, <2>1, RaiseOutput DEF PostLock, world, At, Raisable, Places, Early, Unforked,
       Barrier, Verified, Failing
  <2>2. CASE ~Raise
    BY <1>10, <2>2 DEF PostLock, world, Read, At, TypeOutput, TypeParent, Parents, Ending
  <2> QED  BY <2>1, <2>2
<1>11. ASSUME FreezeUnitArtifact PROVE Goal
  BY <1>11 DEF FreezeUnitArtifact, world, Read, At, TypeOutput, TypeParent, Parents, Ending
<1>12. ASSUME InvokeUnitVerifier PROVE Goal
  <2>1. CASE Raise
    BY <1>12, <2>1, RaiseOutput DEF InvokeUnitVerifier, world, At, Raisable, Places, Early,
       Unforked, Barrier, Verified, Failing
  <2>2. CASE ~Raise
    BY <1>12, <2>2 DEF InvokeUnitVerifier, world, Read, At, Fails, Works, TypeOutput,
       TypeParent, Parents, Ending
  <2> QED  BY <2>1, <2>2
<1>13. ASSUME PostUnit PROVE Goal
  <2>1. CASE Raise
    BY <1>13, <2>1, RaiseOutput DEF PostUnit, world, At, Raisable, Places, Early, Unforked,
       Barrier, Verified, Failing
  <2>2. CASE ~Raise
    BY <1>13, <2>2 DEF PostUnit, world, Read, At, TypeOutput, TypeParent, Parents, Ending
  <2> QED  BY <2>1, <2>2
<1>14. ASSUME SealPrivateTree PROVE Goal
  BY <1>14 DEF SealPrivateTree, world, Read, At, TypeOutput, TypeParent, Parents, Ending
<1>15. ASSUME Authorize PROVE Goal
  BY <1>15 DEF Authorize, world, To, At, TypeOutput, TypeParent, Parents, Ending
<1>16. ASSUME Refuse PROVE Goal
  BY <1>16 DEF Refuse, world, To, Holds, TypeOutput, TypeParent, Parents, Ending
<1>17. ASSUME ReadRegistry PROVE Goal
  BY <1>17 DEF ReadRegistry, world, Read, At, TypeOutput, TypeParent, Parents, Ending
<1>18. ASSUME AcquireParent PROVE Goal
  <2>1. p.pc = "parents" /\ p.pc \in Raisable
    BY <1>18 DEF AcquireParent, At, Raisable, Places, Early, Unforked, Barrier, Verified, Failing
  <2>2. CASE anc < Depth /\ anc' = anc + 1 /\ p' = [p EXCEPT !.made = @ + 1]
    BY <2>1, <2>2 DEF TypeOutput, TypeParent, Parents, Ending
  <2>3. CASE anc' = anc /\ Raise
    BY <2>1, <2>3, RaiseOutput
  <2>4. CASE anc' = anc /\ To("partial")
    BY <2>1, <2>4 DEF To, TypeOutput, TypeParent, Parents, Ending
  <2> QED  BY <1>18, <2>2, <2>3, <2>4 DEF AcquireParent
<1>19. ASSUME CreatePartial PROVE Goal
  BY <1>19 DEF CreatePartial, world, To, At, NoTree, TypeOutput, TypeParent, Parents, Ending
<1>20. ASSUME Register PROVE Goal
  <2>1. CASE Raise
    BY <1>20, <2>1, RaiseOutput DEF Register, world, At, Raisable, Places, Early, Unforked,
       Barrier, Verified, Failing
  <2>2. CASE ~Raise
    BY <1>20, <2>2 DEF Register, world, At, Bound, HeldContent, Namespace, TypeOutput,
       TypeParent, Parents, Ending
  <2> QED  BY <2>1, <2>2
<1>21. ASSUME RollbackLocal PROVE Goal
  BY <1>21 DEF RollbackLocal, world, To, RemoveCreated, Fails, Works, NoTree, TypeOutput,
     TypeParent, Parents, Ending
<1>22. ASSUME RollbackEmpty PROVE Goal
  BY <1>22 DEF RollbackEmpty, world, RemoveCreated, Fails, Works, NoTree, TypeOutput,
     TypeParent, Parents, Ending
<1>23. ASSUME Abandon PROVE Goal
  BY <1>23 DEF Abandon, world, To, Holds, TypeOutput, TypeParent, Parents, Ending
<1>24. ASSUME EnterCampaign PROVE Goal
  BY <1>24 DEF EnterCampaign, world, To, At, TypeOutput, TypeParent, Parents, Ending
<1>25. ASSUME CreateWorkspaces PROVE Goal
  BY <1>25 DEF CreateWorkspaces, world, At, TypeOutput, TypeParent, Parents, Ending
<1>26. ASSUME HoldBags PROVE Goal
  <2>1. CASE Raise
    BY <1>26, <2>1, RaiseOutput DEF HoldBags, world, At, Raisable, Places, Early, Unforked,
       Barrier, Verified, Failing
  <2>2. CASE ~Raise
    BY <1>26, <2>2 DEF HoldBags, world, Read, At, TypeOutput, TypeParent, Parents, Ending
  <2> QED  BY <2>1, <2>2
<1>27. ASSUME ForkSupervisor PROVE Goal
  BY <1>27 DEF ForkSupervisor, world, To, At, NoWorker, TypeOutput, TypeParent, Parents,
     Ending
<1>28. ASSUME AwaitResult PROVE Goal
  <2>1. CASE Raise
    BY <1>28, <2>1, RaiseOutput DEF AwaitResult, world, At, Raisable, Places, Early, Unforked,
       Barrier, Verified, Failing
  <2>2. CASE ~Raise
    BY <1>28, <2>2 DEF AwaitResult, world, Read, At, TypeOutput, TypeParent, Parents, Ending
  <2> QED  BY <2>1, <2>2
<1>29. ASSUME CheckResult PROVE Goal
  <2>1. CASE Raise
    BY <1>29, <2>1, RaiseOutput DEF CheckResult, world, At, Raisable, Places, Early, Unforked,
       Barrier, Verified, Failing
  <2>2. CASE ~Raise
    BY <1>29, <2>2 DEF CheckResult, world, To, At, Out, TypeOutput, TypeParent, Parents,
       Ending
  <2> QED  BY <2>1, <2>2
<1>30. ASSUME RunVerifier PROVE Goal
  BY <1>30 DEF RunVerifier, world, At, Out, Fails, Works, TypeOutput, TypeParent, Parents,
     Ending
<1>31. ASSUME DetachedVerify PROVE Goal
  <2>1. CASE Raise
    BY <1>31, <2>1, RaiseOutput DEF DetachedVerify, world, At, Raisable, Places, Early,
       Unforked, Barrier, Verified, Failing
  <2>2. CASE ~Raise
    BY <1>31, <2>2 DEF DetachedVerify, world, Read, At, TypeOutput, TypeParent, Parents,
       Ending
  <2> QED  BY <2>1, <2>2
<1>32. ASSUME TakeSnapshot PROVE Goal
  <2>1. CASE Raise
    BY <1>32, <2>1, RaiseOutput DEF TakeSnapshot, world, At, Raisable, Places, Early, Unforked,
       Barrier, Verified, Failing
  <2>2. CASE ~Raise
    BY <1>32, <2>2 DEF TakeSnapshot, world, At, Out, TypeOutput, TypeParent, Parents, Ending
  <2> QED  BY <2>1, <2>2
<1>33. ASSUME CleanWorkspaces PROVE Goal
  BY <1>33 DEF CleanWorkspaces, world, Fails, Works, TypeOutput, TypeParent, Parents, Ending
<1>34. ASSUME Publish PROVE Goal
  <2>1. CASE Raise
    BY <1>34, <2>1, RaiseOutput DEF Publish, world, At, Raisable, Places, Early, Unforked,
       Barrier, Verified, Failing
  <2>2. CASE ~Raise
    BY <1>34, <2>2 DEF Publish, world, Read, At, Out, TypeOutput, TypeParent, Parents,
       Ending
  <2> QED  BY <2>1, <2>2
<1>35. ASSUME RenameNoReplace PROVE Goal
  <2>1. CASE Raise
    BY <1>35, <2>1, RaiseOutput DEF RenameNoReplace, world, At, Raisable, Places, Early,
       Unforked, Barrier, Verified, Failing
  <2>2. CASE ~Raise
    BY <1>35, <2>2 DEF RenameNoReplace, world, To, At, FinalTaken, TypeOutput, TypeParent,
       Parents, Ending
  <2> QED  BY <2>1, <2>2
<1>36. ASSUME Rebaseline PROVE Goal
  BY <1>36 DEF Rebaseline, world, At, TypeOutput, TypeParent, Parents, Ending
<1>37. ASSUME AfterPublish PROVE Goal
  BY <1>37 DEF AfterPublish, world, Read, At, TypeOutput, TypeParent, Parents, Ending
<1>38. ASSUME Commit PROVE Goal
  BY <1>38 DEF Commit, world, At, TypeOutput, TypeParent, Parents, Ending
<1>39. ASSUME Reconcile PROVE Goal
  BY <1>39 DEF Reconcile, world, Out, TypeOutput, TypeParent, Parents, Ending
<1>40. ASSUME RenameBack PROVE Goal
  BY <1>40 DEF RenameBack, world, To, TypeOutput, TypeParent, Parents, Ending
<1>41. ASSUME Unrenamed PROVE Goal
  BY <1>41 DEF Unrenamed, world, Bound, HeldContent, Namespace, TypeOutput, TypeParent,
     Parents, Ending
<1>42. ASSUME ReconcileAgain PROVE Goal
  BY <1>42 DEF ReconcileAgain, world, Out, TypeOutput, TypeParent, Parents, Ending
<1>43. ASSUME PublicationState PROVE Goal
  BY <1>43 DEF PublicationState, world, To, Out, TypeOutput, TypeParent, Parents, Ending
<1>44. ASSUME UnsealForMarker PROVE Goal
  BY <1>44 DEF UnsealForMarker, world, To, At, TypeOutput, TypeParent, Parents, Ending
<1>45. ASSUME Quarantine PROVE Goal
  BY <1>45 DEF Quarantine, world, To, At, TypeOutput, TypeParent, Parents, Ending
<1>46. ASSUME CommitMarker PROVE Goal
  BY <1>46 DEF CommitMarker, world, To, At, Out, Holds, TypeOutput, TypeParent, Parents,
     Ending
<1>47. ASSUME Unmarked PROVE Goal
  BY <1>47 DEF Unmarked, world, To, Holds, TypeOutput, TypeParent, Parents, Ending
<1>48. ASSUME Report PROVE Goal
  BY <1>48 DEF Report, world, To, At, Holds, TypeOutput, TypeParent, Parents, Ending
<1>49. ASSUME RemovePrivateTree PROVE Goal
  BY <1>49 DEF RemovePrivateTree, world, To, Fails, Works, TypeOutput, TypeParent, Parents,
     Ending
<1>50. ASSUME Close PROVE Goal
  BY <1>50 DEF Close, world, To, TypeOutput, TypeParent, Parents, Ending
<1>51. ASSUME WorkerRevalidate PROVE Goal
  BY <1>51 DEF WorkerRevalidate, world, Bound, WTell, HeldContent, Namespace, TypeOutput,
     TypeParent, Parents, Ending
<1>52. ASSUME InstallMounts PROVE Goal
  BY <1>52 DEF InstallMounts, world, WTo, WAt, TypeOutput, TypeParent, Parents, Ending
<1>53. ASSUME EnterNamespaces PROVE Goal
  BY <1>53 DEF EnterNamespaces, world, WTo, WAt, TypeOutput, TypeParent, Parents, Ending
<1>54. ASSUME CopyReadiness PROVE Goal
  BY <1>54 DEF CopyReadiness, world, WTo, WAt, WTell, TypeOutput, TypeParent, Parents,
     Ending
<1>55. ASSUME StageCapsule PROVE Goal
  BY <1>55 DEF StageCapsule, world, WTo, WAt, TypeOutput, TypeParent, Parents, Ending
<1>56. ASSUME BuildRuntime PROVE Goal
  BY <1>56 DEF BuildRuntime, world, Fails, Works, WAt, TypeOutput, TypeParent, Parents,
     Ending
<1>57. ASSUME AuditBuild PROVE Goal
  BY <1>57 DEF AuditBuild, world, WTo, WAt, WTell, TypeOutput, TypeParent, Parents, Ending
<1>58. ASSUME PairIndex PROVE Goal
  BY <1>58 DEF PairIndex, world, WAt, WTell, TypeOutput, TypeParent, Parents, Ending
<1>59. ASSUME RosRun PROVE Goal
  BY <1>59 DEF RosRun, world, WTo, WAt, TypeOutput, TypeParent, Parents, Ending
<1>60. ASSUME AcceptRun PROVE Goal
  BY <1>60 DEF AcceptRun, world, Out, WAt, WTell, TypeOutput, TypeParent, Parents, Ending
<1>61. ASSUME Assemble PROVE Goal
  BY <1>61 DEF Assemble, world, WTo, WAt, TypeOutput, TypeParent, Parents, Ending
<1>62. ASSUME OfflineReplay PROVE Goal
  BY <1>62 DEF OfflineReplay, world, WTo, WAt, TypeOutput, TypeParent, Parents, Ending
<1>63. ASSUME SealArtifact PROVE Goal
  BY <1>63 DEF SealArtifact, world, Out, WTo, WAt, WTell, TypeOutput, TypeParent, Parents,
     Ending
<1>64. ASSUME WorkerPasses PROVE Goal
  BY <1>64 DEF WorkerPasses, world, WAt, WTell, TypeOutput, TypeParent, Parents, Ending
<1>65. ASSUME NamespaceEnds PROVE Goal
  BY <1>65 DEF NamespaceEnds, world, Fails, Works, WorkerAlive, TypeOutput, TypeParent,
     Parents, Ending
<1>66. ASSUME SupervisorForwards PROVE Goal
  BY <1>66 DEF SupervisorForwards, world, TypeOutput, TypeParent, Parents, Ending
<1>67. ASSUME Edit PROVE Goal
  BY <1>67 DEF Edit, TypeOutput, TypeParent, Parents, Ending
<1>68. ASSUME SpoilBag PROVE Goal
  BY <1>68 DEF SpoilBag, TypeOutput, TypeParent, Parents, Ending
<1>69. ASSUME OtherLocks PROVE Goal
  BY <1>69 DEF OtherLocks, TypeOutput, TypeParent, Parents, Ending
<1>70. ASSUME StrayWrites PROVE Goal
  BY <1>70 DEF StrayWrites, Out, TypeOutput, TypeParent, Parents, Ending
<1>71. ASSUME Interrupt PROVE Goal
  <2>1. p.pc \in Raisable /\ anc' = anc /\ Raise
    BY <1>71 DEF Interrupt, Raisable, TypeParent, Parents
  <2> QED  BY <2>1, RaiseOutput
<1>72. ASSUME WorkerRaises PROVE Goal
  BY <1>72 DEF WorkerRaises, world, Fails, WTell, WorkerAlive, TypeOutput, TypeParent,
     Parents, Ending
<1>73. ASSUME CommandStrays PROVE Goal
  BY <1>73 DEF CommandStrays, world, Fails, TypeOutput, TypeParent, Parents, Ending
<1>74. ASSUME SupervisorDies PROVE Goal
  BY <1>74 DEF SupervisorDies, world, Fails, TypeOutput, TypeParent, Parents, Ending
<1>75. ASSUME Kill PROVE Goal
  BY <1>75 DEF Kill, world, Fails, TypeOutput, TypeParent, Parents, Ending
<1>76. ASSUME UNCHANGED vars PROVE Goal
  BY <1>76 DEF vars, TypeOutput, TypeParent, Parents, Ending
<1> HIDE DEF Goal
<1>77. ASSUME BarrierStep PROVE Goal
  BY <1>77, <1>4, <1>5, <1>6, <1>7, <1>8, <1>9, <1>10, <1>11, <1>12, <1>13, <1>14, <1>15,
     <1>16, <1>17 DEF BarrierStep
<1>78. ASSUME OutputStep PROVE Goal
  BY <1>78, <1>18, <1>19, <1>20, <1>21, <1>22, <1>23 DEF OutputStep
<1>79. ASSUME CampaignStep PROVE Goal
  BY <1>79, <1>24, <1>25, <1>26, <1>27, <1>28, <1>29, <1>30, <1>31, <1>32, <1>33 DEF
     CampaignStep
<1>80. ASSUME PublishStep PROVE Goal
  BY <1>80, <1>34, <1>35, <1>36, <1>37, <1>38, <1>39, <1>40, <1>41, <1>42 DEF PublishStep
<1>81. ASSUME EndStep PROVE Goal
  BY <1>81, <1>43, <1>44, <1>45, <1>46, <1>47, <1>48, <1>49, <1>50 DEF EndStep
<1>82. ASSUME WorkerStep PROVE Goal
  BY <1>82, <1>51, <1>52, <1>53, <1>54, <1>55, <1>56, <1>57, <1>58, <1>59, <1>60, <1>61,
     <1>62, <1>63, <1>64, <1>65, <1>66 DEF WorkerStep
<1>83. ASSUME Mishap PROVE Goal
  BY <1>83, <1>67, <1>68, <1>69, <1>70, <1>71, <1>72, <1>73, <1>74, <1>75 DEF Mishap
<1>84. ASSUME ParentStep PROVE Goal
  BY <1>84, <1>3, <1>77, <1>78, <1>79, <1>80, <1>81 DEF ParentStep
<1>85. ASSUME Next PROVE Goal
  BY <1>85, <1>84, <1>1, <1>2, <1>82, <1>83 DEF Next
<1> QED  BY <1>76, <1>85 DEF Goal

\* What is to be compared.
LEMMA PendingKept ==
    ASSUME TypeWorld, TypeParent, TypeWorker, Pending, [Next]_vars
    PROVE  Pending'
<1> DEFINE Goal == Pending'
<1>1. ASSUME Start PROVE Goal
  BY <1>1 DEF Start, At, NoWorker, NoParent, Pending, Comparing, TypeParent, Parents,
     TypeWorker, Workers, Unforked, Fresh, Early, Verified, Failing, Ending, Places,
     Barrier, Campaign
<1>2. ASSUME NextRun PROVE Goal
  BY <1>2 DEF NextRun, world, To, Pending, Comparing, TypeParent, Parents, TypeWorker,
     Workers, Unforked, Fresh, Early, Verified, Failing, Ending, Places, Barrier, Campaign
<1>3. ASSUME Revalidate PROVE Goal
  <2>1. CASE Raise
    BY <1>3, <2>1, RaisePending DEF Revalidate
  <2>2. CASE ~Raise
    <3>1. p' = [p EXCEPT !.pend = FALSE] /\ wk' = wk
      BY <1>3, <2>2 DEF Revalidate
    <3>2. ~p'.pend
      BY <3>1 DEF TypeParent, Parents
    <3> QED  BY <3>1, <3>2 DEF Pending
  <2> QED  BY <2>1, <2>2
<1>4. ASSUME OpenRepository PROVE Goal
  BY <1>4 DEF OpenRepository, world, At, Pending, Comparing, TypeParent, Parents,
     TypeWorker, Workers, Unforked, Fresh, Early, Verified, Failing, Ending, Places,
     Barrier, Campaign
<1>5. ASSUME EstablishSource PROVE Goal
  <2>1. CASE Raise
    BY <1>5, <2>1, RaisePending DEF EstablishSource
  <2>2. CASE ~Raise
    <3>1. p' = [p EXCEPT !.pc = "before", !.pend = TRUE, !.private = TRUE] /\ wk' = wk
      BY <1>5, <2>2 DEF EstablishSource
    <3>2. p'.pc = "before"
      BY <3>1 DEF TypeParent, Parents
    <3> QED  BY <3>1, <3>2 DEF Pending, Comparing, Barrier
  <2> QED  BY <2>1, <2>2
<1>6. ASSUME CaptureBefore PROVE Goal
  BY <1>6 DEF CaptureBefore, world, At, Pending, Comparing, TypeParent, Parents, TypeWorker,
     Workers, Unforked, Fresh, Early, Verified, Failing, Ending, Places, Barrier, Campaign
<1>7. ASSUME RunSelfTests PROVE Goal
  <2>1. wk' = wk /\ (Raise \/ Read("after"))
    BY <1>7 DEF RunSelfTests
  <2>2. "after" \in Comparing
    BY DEF Comparing, Barrier
  <2> QED  BY <2>1, <2>2, RaisePending, ReadPending
<1>8. ASSUME CaptureAfter PROVE Goal
  <2>1. wk' = wk /\ (Raise \/ Read("lock"))
    BY <1>8 DEF CaptureAfter
  <2>2. "lock" \in Comparing
    BY DEF Comparing, Barrier
  <2> QED  BY <2>1, <2>2, RaisePending, ReadPending
<1>9. ASSUME AcquireDataLock PROVE Goal
  <2>1. CASE Raise
    BY <1>9, <2>1, RaisePending DEF AcquireDataLock, world, At
  <2>2. CASE ~Raise
    BY <1>9, <2>2 DEF AcquireDataLock, world, To, At, Pending, Comparing, TypeParent,
       Parents, TypeWorker, Workers, Unforked, Fresh, Early, Verified, Failing, Ending,
       Places, Barrier, Campaign
  <2> QED  BY <2>1, <2>2
<1>10. ASSUME PostLock PROVE Goal
  <2>1. wk' = wk /\ (Raise \/ Read("freeze"))
    BY <1>10 DEF PostLock
  <2>2. "freeze" \in Comparing
    BY DEF Comparing, Barrier
  <2> QED  BY <2>1, <2>2, RaisePending, ReadPending
<1>11. ASSUME FreezeUnitArtifact PROVE Goal
  <2>1. wk' = wk /\ (Raise \/ Read("unit"))
    BY <1>11 DEF FreezeUnitArtifact
  <2>2. "unit" \in Comparing
    BY DEF Comparing, Barrier
  <2> QED  BY <2>1, <2>2, RaisePending, ReadPending
<1>12. ASSUME InvokeUnitVerifier PROVE Goal
  <2>1. wk' = wk /\ (Raise \/ Read("postunit"))
    BY <1>12 DEF InvokeUnitVerifier
  <2>2. "postunit" \in Comparing
    BY DEF Comparing, Barrier
  <2> QED  BY <2>1, <2>2, RaisePending, ReadPending
<1>13. ASSUME PostUnit PROVE Goal
  <2>1. wk' = wk /\ (Raise \/ Read("seal"))
    BY <1>13 DEF PostUnit
  <2>2. "seal" \in Comparing
    BY DEF Comparing, Barrier
  <2> QED  BY <2>1, <2>2, RaisePending, ReadPending
<1>14. ASSUME SealPrivateTree PROVE Goal
  <2>1. wk' = wk /\ (Raise \/ Read("authorize"))
    BY <1>14 DEF SealPrivateTree
  <2>2. "authorize" \in Comparing
    BY DEF Comparing, Barrier
  <2> QED  BY <2>1, <2>2, RaisePending, ReadPending
<1>15. ASSUME Authorize PROVE Goal
  BY <1>15 DEF Authorize, world, To, At, Pending, Comparing, TypeParent, Parents,
     TypeWorker, Workers, Unforked, Fresh, Early, Verified, Failing, Ending, Places,
     Barrier, Campaign
<1>16. ASSUME Refuse PROVE Goal
  BY <1>16 DEF Refuse, world, To, Holds, Pending, Comparing, TypeParent, Parents,
     TypeWorker, Workers, Unforked, Fresh, Early, Verified, Failing, Ending, Places,
     Barrier, Campaign
<1>17. ASSUME ReadRegistry PROVE Goal
  <2>1. wk' = wk /\ (Raise \/ Read("parents"))
    BY <1>17 DEF ReadRegistry
  <2>2. "parents" \in Comparing
    BY DEF Comparing, Barrier
  <2> QED  BY <2>1, <2>2, RaisePending, ReadPending
<1>18. ASSUME AcquireParent PROVE Goal
  <2>1. CASE Raise
    BY <1>18, <2>1, RaisePending DEF AcquireParent, world, At
  <2>2. CASE ~Raise
    BY <1>18, <2>2 DEF AcquireParent, world, To, At, FinalTaken, Pending, Comparing,
       TypeParent, Parents, TypeWorker, Workers, Unforked, Fresh, Early, Verified, Failing,
       Ending, Places, Barrier, Campaign
  <2> QED  BY <2>1, <2>2
<1>19. ASSUME CreatePartial PROVE Goal
  BY <1>19 DEF CreatePartial, world, To, At, NoTree, Pending, Comparing, TypeParent,
     Parents, TypeWorker, Workers, Unforked, Fresh, Early, Verified, Failing, Ending,
     Places, Barrier, Campaign
<1>20. ASSUME Register PROVE Goal
  <2>1. CASE Raise
    BY <1>20, <2>1, RaisePending DEF Register
  <2>2. CASE ~Raise
    <3>1. p' = [p EXCEPT !.latch = "hidden", !.pc = "staged", !.pend = TRUE] /\ wk' = wk
      BY <1>20, <2>2 DEF Register
    <3>2. p'.pc = "staged"
      BY <3>1 DEF TypeParent, Parents
    <3> QED  BY <3>1, <3>2 DEF Pending, Comparing, Barrier
  <2> QED  BY <2>1, <2>2
<1>21. ASSUME RollbackLocal PROVE Goal
  BY <1>21 DEF RollbackLocal, world, To, RemoveCreated, Fails, Works, NoTree, Pending,
     Comparing, TypeParent, Parents, TypeWorker, Workers, Unforked, Fresh, Early, Verified,
     Failing, Ending, Places, Barrier, Campaign
<1>22. ASSUME RollbackEmpty PROVE Goal
  BY <1>22 DEF RollbackEmpty, world, RemoveCreated, Fails, Works, NoTree, Pending,
     Comparing, TypeParent, Parents, TypeWorker, Workers, Unforked, Fresh, Early, Verified,
     Failing, Ending, Places, Barrier, Campaign
<1>23. ASSUME Abandon PROVE Goal
  BY <1>23 DEF Abandon, world, To, Holds, Pending, Comparing, TypeParent, Parents,
     TypeWorker, Workers, Unforked, Fresh, Early, Verified, Failing, Ending, Places,
     Barrier, Campaign
<1>24. ASSUME EnterCampaign PROVE Goal
  BY <1>24 DEF EnterCampaign, world, To, At, Pending, Comparing, TypeParent, Parents,
     TypeWorker, Workers, Unforked, Fresh, Early, Verified, Failing, Ending, Places,
     Barrier, Campaign
<1>25. ASSUME CreateWorkspaces PROVE Goal
  BY <1>25 DEF CreateWorkspaces, world, At, Pending, Comparing, TypeParent, Parents,
     TypeWorker, Workers, Unforked, Fresh, Early, Verified, Failing, Ending, Places,
     Barrier, Campaign
<1>26. ASSUME HoldBags PROVE Goal
  <2>1. wk' = wk /\ (Raise \/ Read("fork"))
    BY <1>26 DEF HoldBags
  <2>2. "fork" \in Comparing
    BY DEF Comparing, Barrier
  <2> QED  BY <2>1, <2>2, RaisePending, ReadPending
<1>27. ASSUME ForkSupervisor PROVE Goal
  BY <1>27 DEF ForkSupervisor, world, To, At, NoWorker, Pending, Comparing, TypeParent,
     Parents, TypeWorker, Workers, Unforked, Fresh, Early, Verified, Failing, Ending,
     Places, Barrier, Campaign
<1>28. ASSUME AwaitResult PROVE Goal
  <2>1. wk' = wk /\ (Raise \/ Read("bags"))
    BY <1>28 DEF AwaitResult
  <2>2. "bags" \in Comparing
    BY DEF Comparing, Barrier
  <2> QED  BY <2>1, <2>2, RaisePending, ReadPending
<1>29. ASSUME CheckResult PROVE Goal
  <2>1. CASE Raise
    BY <1>29, <2>1, RaisePending DEF CheckResult, world, At
  <2>2. CASE ~Raise
    BY <1>29, <2>2 DEF CheckResult, world, To, At, Out, Pending, Comparing, TypeParent,
       Parents, TypeWorker, Workers, Unforked, Fresh, Early, Verified, Failing, Ending,
       Places, Barrier, Campaign
  <2> QED  BY <2>1, <2>2
<1>30. ASSUME RunVerifier PROVE Goal
  BY <1>30 DEF RunVerifier, world, At, Out, Fails, Works, Pending, Comparing, TypeParent,
     Parents, TypeWorker, Workers, Unforked, Fresh, Early, Verified, Failing, Ending,
     Places, Barrier, Campaign
<1>31. ASSUME DetachedVerify PROVE Goal
  <2>1. wk' = wk /\ (Raise \/ Read("snapshot"))
    BY <1>31 DEF DetachedVerify
  <2>2. "snapshot" \in Comparing
    BY DEF Comparing, Barrier
  <2> QED  BY <2>1, <2>2, RaisePending, ReadPending
<1>32. ASSUME TakeSnapshot PROVE Goal
  <2>1. CASE Raise
    BY <1>32, <2>1, RaisePending DEF TakeSnapshot
  <2>2. CASE ~Raise
    <3>1. p' = [p EXCEPT !.snap = Snapshot(Out), !.pc = "clean"] /\ wk' = wk /\ ~p.pend
      BY <1>32, <2>2 DEF TakeSnapshot, At
    <3>2. ~p'.pend
      BY <3>1 DEF TypeParent, Parents
    <3> QED  BY <3>1, <3>2 DEF Pending
  <2> QED  BY <2>1, <2>2
<1>33. ASSUME CleanWorkspaces PROVE Goal
  BY <1>33 DEF CleanWorkspaces, world, Fails, Works, Pending, Comparing, TypeParent,
     Parents, TypeWorker, Workers, Unforked, Fresh, Early, Verified, Failing, Ending,
     Places, Barrier, Campaign
<1>34. ASSUME Publish PROVE Goal
  <2>1. wk' = wk /\ (Raise \/ Read("rename"))
    BY <1>34 DEF Publish
  <2>2. "rename" \in Comparing
    BY DEF Comparing, Barrier
  <2> QED  BY <2>1, <2>2, RaisePending, ReadPending
<1>35. ASSUME RenameNoReplace PROVE Goal
  <2>1. CASE Raise
    BY <1>35, <2>1, RaisePending DEF RenameNoReplace, world, At
  <2>2. CASE ~Raise
    BY <1>35, <2>2 DEF RenameNoReplace, world, To, At, FinalTaken, Pending, Comparing,
       TypeParent, Parents, TypeWorker, Workers, Unforked, Fresh, Early, Verified, Failing,
       Ending, Places, Barrier, Campaign
  <2> QED  BY <2>1, <2>2
<1>36. ASSUME Rebaseline PROVE Goal
  BY <1>36 DEF Rebaseline, world, At, Pending, Comparing, TypeParent, Parents, TypeWorker,
     Workers, Unforked, Fresh, Early, Verified, Failing, Ending, Places, Barrier, Campaign
<1>37. ASSUME AfterPublish PROVE Goal
  <2>1. wk' = wk /\ (Raise \/ Read("commit"))
    BY <1>37 DEF AfterPublish
  <2>2. "commit" \in Comparing
    BY DEF Comparing, Barrier
  <2> QED  BY <2>1, <2>2, RaisePending, ReadPending
<1>38. ASSUME Commit PROVE Goal
  BY <1>38 DEF Commit, world, At, Pending, Comparing, TypeParent, Parents, TypeWorker,
     Workers, Unforked, Fresh, Early, Verified, Failing, Ending, Places, Barrier, Campaign
<1>39. ASSUME Reconcile PROVE Goal
  BY <1>39 DEF Reconcile, world, Out, Pending, Comparing, TypeParent, Parents, TypeWorker,
     Workers, Unforked, Fresh, Early, Verified, Failing, Ending, Places, Barrier, Campaign
<1>40. ASSUME RenameBack PROVE Goal
  BY <1>40 DEF RenameBack, world, To, Pending, Comparing, TypeParent, Parents, TypeWorker,
     Workers, Unforked, Fresh, Early, Verified, Failing, Ending, Places, Barrier, Campaign
<1>41. ASSUME Unrenamed PROVE Goal
  <2>1. p.pend = FALSE /\ wk' = wk /\ \E pc : p' = [p EXCEPT !.latch = "hidden", !.pc = pc]
    <3>1. ~p.pend
      BY <1>41 DEF Unrenamed, Pending, Comparing, Barrier
    <3>2. p.pend \in BOOLEAN
      BY DEF TypeParent, Parents
    <3> QED  BY <1>41, <3>1, <3>2 DEF Unrenamed
  <2>2. ~p'.pend
    BY <2>1 DEF TypeParent, Parents
  <2> QED  BY <2>1, <2>2 DEF Pending
<1>42. ASSUME ReconcileAgain PROVE Goal
  BY <1>42 DEF ReconcileAgain, world, Out, Pending, Comparing, TypeParent, Parents,
     TypeWorker, Workers, Unforked, Fresh, Early, Verified, Failing, Ending, Places,
     Barrier, Campaign
<1>43. ASSUME PublicationState PROVE Goal
  BY <1>43 DEF PublicationState, world, To, Out, Pending, Comparing, TypeParent, Parents,
     TypeWorker, Workers, Unforked, Fresh, Early, Verified, Failing, Ending, Places,
     Barrier, Campaign
<1>44. ASSUME UnsealForMarker PROVE Goal
  BY <1>44 DEF UnsealForMarker, world, To, At, Pending, Comparing, TypeParent, Parents,
     TypeWorker, Workers, Unforked, Fresh, Early, Verified, Failing, Ending, Places,
     Barrier, Campaign
<1>45. ASSUME Quarantine PROVE Goal
  BY <1>45 DEF Quarantine, world, To, At, Pending, Comparing, TypeParent, Parents,
     TypeWorker, Workers, Unforked, Fresh, Early, Verified, Failing, Ending, Places,
     Barrier, Campaign
<1>46. ASSUME CommitMarker PROVE Goal
  BY <1>46 DEF CommitMarker, world, To, At, Out, Holds, Pending, Comparing, TypeParent,
     Parents, TypeWorker, Workers, Unforked, Fresh, Early, Verified, Failing, Ending,
     Places, Barrier, Campaign
<1>47. ASSUME Unmarked PROVE Goal
  BY <1>47 DEF Unmarked, world, To, Holds, Pending, Comparing, TypeParent, Parents,
     TypeWorker, Workers, Unforked, Fresh, Early, Verified, Failing, Ending, Places,
     Barrier, Campaign
<1>48. ASSUME Report PROVE Goal
  BY <1>48 DEF Report, world, To, At, Holds, Pending, Comparing, TypeParent, Parents,
     TypeWorker, Workers, Unforked, Fresh, Early, Verified, Failing, Ending, Places,
     Barrier, Campaign
<1>49. ASSUME RemovePrivateTree PROVE Goal
  BY <1>49 DEF RemovePrivateTree, world, To, Fails, Works, Pending, Comparing, TypeParent,
     Parents, TypeWorker, Workers, Unforked, Fresh, Early, Verified, Failing, Ending,
     Places, Barrier, Campaign
<1>50. ASSUME Close PROVE Goal
  BY <1>50 DEF Close, world, To, Pending, Comparing, TypeParent, Parents, TypeWorker,
     Workers, Unforked, Fresh, Early, Verified, Failing, Ending, Places, Barrier, Campaign
<1>51. ASSUME WorkerRevalidate PROVE Goal
  BY <1>51 DEF WorkerRevalidate, world, Bound, WTell, HeldContent, Namespace, Pending,
     Comparing, TypeParent, Parents, TypeWorker, Workers, Unforked, Fresh, Early, Verified,
     Failing, Ending, Places, Barrier, Campaign
<1>52. ASSUME InstallMounts PROVE Goal
  <2>1. wk'.st \notin {"none", "told", "gone"} \/ ~wk'.pend
    BY <1>52, WToTyped, WTellTyped DEF InstallMounts, WAt, Quiet
  <2> QED  BY <1>52, <2>1 DEF InstallMounts, Pending
<1>53. ASSUME EnterNamespaces PROVE Goal
  <2>1. wk'.st \notin {"none", "told", "gone"} \/ ~wk'.pend
    BY <1>53, WToTyped, WTellTyped DEF EnterNamespaces, WAt, Quiet
  <2> QED  BY <1>53, <2>1 DEF EnterNamespaces, Pending
<1>54. ASSUME CopyReadiness PROVE Goal
  <2>1. wk'.st \notin {"none", "told", "gone"} \/ ~wk'.pend
    BY <1>54, WToTyped, WTellTyped DEF CopyReadiness, WAt, Quiet
  <2> QED  BY <1>54, <2>1 DEF CopyReadiness, Pending
<1>55. ASSUME StageCapsule PROVE Goal
  <2>1. wk'.st \notin {"none", "told", "gone"} \/ ~wk'.pend
    BY <1>55, WToTyped, WTellTyped DEF StageCapsule, WAt, Quiet
  <2> QED  BY <1>55, <2>1 DEF StageCapsule, Pending
<1>56. ASSUME BuildRuntime PROVE Goal
  BY <1>56 DEF BuildRuntime, world, Fails, Works, WAt, Pending, Comparing, TypeParent,
     Parents, TypeWorker, Workers, Unforked, Fresh, Early, Verified, Failing, Ending,
     Places, Barrier, Campaign
<1>57. ASSUME AuditBuild PROVE Goal
  <2>1. wk'.st \notin {"none", "told", "gone"} \/ ~wk'.pend
    BY <1>57, WToTyped, WTellTyped DEF AuditBuild, WAt, Quiet
  <2> QED  BY <1>57, <2>1 DEF AuditBuild, Pending
<1>58. ASSUME PairIndex PROVE Goal
  BY <1>58 DEF PairIndex, world, WAt, WTell, Pending, Comparing, TypeParent, Parents,
     TypeWorker, Workers, Unforked, Fresh, Early, Verified, Failing, Ending, Places,
     Barrier, Campaign
<1>59. ASSUME RosRun PROVE Goal
  BY <1>59 DEF RosRun, world, WTo, WAt, Pending, Comparing, TypeParent, Parents, TypeWorker,
     Workers, Unforked, Fresh, Early, Verified, Failing, Ending, Places, Barrier, Campaign
<1>60. ASSUME AcceptRun PROVE Goal
  BY <1>60 DEF AcceptRun, world, Out, WAt, WTell, Pending, Comparing, TypeParent, Parents,
     TypeWorker, Workers, Unforked, Fresh, Early, Verified, Failing, Ending, Places,
     Barrier, Campaign
<1>61. ASSUME Assemble PROVE Goal
  <2>1. wk'.st \notin {"none", "told", "gone"} \/ ~wk'.pend
    BY <1>61, WToTyped, WTellTyped DEF Assemble, WAt, Quiet
  <2> QED  BY <1>61, <2>1 DEF Assemble, Pending
<1>62. ASSUME OfflineReplay PROVE Goal
  <2>1. wk'.st \notin {"none", "told", "gone"} \/ ~wk'.pend
    BY <1>62, WToTyped, WTellTyped DEF OfflineReplay, WAt, Quiet
  <2> QED  BY <1>62, <2>1 DEF OfflineReplay, Pending
<1>63. ASSUME SealArtifact PROVE Goal
  <2>1. wk'.st \notin {"none", "told", "gone"} \/ ~wk'.pend
    BY <1>63, WToTyped, WTellTyped DEF SealArtifact, WAt, Quiet
  <2> QED  BY <1>63, <2>1 DEF SealArtifact, Pending
<1>64. ASSUME WorkerPasses PROVE Goal
  <2>1. wk'.st \notin {"none", "told", "gone"} \/ ~wk'.pend
    BY <1>64, WToTyped, WTellTyped DEF WorkerPasses, WAt, Quiet
  <2> QED  BY <1>64, <2>1 DEF WorkerPasses, Pending
<1>65. ASSUME NamespaceEnds PROVE Goal
  BY <1>65 DEF NamespaceEnds, world, Fails, Works, WorkerAlive, Pending, Comparing,
     TypeParent, Parents, TypeWorker, Workers, Unforked, Fresh, Early, Verified, Failing,
     Ending, Places, Barrier, Campaign
<1>66. ASSUME SupervisorForwards PROVE Goal
  BY <1>66 DEF SupervisorForwards, world, Pending, Comparing, TypeParent, Parents,
     TypeWorker, Workers, Unforked, Fresh, Early, Verified, Failing, Ending, Places,
     Barrier, Campaign
<1>67. ASSUME Edit PROVE Goal
  BY <1>67 DEF Edit, Pending, Comparing, TypeParent, Parents, TypeWorker, Workers, Unforked,
     Fresh, Early, Verified, Failing, Ending, Places, Barrier, Campaign
<1>68. ASSUME SpoilBag PROVE Goal
  BY <1>68 DEF SpoilBag, Pending, Comparing, TypeParent, Parents, TypeWorker, Workers,
     Unforked, Fresh, Early, Verified, Failing, Ending, Places, Barrier, Campaign
<1>69. ASSUME OtherLocks PROVE Goal
  BY <1>69 DEF OtherLocks, Pending, Comparing, TypeParent, Parents, TypeWorker, Workers,
     Unforked, Fresh, Early, Verified, Failing, Ending, Places, Barrier, Campaign
<1>70. ASSUME StrayWrites PROVE Goal
  BY <1>70 DEF StrayWrites, Out, Pending, Comparing, TypeParent, Parents, TypeWorker,
     Workers, Unforked, Fresh, Early, Verified, Failing, Ending, Places, Barrier, Campaign
<1>71. ASSUME Interrupt PROVE Goal
  <2>1. CASE Raise
    BY <1>71, <2>1, RaisePending DEF Interrupt, world, At, Fails
  <2>2. CASE ~Raise
    BY <1>71, <2>2 DEF Interrupt, world, Fails, Pending, Comparing, TypeParent, Parents,
       TypeWorker, Workers, Unforked, Fresh, Early, Verified, Failing, Ending, Places,
       Barrier, Campaign
  <2> QED  BY <2>1, <2>2
<1>72. ASSUME WorkerRaises PROVE Goal
  BY <1>72 DEF WorkerRaises, world, Fails, WTell, WorkerAlive, Pending, Comparing,
     TypeParent, Parents, TypeWorker, Workers, Unforked, Fresh, Early, Verified, Failing,
     Ending, Places, Barrier, Campaign
<1>73. ASSUME CommandStrays PROVE Goal
  BY <1>73 DEF CommandStrays, world, Fails, Pending, Comparing, TypeParent, Parents,
     TypeWorker, Workers, Unforked, Fresh, Early, Verified, Failing, Ending, Places,
     Barrier, Campaign
<1>74. ASSUME SupervisorDies PROVE Goal
  BY <1>74 DEF SupervisorDies, world, Fails, Pending, Comparing, TypeParent, Parents,
     TypeWorker, Workers, Unforked, Fresh, Early, Verified, Failing, Ending, Places,
     Barrier, Campaign
<1>75. ASSUME Kill PROVE Goal
  BY <1>75 DEF Kill, world, Fails, Pending, Comparing, TypeParent, Parents, TypeWorker,
     Workers, Unforked, Fresh, Early, Verified, Failing, Ending, Places, Barrier, Campaign
<1>76. ASSUME UNCHANGED vars PROVE Goal
  BY <1>76 DEF vars, Pending, Comparing, TypeParent, Parents, TypeWorker, Workers, Unforked,
     Fresh, Early, Verified, Failing, Ending, Places, Barrier, Campaign
<1> HIDE DEF Goal
<1>77. ASSUME BarrierStep PROVE Goal
  BY <1>77, <1>4, <1>5, <1>6, <1>7, <1>8, <1>9, <1>10, <1>11, <1>12, <1>13, <1>14, <1>15,
     <1>16, <1>17 DEF BarrierStep
<1>78. ASSUME OutputStep PROVE Goal
  BY <1>78, <1>18, <1>19, <1>20, <1>21, <1>22, <1>23 DEF OutputStep
<1>79. ASSUME CampaignStep PROVE Goal
  BY <1>79, <1>24, <1>25, <1>26, <1>27, <1>28, <1>29, <1>30, <1>31, <1>32, <1>33 DEF
     CampaignStep
<1>80. ASSUME PublishStep PROVE Goal
  BY <1>80, <1>34, <1>35, <1>36, <1>37, <1>38, <1>39, <1>40, <1>41, <1>42 DEF PublishStep
<1>81. ASSUME EndStep PROVE Goal
  BY <1>81, <1>43, <1>44, <1>45, <1>46, <1>47, <1>48, <1>49, <1>50 DEF EndStep
<1>82. ASSUME WorkerStep PROVE Goal
  BY <1>82, <1>51, <1>52, <1>53, <1>54, <1>55, <1>56, <1>57, <1>58, <1>59, <1>60, <1>61,
     <1>62, <1>63, <1>64, <1>65, <1>66 DEF WorkerStep
<1>83. ASSUME Mishap PROVE Goal
  BY <1>83, <1>67, <1>68, <1>69, <1>70, <1>71, <1>72, <1>73, <1>74, <1>75 DEF Mishap
<1>84. ASSUME ParentStep PROVE Goal
  BY <1>84, <1>3, <1>77, <1>78, <1>79, <1>80, <1>81 DEF ParentStep
<1>85. ASSUME Next PROVE Goal
  BY <1>85, <1>84, <1>1, <1>2, <1>82, <1>83 DEF Next
<1> QED  BY <1>76, <1>85 DEF Goal


-----------------------------------------------------------------------------
\* What a step does to the directories: it keeps their types, the campaigns that
\* are over, and a directory that is committed.

Keeps == \A r \in 1 .. MaxRuns :
            outcome[r] = "passed" \/ (r = run /\ p.committed) => tree'[r] = tree[r]

LEMMA Written ==
    ASSUME TypeWorld, TypeTree, Others, run > 0, run' = run, NEW t \in Trees, NEW o \in Outcomes,
           tree' = [tree EXCEPT ![run] = t], outcome' = [outcome EXCEPT ![run] = o],
           outcome[run] = "passed" \/ p.committed => t = tree[run]
    PROVE  TypeTree' /\ Others' /\ Keeps /\ tree'[run'] = t /\ outcome'[run'] = o
<1>1. run \in 1 .. MaxRuns
  BY DEF TypeWorld
<1>2. TypeTree' /\ tree'[run'] = t /\ outcome'[run'] = o
  BY <1>1 DEF TypeTree
<1>3. \A r \in 1 .. MaxRuns : r # run => tree'[r] = tree[r] /\ outcome'[r] = outcome[r]
  BY DEF TypeTree
<1>4. Others'
  BY <1>3, <1>1 DEF Others, Told, Contents, Intact
<1>5. Keeps
  BY <1>1, <1>2, <1>3 DEF Keeps
<1> QED  BY <1>2, <1>4, <1>5

LEMMA Unwritten ==
    ASSUME TypeTree, Others, UNCHANGED <<tree, outcome, run>>
    PROVE  TypeTree' /\ Others' /\ Keeps
BY DEF TypeTree, Others, Told, Contents, Intact, Keeps

\* A directory that is committed or whose campaign passed is no longer handled.
LEMMA Finished ==
    ASSUME Present, run > 0, outcome[run] = "passed" \/ p.committed
    PROVE  p.pc \in {"report", "state"} \cup Ending /\ wk.st = "gone"
BY DEF Present, EarlyInv, VerdictInv, IntactInv, OutcomeInv, Told, Contents, Intact

LEMMA RaisedKeeps ==
    ASSUME IInv, Raised
    PROVE  Present'
<1>1. TypeParent /\ Present /\ p.pc \in Raisable
  BY DEF IInv, TypeOK, Raised
<1>2. /\ UNCHANGED <<tree, outcome, run>> /\ wk'.st = wk.st
      /\ p' = [p EXCEPT !.pc = Handler(p.pc), !.pend = FALSE, !.failed = TRUE]
  BY DEF Raised, Raise, IInv, TypeOK, TypeWorker, Workers
<1>3. p'.pc = Handler(p.pc) /\ p'.failed /\ p'.verdict = p.verdict /\ p'.committed = p.committed
  BY <1>1, <1>2 DEF TypeParent, Parents
<1>4. Handler(p.pc) \notin Verified \cup Ending \cup {"verify", "bags", "await", "report"}
  BY DEF Handler, Verified, Ending
<1>5. Handler(p.pc) \in Unforked => p.pc \in Unforked
  BY DEF Handler, Unforked, Barrier
<1>6. Handler(p.pc) \in Fresh => p.pc \in Fresh
  BY DEF Handler, Fresh, Barrier
<1>7. p.pc = "report" => Handler(p.pc) = "state"
  BY DEF Handler, Barrier, Campaign
<1>8. p.pc \notin {"state"} \cup Ending
  BY <1>1 DEF Raisable, Ending
<1> SUFFICES ASSUME run > 0
             PROVE  EarlyInv(tree[run])' /\ VerdictInv(tree[run])' /\ IntactInv(tree[run])' /\ OutcomeInv(tree[run])'
  BY <1>2 DEF Present
<1>a. EarlyInv(tree[run])'
  BY <1>1, <1>2, <1>3, <1>4, <1>5, <1>6 DEF Present, EarlyInv, Early
<1>b. VerdictInv(tree[run])'
  BY <1>1, <1>2, <1>3 DEF Present, VerdictInv, Contents
<1>c. IntactInv(tree[run])'
  <2>1. Handler(p.pc) = "clean" => p.pc \in Campaign
    BY DEF Handler
  <2>2. p.pc \in Campaign => tree[run].at # "final"
    BY <1>1 DEF Present, EarlyInv, IntactInv, Campaign, Early, Unforked
  <2> QED  BY <1>1, <1>2, <1>3, <1>4, <1>7, <1>8, <2>1, <2>2 DEF Present, IntactInv, Intact,
              Verified, Ending
<1>d. OutcomeInv(tree[run])'
  BY <1>1, <1>2, <1>3, <1>4, <1>8 DEF Present, OutcomeInv, Told, Intact
<1> QED  BY <1>a, <1>b, <1>c, <1>d

LEMMA StraightKeeps ==
    ASSUME IInv, Straight
    PROVE  Present'
<1>1. /\ TypeParent /\ Present /\ UNCHANGED <<tree, outcome, run, wk>>
      /\ p'.verdict = p.verdict /\ p'.committed = p.committed
  BY DEF IInv, TypeOK, Straight
<1> SUFFICES ASSUME run > 0
             PROVE  EarlyInv(tree[run])' /\ VerdictInv(tree[run])' /\ IntactInv(tree[run])' /\ OutcomeInv(tree[run])'
  BY <1>1 DEF Present
<1>a. EarlyInv(tree[run])'
  BY <1>1 DEF Straight, Present, EarlyInv, Early, Unforked, Fresh, Barrier, Ending
<1>b. VerdictInv(tree[run])'
  BY <1>1 DEF Present, VerdictInv, Contents
<1>c. IntactInv(tree[run])'
  <2>1. /\ EarlyInv(tree[run]) /\ IntactInv(tree[run])
    BY <1>1 DEF Present
  <2>2. /\ \/ p'.pc \in Verified
           \/ p'.pc = "verify" /\ p'.verdict = "pass"
           \/ p'.pc = "clean" /\ ~p'.failed
           \/ p'.committed
           => p.verdict = "pass" /\ Intact(tree[run])
    BY <1>1, <2>1 DEF Straight, EarlyInv, IntactInv, Early, Unforked, Fresh, Barrier, Verified,
       Ending
  <2>3. p'.pc \in {"renamed", "published", "commit", "report"} \/ p'.committed => tree[run].at = "final"
    BY <1>1, <2>1 DEF Straight, EarlyInv, IntactInv, Early, Unforked, Fresh, Barrier, Verified,
       Ending
  <2>4. p'.committed => p'.pc \in {"report", "state"} \cup Ending
    BY <1>1, <2>1 DEF Straight, IntactInv, Early, Unforked, Fresh, Barrier, Verified, Ending
  <2>5. p'.pc = "report" => p'.committed
    BY <1>1, <2>1 DEF Straight, IntactInv, Early, Unforked, Fresh, Barrier, Verified, Ending
  <2>6. p'.pc \in {"snapshot", "clean", "publish", "rename"} => tree[run].at # "final"
    BY <1>1, <2>1 DEF Straight, EarlyInv, IntactInv, Early, Unforked, Fresh, Barrier, Verified,
       Ending
  <2> QED  BY <1>1, <2>2, <2>3, <2>4, <2>5, <2>6 DEF IntactInv, Intact
<1>d. OutcomeInv(tree[run])'
  BY <1>1 DEF Straight, Present, OutcomeInv, Told, Intact, Places, Early, Unforked, Fresh,
     Barrier, Verified, Failing, Ending
<1> QED  BY <1>a, <1>b, <1>c, <1>d

LEMMA BesideKeeps ==
    ASSUME IInv, Beside
    PROVE  TypeTree' /\ Others' /\ Keeps /\ Present'
<1>1. /\ TypeParent /\ TypeWorker /\ TypeTree /\ TypeWorld /\ Present /\ Others
      /\ UNCHANGED <<p, outcome, run>>
  BY DEF IInv, TypeOK, Beside
<1>2. CASE Quiet
  <2>1. tree' = tree /\ wk'.st = wk.st
    BY <1>2 DEF Beside
  <2>2. Present'
    BY <1>1, <2>1 DEF Present, EarlyInv, VerdictInv, IntactInv, OutcomeInv, Told, Contents, Intact
  <2> QED  BY <1>1, <2>1, <2>2, Unwritten
<1>3. CASE ~Quiet
  <2>1. run > 0 /\ run \in 1 .. MaxRuns
    BY <1>1, <1>3 DEF TypeWorker, TypeWorld
  <2>2. PICK t \in Trees : /\ tree' = [tree EXCEPT ![run] = t] /\ t.at = tree[run].at
                           /\ tree[run].marker = "trusted" => t.marker = "trusted"
    BY <1>3 DEF Beside, Out
  <2>3. wk.st # "gone" /\ wk.st # "none"
    BY <1>3 DEF Quiet
  <2>4. /\ p.verdict # "pass" /\ tree[run].at # "final" /\ ~p.committed /\ p.pc \notin Unforked
        /\ outcome[run] # "passed" /\ p.pc \notin {"bags", "verify"} \cup Verified
        /\ ~(p.pc = "clean" /\ ~p.failed)
    BY <1>1, <2>1, <2>3 DEF Present, EarlyInv, VerdictInv, IntactInv, OutcomeInv, Told,
       Contents, Intact, Ending
  <2>5. outcome[run] \in Outcomes /\ outcome' = [outcome EXCEPT ![run] = outcome[run]]
    BY <1>1, <2>1 DEF TypeTree
  <2>6. TypeTree' /\ Others' /\ Keeps /\ tree'[run'] = t
    BY <1>1, <2>1, <2>2, <2>4, <2>5, Written
  <2>7. EarlyInv(tree[run])'
    BY <1>1, <2>1, <2>2, <2>4, <2>6 DEF Present, EarlyInv, Early, Unforked, Fresh
  <2>8. VerdictInv(tree[run])' /\ IntactInv(tree[run])'
    BY <1>1, <2>1, <2>2, <2>4, <2>6 DEF Present, VerdictInv, IntactInv
  <2>9. OutcomeInv(tree[run])'
    BY <1>1, <2>1, <2>2, <2>4, <2>6 DEF Present, OutcomeInv, Told
  <2> QED  BY <1>1, <2>6, <2>7, <2>8, <2>9 DEF Present
<1> QED  BY <1>2, <1>3


LEMMA NoTreeTyped == NoTree \in Trees
<1>1. <<>> \in Seq(Nat \X Nat)
  OBVIOUS
<1> QED  BY <1>1 DEF NoTree, Trees
\* The steps that matter, one by one: what they write, and why the campaign's
\* invariant still holds of it.
LEMMA DecisiveKeeps ==
    ASSUME IInv, Decisive
    PROVE  TypeTree' /\ Others' /\ Keeps /\ Present'
<1> DEFINE Goal == TypeTree' /\ Others' /\ Keeps /\ Present'
<1>1. TypeParent /\ TypeWorker /\ TypeTree /\ TypeWorld /\ Present /\ Others
  BY DEF IInv, TypeOK
<1>2. run > 0 => /\ run \in 1 .. MaxRuns /\ tree[run] \in Trees /\ outcome[run] \in Outcomes
                 /\ tree' = tree => tree' = [tree EXCEPT ![run] = tree[run]]
                 /\ outcome' = outcome => outcome' = [outcome EXCEPT ![run] = outcome[run]]
  BY <1>1 DEF TypeWorld, TypeTree
<1>3. run > 0 /\ p.pc \notin {"report", "state"} \cup Ending => outcome[run] # "passed" /\ ~p.committed
  BY <1>1, Finished
<1>4. ASSUME Start PROVE Goal
  <2>1. UNCHANGED <<tree, outcome>> /\ run' = run + 1 /\ run' \in 1 .. MaxRuns
    BY <1>1, <1>4 DEF Start, TypeWorld
  <2>2. /\ p'.pc = "open" /\ p'.verdict = "none" /\ ~p'.committed /\ ~p'.failed /\ wk'.st = "none"
        /\ p.pc = "idle"
    BY <1>4 DEF Start, At, NoParent, NoWorker
  <2>3. TypeTree' /\ Keeps
    BY <1>1, <2>1 DEF TypeTree, Keeps
  <2>4. run > 0 => Told(tree[run], outcome[run]) /\ (tree[run].at = "final" => Contents(tree[run]))
    BY <1>1, <2>2 DEF Present, VerdictInv, OutcomeInv, Ending
  <2>5. Others'
    <3> SUFFICES ASSUME NEW r \in 1 .. MaxRuns
                 PROVE  /\ r < run' => Told(tree[r], outcome[r]) /\ (tree[r].at = "final" => Contents(tree[r]))
                        /\ r > run' => tree[r] = NoTree /\ outcome[r] = "none"
      BY <2>1 DEF Others, Told, Contents, Intact
    <3>1. r > run' => r > run
      BY <1>1, <2>1 DEF TypeWorld
    <3>2. r < run' => r < run \/ (r = run /\ run > 0)
      BY <1>1, <2>1 DEF TypeWorld
    <3> QED  BY <1>1, <2>4, <3>1, <3>2 DEF Others
  <2>6. tree'[run'] = NoTree /\ outcome'[run'] = "none"
    BY <1>1, <2>1 DEF Others, TypeWorld
  <2>7. Present'
    BY <2>2, <2>6 DEF Present, EarlyInv, VerdictInv, IntactInv, OutcomeInv, Early, Unforked,
       Fresh, Verified, Ending, NoTree
  <2> QED  BY <2>3, <2>5, <2>7
<1>5. ASSUME Refuse PROVE Goal
  <2>1. p.pc = "refuse" /\ run > 0 /\ run' = run
    BY <1>1, <1>5 DEF Refuse, At, TypeParent
  <2>2. p'.pc = "remove" /\ p'.verdict = p.verdict /\ p'.committed = p.committed /\ p'.failed = p.failed /\ wk'.st = wk.st
    <3>1. p' = [p EXCEPT !.pc = "remove"] /\ wk' = wk
      BY <1>5 DEF Refuse, To, At, Works, Fails
    <3> QED  BY <1>1, <1>5, <3>1 DEF TypeParent, Parents, TypeWorker, Workers
  <2> DEFINE t == tree[run]
  <2> DEFINE o == "refused"
  <2>3. tree' = [tree EXCEPT ![run] = t] /\ outcome' = [outcome EXCEPT ![run] = o]
    BY <1>2, <1>5, <2>1 DEF Refuse, Holds, Out, To
  <2>4. t \in Trees /\ o \in Outcomes
    BY <1>2, <2>1 DEF Trees, Outcomes, NoTree
  <2>5. outcome[run] # "passed" /\ ~p.committed /\ t.at = "none" /\ p.verdict = "none" /\ o = "refused"
    BY <1>1, <1>2, <1>3, <1>5, <2>1, <2>4 DEF Present, EarlyInv, VerdictInv, IntactInv,
       OutcomeInv, Told, Contents, Intact, Early, Unforked, Fresh, Barrier, Verified,
       Ending, TypeTree, Trees, NoTree
  <2> HIDE DEF t, o
  <2>8. TypeTree' /\ Others' /\ Keeps /\ tree'[run'] = t /\ outcome'[run'] = o
    BY <1>1, <2>1, <2>3, <2>4, <2>5, Written
  <2>9. Present'
    BY <1>1, <2>1, <2>2, <2>5, <2>8 DEF Present, EarlyInv, VerdictInv, IntactInv, OutcomeInv,
       Told, Contents, Intact, Early, Unforked, Fresh, Barrier, Verified, Ending
  <2> QED  BY <2>8, <2>9
<1>6. ASSUME CreatePartial PROVE Goal
  <2>1. p.pc = "partial" /\ run > 0 /\ run' = run
    BY <1>1, <1>6 DEF CreatePartial, At, TypeParent
  <2>2. p'.pc = "register" /\ p'.verdict = p.verdict /\ p'.committed = p.committed /\ p'.failed = p.failed /\ wk'.st = wk.st
    <3>1. p' = [p EXCEPT !.pc = "register"] /\ wk' = wk
      BY <1>6 DEF CreatePartial, To, At, Works, Fails
    <3> QED  BY <1>1, <1>6, <3>1 DEF TypeParent, Parents, TypeWorker, Workers
  <2> DEFINE t == [NoTree EXCEPT !.at = "hidden", !.mode = "open"]
  <2> DEFINE o == outcome[run]
  <2>3. tree' = [tree EXCEPT ![run] = t] /\ outcome' = [outcome EXCEPT ![run] = o]
    BY <1>2, <1>6, <2>1 DEF CreatePartial, Holds, Out, To
  <2>4. t \in Trees /\ o \in Outcomes
    <3>1. t \in Trees
      BY NoTreeTyped DEF Trees
    <3> QED  BY <1>2, <2>1, <3>1
  <2>5. outcome[run] # "passed" /\ ~p.committed /\ t.at = "hidden" /\ p.verdict = "none" /\ o = "none" /\ wk.st = "none"
    BY <1>1, <1>2, <1>3, <1>6, <2>1, <2>4 DEF Present, EarlyInv, VerdictInv, IntactInv,
       OutcomeInv, Told, Contents, Intact, Early, Unforked, Fresh, Barrier, Verified,
       Ending, TypeTree, Trees, NoTree
  <2> HIDE DEF t, o
  <2>8. TypeTree' /\ Others' /\ Keeps /\ tree'[run'] = t /\ outcome'[run'] = o
    BY <1>1, <2>1, <2>3, <2>4, <2>5, Written
  <2>9. Present'
    BY <1>1, <2>1, <2>2, <2>5, <2>8 DEF Present, EarlyInv, VerdictInv, IntactInv, OutcomeInv,
       Told, Contents, Intact, Early, Unforked, Fresh, Barrier, Verified, Ending
  <2> QED  BY <2>8, <2>9
<1>7. ASSUME RollbackLocal PROVE Goal
  <2>1. p.pc = "unmake" /\ run > 0 /\ run' = run
    BY <1>1, <1>7 DEF RollbackLocal, At, TypeParent
  <2>2. p'.pc = "abandon" /\ p'.verdict = p.verdict /\ p'.committed = p.committed /\ p'.failed = p.failed /\ wk'.st = wk.st
    <3>1. p' = [p EXCEPT !.pc = "abandon"] /\ wk' = wk
      BY <1>7 DEF RollbackLocal, To, At, Works, Fails
    <3> QED  BY <1>1, <1>7, <3>1 DEF TypeParent, Parents, TypeWorker, Workers
  <2> DEFINE t == IF tree' = tree THEN tree[run] ELSE NoTree
  <2> DEFINE o == outcome[run]
  <2>3. tree' = [tree EXCEPT ![run] = t] /\ outcome' = [outcome EXCEPT ![run] = o]
    BY <1>2, <1>7, <2>1 DEF RollbackLocal, Holds, Out, To, RemoveCreated
  <2>4. t \in Trees /\ o \in Outcomes
    BY <1>2, <2>1 DEF Trees, Outcomes, NoTree
  <2>5. outcome[run] # "passed" /\ ~p.committed /\ t.at # "final" /\ p.verdict = "none" /\ o = "none" /\ wk.st = "none"
    BY <1>1, <1>2, <1>3, <1>7, <2>1, <2>4 DEF Present, EarlyInv, VerdictInv, IntactInv,
       OutcomeInv, Told, Contents, Intact, Early, Unforked, Fresh, Barrier, Verified,
       Ending, TypeTree, Trees, NoTree
  <2> HIDE DEF t, o
  <2>8. TypeTree' /\ Others' /\ Keeps /\ tree'[run'] = t /\ outcome'[run'] = o
    BY <1>1, <2>1, <2>3, <2>4, <2>5, Written
  <2>9. Present'
    BY <1>1, <2>1, <2>2, <2>5, <2>8 DEF Present, EarlyInv, VerdictInv, IntactInv, OutcomeInv,
       Told, Contents, Intact, Early, Unforked, Fresh, Barrier, Verified, Ending
  <2> QED  BY <2>8, <2>9
<1>8. ASSUME RollbackEmpty PROVE Goal
  <2>1. p.pc = "unregister" /\ run > 0 /\ run' = run
    BY <1>1, <1>8 DEF RollbackEmpty, At, TypeParent
  <2>2. p'.pc = "abandon" /\ p'.verdict = p.verdict /\ p'.committed = p.committed /\ p'.failed = p.failed /\ wk'.st = wk.st
    <3>1. p' = [p EXCEPT !.pc = "abandon", !.latch = "none"] /\ wk' = wk
      BY <1>8 DEF RollbackEmpty, To, At, Works, Fails
    <3> QED  BY <1>1, <1>8, <3>1 DEF TypeParent, Parents, TypeWorker, Workers
  <2> DEFINE t == IF tree' = tree THEN tree[run] ELSE NoTree
  <2> DEFINE o == outcome[run]
  <2>3. tree' = [tree EXCEPT ![run] = t] /\ outcome' = [outcome EXCEPT ![run] = o]
    BY <1>2, <1>8, <2>1 DEF RollbackEmpty, Holds, Out, To, RemoveCreated
  <2>4. t \in Trees /\ o \in Outcomes
    BY <1>2, <2>1 DEF Trees, Outcomes, NoTree
  <2>5. outcome[run] # "passed" /\ ~p.committed /\ t.at # "final" /\ p.verdict = "none" /\ o = "none" /\ wk.st = "none"
    BY <1>1, <1>2, <1>3, <1>8, <2>1, <2>4 DEF Present, EarlyInv, VerdictInv, IntactInv,
       OutcomeInv, Told, Contents, Intact, Early, Unforked, Fresh, Barrier, Verified,
       Ending, TypeTree, Trees, NoTree
  <2> HIDE DEF t, o
  <2>8. TypeTree' /\ Others' /\ Keeps /\ tree'[run'] = t /\ outcome'[run'] = o
    BY <1>1, <2>1, <2>3, <2>4, <2>5, Written
  <2>9. Present'
    BY <1>1, <2>1, <2>2, <2>5, <2>8 DEF Present, EarlyInv, VerdictInv, IntactInv, OutcomeInv,
       Told, Contents, Intact, Early, Unforked, Fresh, Barrier, Verified, Ending
  <2> QED  BY <2>8, <2>9
<1>9. ASSUME Abandon PROVE Goal
  <2>1. p.pc = "abandon" /\ run > 0 /\ run' = run
    BY <1>1, <1>9 DEF Abandon, At, TypeParent
  <2>2. p'.pc = "close" /\ p'.verdict = p.verdict /\ p'.committed = p.committed /\ p'.failed = p.failed /\ wk'.st = wk.st
    <3>1. p' = [p EXCEPT !.pc = "close"] /\ wk' = wk
      BY <1>9 DEF Abandon, To, At, Works, Fails
    <3> QED  BY <1>1, <1>9, <3>1 DEF TypeParent, Parents, TypeWorker, Workers
  <2> DEFINE t == tree[run]
  <2> DEFINE o == "raised"
  <2>3. tree' = [tree EXCEPT ![run] = t] /\ outcome' = [outcome EXCEPT ![run] = o]
    BY <1>2, <1>9, <2>1 DEF Abandon, Holds, Out, To
  <2>4. t \in Trees /\ o \in Outcomes
    BY <1>2, <2>1 DEF Trees, Outcomes, NoTree
  <2>5. outcome[run] # "passed" /\ ~p.committed /\ o = "raised" /\ t.at # "final" /\ p.verdict = "none"
    BY <1>1, <1>2, <1>3, <1>9, <2>1, <2>4 DEF Present, EarlyInv, VerdictInv, IntactInv,
       OutcomeInv, Told, Contents, Intact, Early, Unforked, Fresh, Barrier, Verified,
       Ending, TypeTree, Trees, NoTree
  <2> HIDE DEF t, o
  <2>8. TypeTree' /\ Others' /\ Keeps /\ tree'[run'] = t /\ outcome'[run'] = o
    BY <1>1, <2>1, <2>3, <2>4, <2>5, Written
  <2>9. Present'
    BY <1>1, <2>1, <2>2, <2>5, <2>8 DEF Present, EarlyInv, VerdictInv, IntactInv, OutcomeInv,
       Told, Contents, Intact, Early, Unforked, Fresh, Barrier, Verified, Ending
  <2> QED  BY <2>8, <2>9
<1>10. ASSUME ForkSupervisor PROVE Goal
  <2>1. p.pc = "fork" /\ run > 0 /\ run' = run
    BY <1>1, <1>10 DEF ForkSupervisor, At, TypeParent
  <2>2. p'.pc = "await" /\ p'.verdict = p.verdict /\ p'.committed = p.committed /\ p'.failed = p.failed /\ wk'.st = "enter"
    <3>1. p' = [p EXCEPT !.pc = "await"] /\ wk' = [NoWorker EXCEPT !.st = "enter", !.sup = "up"]
      BY <1>10 DEF ForkSupervisor, To, At, Works, Fails
    <3> QED  BY <1>1, <1>10, <3>1 DEF NoWorker, TypeParent, Parents, TypeWorker, Workers
  <2> DEFINE t == tree[run]
  <2> DEFINE o == outcome[run]
  <2>3. tree' = [tree EXCEPT ![run] = t] /\ outcome' = [outcome EXCEPT ![run] = o]
    BY <1>2, <1>10, <2>1 DEF ForkSupervisor, Holds, Out, To
  <2>4. t \in Trees /\ o \in Outcomes
    BY <1>2, <2>1 DEF Trees, Outcomes, NoTree
  <2>5. outcome[run] # "passed" /\ ~p.committed /\ t.at # "final" /\ p.verdict = "none" /\ o = "none"
    BY <1>1, <1>2, <1>3, <1>10, <2>1, <2>4 DEF Present, EarlyInv, VerdictInv, IntactInv,
       OutcomeInv, Told, Contents, Intact, Early, Unforked, Fresh, Barrier, Verified,
       Ending, TypeTree, Trees, NoTree
  <2> HIDE DEF t, o
  <2>8. TypeTree' /\ Others' /\ Keeps /\ tree'[run'] = t /\ outcome'[run'] = o
    BY <1>1, <2>1, <2>3, <2>4, <2>5, Written
  <2>9. Present'
    BY <1>1, <2>1, <2>2, <2>5, <2>8 DEF Present, EarlyInv, VerdictInv, IntactInv, OutcomeInv,
       Told, Contents, Intact, Early, Unforked, Fresh, Barrier, Verified, Ending
  <2> QED  BY <2>8, <2>9
<1>11. ASSUME RunVerifier PROVE Goal
  <2>1. p.pc = "verify" /\ run > 0 /\ run' = run
    BY <1>1, <1>11 DEF RunVerifier, At, TypeParent
  <2>2. /\ p'.pc = p.pc /\ p'.verdict \in {"pass", "fail"} /\ p'.committed = p.committed /\ p'.failed = p.failed
        /\ wk'.st = wk.st /\ p.verdict = "none" /\ (p'.verdict = "pass" => Accepts(Out))
    <3>1. /\ wk' = wk /\ p.verdict = "none"
          /\ \E v \in {"pass", "fail"} : p' = [p EXCEPT !.verdict = v] /\ (v = "pass" => Accepts(Out))
      BY <1>11 DEF RunVerifier, To, At, Works, Fails
    <3> QED  BY <1>1, <1>11, <3>1 DEF TypeParent, Parents, TypeWorker, Workers
  <2> DEFINE t == tree[run]
  <2> DEFINE o == outcome[run]
  <2>3. tree' = [tree EXCEPT ![run] = t] /\ outcome' = [outcome EXCEPT ![run] = o]
    BY <1>2, <1>11, <2>1 DEF RunVerifier, Holds, Out, To
  <2>4. t \in Trees /\ o \in Outcomes
    BY <1>2, <2>1 DEF Trees, Outcomes, NoTree
  <2>5. outcome[run] # "passed" /\ ~p.committed /\ t = tree[run] /\ t.at # "final" /\ o = "none" /\ wk.st = "gone" /\ (Accepts(Out) => Contents(t) /\ Intact(t))
    BY <1>1, <1>2, <1>3, <1>11, <2>1, <2>4 DEF Present, EarlyInv, VerdictInv, IntactInv,
       OutcomeInv, Told, Contents, Intact, Early, Unforked, Fresh, Barrier, Verified,
       Ending, TypeTree, Trees, NoTree, Accepts, Out
  <2> HIDE DEF t, o
  <2>8. TypeTree' /\ Others' /\ Keeps /\ tree'[run'] = t /\ outcome'[run'] = o
    BY <1>1, <2>1, <2>3, <2>4, <2>5, Written
  <2>9. Present'
    BY <1>1, <2>1, <2>2, <2>5, <2>8 DEF Present, EarlyInv, VerdictInv, IntactInv, OutcomeInv,
       Told, Contents, Intact, Early, Unforked, Fresh, Barrier, Verified, Ending
  <2> QED  BY <2>8, <2>9
<1>12. ASSUME RenameNoReplace, ~Raise PROVE Goal
  <2>1. p.pc = "rename" /\ run > 0 /\ run' = run
    BY <1>1, <1>12 DEF RenameNoReplace, At, TypeParent
  <2>2. p'.pc = "renamed" /\ p'.verdict = p.verdict /\ p'.committed = p.committed /\ p'.failed = p.failed /\ wk'.st = wk.st
    <3>1. p' = [p EXCEPT !.pc = "renamed"] /\ wk' = wk
      BY <1>12 DEF RenameNoReplace, To, At, Works, Fails
    <3> QED  BY <1>1, <1>12, <3>1 DEF TypeParent, Parents, TypeWorker, Workers
  <2> DEFINE t == [tree[run] EXCEPT !.at = "final"]
  <2> DEFINE o == outcome[run]
  <2>3. tree' = [tree EXCEPT ![run] = t] /\ outcome' = [outcome EXCEPT ![run] = o]
    BY <1>2, <1>12, <2>1 DEF RenameNoReplace, Holds, Out, To
  <2>4. t \in Trees /\ o \in Outcomes
    BY <1>2, <2>1 DEF Trees, Outcomes, NoTree
  <2>5. outcome[run] # "passed" /\ ~p.committed /\ t.at = "final" /\ Intact(t) /\ Contents(t) /\ p.verdict = "pass" /\ wk.st = "gone" /\ o = "none"
    BY <1>1, <1>2, <1>3, <1>12, <2>1, <2>4 DEF Present, EarlyInv, VerdictInv, IntactInv,
       OutcomeInv, Told, Contents, Intact, Early, Unforked, Fresh, Barrier, Verified,
       Ending, TypeTree, Trees, NoTree
  <2> HIDE DEF t, o
  <2>8. TypeTree' /\ Others' /\ Keeps /\ tree'[run'] = t /\ outcome'[run'] = o
    BY <1>1, <2>1, <2>3, <2>4, <2>5, Written
  <2>9. Present'
    BY <1>1, <2>1, <2>2, <2>5, <2>8 DEF Present, EarlyInv, VerdictInv, IntactInv, OutcomeInv,
       Told, Contents, Intact, Early, Unforked, Fresh, Barrier, Verified, Ending
  <2> QED  BY <2>8, <2>9
<1>13. ASSUME Commit PROVE Goal
  <2>1. p.pc = "commit" /\ run > 0 /\ run' = run
    BY <1>1, <1>13 DEF Commit, At, TypeParent
  <2>2. p'.pc = "report" /\ p'.verdict = p.verdict /\ p'.committed /\ p'.failed = p.failed /\ wk'.st = wk.st
    <3>1. p' = [p EXCEPT !.committed = TRUE, !.pc = "report"] /\ wk' = wk
      BY <1>13 DEF Commit, To, At, Works, Fails
    <3> QED  BY <1>1, <1>13, <3>1 DEF TypeParent, Parents, TypeWorker, Workers
  <2> DEFINE t == tree[run]
  <2> DEFINE o == outcome[run]
  <2>3. tree' = [tree EXCEPT ![run] = t] /\ outcome' = [outcome EXCEPT ![run] = o]
    BY <1>2, <1>13, <2>1 DEF Commit, Holds, Out, To
  <2>4. t \in Trees /\ o \in Outcomes
    BY <1>2, <2>1 DEF Trees, Outcomes, NoTree
  <2>5. outcome[run] # "passed" /\ ~p.committed /\ t.at = "final" /\ Intact(t) /\ Contents(t) /\ p.verdict = "pass" /\ wk.st = "gone" /\ o = "none"
    BY <1>1, <1>2, <1>3, <1>13, <2>1, <2>4 DEF Present, EarlyInv, VerdictInv, IntactInv,
       OutcomeInv, Told, Contents, Intact, Early, Unforked, Fresh, Barrier, Verified,
       Ending, TypeTree, Trees, NoTree
  <2> HIDE DEF t, o
  <2>8. TypeTree' /\ Others' /\ Keeps /\ tree'[run'] = t /\ outcome'[run'] = o
    BY <1>1, <2>1, <2>3, <2>4, <2>5, Written
  <2>9. Present'
    BY <1>1, <2>1, <2>2, <2>5, <2>8 DEF Present, EarlyInv, VerdictInv, IntactInv, OutcomeInv,
       Told, Contents, Intact, Early, Unforked, Fresh, Barrier, Verified, Ending
  <2> QED  BY <2>8, <2>9
<1>14. ASSUME RenameBack PROVE Goal
  <2>1. p.pc \in {"unrename", "unpublish"} /\ run > 0 /\ run' = run
    BY <1>1, <1>14 DEF RenameBack, At, TypeParent
  <2>2. p'.pc = "unrenamed" /\ p'.verdict = p.verdict /\ p'.committed = p.committed /\ p'.failed = p.failed /\ wk'.st = wk.st
    <3>1. p' = [p EXCEPT !.pc = "unrenamed"] /\ wk' = wk
      BY <1>14 DEF RenameBack, To, At, Works, Fails
    <3> QED  BY <1>1, <1>14, <3>1 DEF TypeParent, Parents, TypeWorker, Workers
  <2> DEFINE t == [tree[run] EXCEPT !.at = "hidden"]
  <2> DEFINE o == outcome[run]
  <2>3. tree' = [tree EXCEPT ![run] = t] /\ outcome' = [outcome EXCEPT ![run] = o]
    BY <1>2, <1>14, <2>1 DEF RenameBack, Holds, Out, To
  <2>4. t \in Trees /\ o \in Outcomes
    BY <1>2, <2>1 DEF Trees, Outcomes, NoTree
  <2>5. outcome[run] # "passed" /\ ~p.committed /\ t.at = "hidden" /\ o = "none" /\ (p.verdict = "pass" => wk.st = "gone" /\ Contents(t))
    BY <1>1, <1>2, <1>3, <1>14, <2>1, <2>4 DEF Present, EarlyInv, VerdictInv, IntactInv,
       OutcomeInv, Told, Contents, Intact, Early, Unforked, Fresh, Barrier, Verified,
       Ending, TypeTree, Trees, NoTree
  <2> HIDE DEF t, o
  <2>8. TypeTree' /\ Others' /\ Keeps /\ tree'[run'] = t /\ outcome'[run'] = o
    BY <1>1, <2>1, <2>3, <2>4, <2>5, Written
  <2>9. Present'
    BY <1>1, <2>1, <2>2, <2>5, <2>8 DEF Present, EarlyInv, VerdictInv, IntactInv, OutcomeInv,
       Told, Contents, Intact, Early, Unforked, Fresh, Barrier, Verified, Ending
  <2> QED  BY <2>8, <2>9
<1>15. ASSUME UnsealForMarker PROVE Goal
  <2>1. p.pc = "mark_mode" /\ run > 0 /\ run' = run
    BY <1>1, <1>15 DEF UnsealForMarker, At, TypeParent
  <2>2. p'.pc = "mark_move" /\ p'.verdict = p.verdict /\ p'.committed = p.committed /\ p'.failed = p.failed /\ wk'.st = wk.st
    <3>1. p' = [p EXCEPT !.pc = "mark_move"] /\ wk' = wk
      BY <1>15 DEF UnsealForMarker, To, At, Works, Fails
    <3> QED  BY <1>1, <1>15, <3>1 DEF TypeParent, Parents, TypeWorker, Workers
  <2> DEFINE t == [tree[run] EXCEPT !.mode = "open"]
  <2> DEFINE o == outcome[run]
  <2>3. tree' = [tree EXCEPT ![run] = t] /\ outcome' = [outcome EXCEPT ![run] = o]
    BY <1>2, <1>15, <2>1 DEF UnsealForMarker, Holds, Out, To
  <2>4. t \in Trees /\ o \in Outcomes
    BY <1>2, <2>1 DEF Trees, Outcomes, NoTree
  <2>5. outcome[run] # "passed" /\ ~p.committed /\ o = "none" /\ (p.verdict = "pass" => wk.st = "gone" /\ Contents(t)) /\ (t.at = "final" => p.verdict = "pass")
    BY <1>1, <1>2, <1>3, <1>15, <2>1, <2>4 DEF Present, EarlyInv, VerdictInv, IntactInv,
       OutcomeInv, Told, Contents, Intact, Early, Unforked, Fresh, Barrier, Verified,
       Ending, TypeTree, Trees, NoTree
  <2> HIDE DEF t, o
  <2>8. TypeTree' /\ Others' /\ Keeps /\ tree'[run'] = t /\ outcome'[run'] = o
    BY <1>1, <2>1, <2>3, <2>4, <2>5, Written
  <2>9. Present'
    BY <1>1, <2>1, <2>2, <2>5, <2>8 DEF Present, EarlyInv, VerdictInv, IntactInv, OutcomeInv,
       Told, Contents, Intact, Early, Unforked, Fresh, Barrier, Verified, Ending
  <2> QED  BY <2>8, <2>9
<1>16. ASSUME Quarantine PROVE Goal
  <2>1. p.pc = "mark_move" /\ run > 0 /\ run' = run
    BY <1>1, <1>16 DEF Quarantine, At, TypeParent
  <2>2. p'.pc = "mark" /\ p'.verdict = p.verdict /\ p'.committed = p.committed /\ p'.failed = p.failed /\ wk'.st = wk.st
    <3>1. p' = [p EXCEPT !.pc = "mark"] /\ wk' = wk
      BY <1>16 DEF Quarantine, To, At, Works, Fails
    <3> QED  BY <1>1, <1>16, <3>1 DEF TypeParent, Parents, TypeWorker, Workers
  <2> DEFINE t == [tree[run] EXCEPT !.marker = IF @ = "untrusted" THEN "none" ELSE @]
  <2> DEFINE o == outcome[run]
  <2>3. tree' = [tree EXCEPT ![run] = t] /\ outcome' = [outcome EXCEPT ![run] = o]
    BY <1>2, <1>16, <2>1 DEF Quarantine, Holds, Out, To
  <2>4. t \in Trees /\ o \in Outcomes
    BY <1>2, <2>1 DEF Trees, Outcomes, NoTree
  <2>5. outcome[run] # "passed" /\ ~p.committed /\ o = "none" /\ (p.verdict = "pass" => wk.st = "gone" /\ Contents(t)) /\ (t.at = "final" => p.verdict = "pass")
    BY <1>1, <1>2, <1>3, <1>16, <2>1, <2>4 DEF Present, EarlyInv, VerdictInv, IntactInv,
       OutcomeInv, Told, Contents, Intact, Early, Unforked, Fresh, Barrier, Verified,
       Ending, TypeTree, Trees, NoTree
  <2> HIDE DEF t, o
  <2>8. TypeTree' /\ Others' /\ Keeps /\ tree'[run'] = t /\ outcome'[run'] = o
    BY <1>1, <2>1, <2>3, <2>4, <2>5, Written
  <2>9. Present'
    BY <1>1, <2>1, <2>2, <2>5, <2>8 DEF Present, EarlyInv, VerdictInv, IntactInv, OutcomeInv,
       Told, Contents, Intact, Early, Unforked, Fresh, Barrier, Verified, Ending
  <2> QED  BY <2>8, <2>9
<1>17. ASSUME CommitMarker, Out.marker = "none" PROVE Goal
  <2>1. p.pc = "mark" /\ run > 0 /\ run' = run
    BY <1>1, <1>17 DEF CommitMarker, At, TypeParent
  <2>2. p'.pc = "close" /\ p'.verdict = p.verdict /\ p'.committed = p.committed /\ p'.failed = p.failed /\ wk'.st = wk.st
    <3>1. p' = [p EXCEPT !.pc = "close"] /\ wk' = wk
      BY <1>17 DEF CommitMarker, To, At, Works, Fails
    <3> QED  BY <1>1, <1>17, <3>1 DEF TypeParent, Parents, TypeWorker, Workers
  <2> DEFINE t == [tree[run] EXCEPT !.marker = "trusted"]
  <2> DEFINE o == "failed"
  <2>3. tree' = [tree EXCEPT ![run] = t] /\ outcome' = [outcome EXCEPT ![run] = o]
    BY <1>2, <1>17, <2>1 DEF CommitMarker, Holds, Out, To
  <2>4. t \in Trees /\ o \in Outcomes
    BY <1>2, <2>1 DEF Trees, Outcomes, NoTree
  <2>5. outcome[run] # "passed" /\ ~p.committed /\ t.marker = "trusted" /\ o = "failed" /\ (p.verdict = "pass" => wk.st = "gone" /\ Contents(t)) /\ (t.at = "final" => p.verdict = "pass")
    BY <1>1, <1>2, <1>3, <1>17, <2>1, <2>4 DEF Present, EarlyInv, VerdictInv, IntactInv,
       OutcomeInv, Told, Contents, Intact, Early, Unforked, Fresh, Barrier, Verified,
       Ending, TypeTree, Trees, NoTree
  <2> HIDE DEF t, o
  <2>8. TypeTree' /\ Others' /\ Keeps /\ tree'[run'] = t /\ outcome'[run'] = o
    BY <1>1, <2>1, <2>3, <2>4, <2>5, Written
  <2>9. Present'
    BY <1>1, <2>1, <2>2, <2>5, <2>8 DEF Present, EarlyInv, VerdictInv, IntactInv, OutcomeInv,
       Told, Contents, Intact, Early, Unforked, Fresh, Barrier, Verified, Ending
  <2> QED  BY <2>8, <2>9
<1>18. ASSUME CommitMarker, Out.marker # "none" PROVE Goal
  <2>1. p.pc = "mark" /\ run > 0 /\ run' = run
    BY <1>1, <1>18 DEF CommitMarker, At, TypeParent
  <2>2. p'.pc = "unmarked" /\ p'.verdict = p.verdict /\ p'.committed = p.committed /\ p'.failed = p.failed /\ wk'.st = wk.st
    <3>1. p' = [p EXCEPT !.pc = "unmarked"] /\ wk' = wk
      BY <1>18 DEF CommitMarker, To, At, Works, Fails
    <3> QED  BY <1>1, <1>18, <3>1 DEF TypeParent, Parents, TypeWorker, Workers
  <2> DEFINE t == tree[run]
  <2> DEFINE o == outcome[run]
  <2>3. tree' = [tree EXCEPT ![run] = t] /\ outcome' = [outcome EXCEPT ![run] = o]
    BY <1>2, <1>18, <2>1 DEF CommitMarker, Holds, Out, To
  <2>4. t \in Trees /\ o \in Outcomes
    BY <1>2, <2>1 DEF Trees, Outcomes, NoTree
  <2>5. outcome[run] # "passed" /\ ~p.committed /\ o = "none" /\ (p.verdict = "pass" => wk.st = "gone" /\ Contents(t)) /\ (t.at = "final" => p.verdict = "pass")
    BY <1>1, <1>2, <1>3, <1>18, <2>1, <2>4 DEF Present, EarlyInv, VerdictInv, IntactInv,
       OutcomeInv, Told, Contents, Intact, Early, Unforked, Fresh, Barrier, Verified,
       Ending, TypeTree, Trees, NoTree
  <2> HIDE DEF t, o
  <2>8. TypeTree' /\ Others' /\ Keeps /\ tree'[run'] = t /\ outcome'[run'] = o
    BY <1>1, <2>1, <2>3, <2>4, <2>5, Written
  <2>9. Present'
    BY <1>1, <2>1, <2>2, <2>5, <2>8 DEF Present, EarlyInv, VerdictInv, IntactInv, OutcomeInv,
       Told, Contents, Intact, Early, Unforked, Fresh, Barrier, Verified, Ending
  <2> QED  BY <2>8, <2>9
<1>19. ASSUME Unmarked PROVE Goal
  <2>1. p.pc = "unmarked" /\ run > 0 /\ run' = run
    BY <1>1, <1>19 DEF Unmarked, At, TypeParent
  <2>2. p'.pc = "close" /\ p'.verdict = p.verdict /\ p'.committed = p.committed /\ p'.failed = p.failed /\ wk'.st = wk.st
    <3>1. p' = [p EXCEPT !.pc = "close"] /\ wk' = wk
      BY <1>19 DEF Unmarked, To, At, Works, Fails
    <3> QED  BY <1>1, <1>19, <3>1 DEF TypeParent, Parents, TypeWorker, Workers
  <2> DEFINE t == tree[run]
  <2> DEFINE o == "unmarked"
  <2>3. tree' = [tree EXCEPT ![run] = t] /\ outcome' = [outcome EXCEPT ![run] = o]
    BY <1>2, <1>19, <2>1 DEF Unmarked, Holds, Out, To
  <2>4. t \in Trees /\ o \in Outcomes
    BY <1>2, <2>1 DEF Trees, Outcomes, NoTree
  <2>5. outcome[run] # "passed" /\ ~p.committed /\ o = "unmarked" /\ (p.verdict = "pass" => wk.st = "gone" /\ Contents(t)) /\ (t.at = "final" => p.verdict = "pass")
    BY <1>1, <1>2, <1>3, <1>19, <2>1, <2>4 DEF Present, EarlyInv, VerdictInv, IntactInv,
       OutcomeInv, Told, Contents, Intact, Early, Unforked, Fresh, Barrier, Verified,
       Ending, TypeTree, Trees, NoTree
  <2> HIDE DEF t, o
  <2>8. TypeTree' /\ Others' /\ Keeps /\ tree'[run'] = t /\ outcome'[run'] = o
    BY <1>1, <2>1, <2>3, <2>4, <2>5, Written
  <2>9. Present'
    BY <1>1, <2>1, <2>2, <2>5, <2>8 DEF Present, EarlyInv, VerdictInv, IntactInv, OutcomeInv,
       Told, Contents, Intact, Early, Unforked, Fresh, Barrier, Verified, Ending
  <2> QED  BY <2>8, <2>9
<1>20. ASSUME Report PROVE Goal
  <2>1. p.pc = "report" /\ run > 0 /\ run' = run
    BY <1>1, <1>20 DEF Report, At, TypeParent
  <2>2. p'.pc = "close" /\ p'.verdict = p.verdict /\ p'.committed = p.committed /\ p'.failed = p.failed /\ wk'.st = wk.st
    <3>1. p' = [p EXCEPT !.pc = "close"] /\ wk' = wk
      BY <1>20 DEF Report, To, At, Works, Fails
    <3> QED  BY <1>1, <1>20, <3>1 DEF TypeParent, Parents, TypeWorker, Workers
  <2> DEFINE t == tree[run]
  <2> DEFINE o == "passed"
  <2>3. tree' = [tree EXCEPT ![run] = t] /\ outcome' = [outcome EXCEPT ![run] = o]
    BY <1>2, <1>20, <2>1 DEF Report, Holds, Out, To
  <2>4. t \in Trees /\ o \in Outcomes
    BY <1>2, <2>1 DEF Trees, Outcomes, NoTree
  <2>5. t = tree[run] /\ o = "passed" /\ t.at = "final" /\ Intact(t) /\ p.committed /\ (p.verdict = "pass" => wk.st = "gone" /\ Contents(t)) /\ (t.at = "final" => p.verdict = "pass")
    BY <1>1, <1>2, <1>3, <1>20, <2>1, <2>4 DEF Present, EarlyInv, VerdictInv, IntactInv,
       OutcomeInv, Told, Contents, Intact, Early, Unforked, Fresh, Barrier, Verified,
       Ending, TypeTree, Trees, NoTree
  <2> HIDE DEF t, o
  <2>8. TypeTree' /\ Others' /\ Keeps /\ tree'[run'] = t /\ outcome'[run'] = o
    BY <1>1, <2>1, <2>3, <2>4, <2>5, Written
  <2>9. Present'
    BY <1>1, <2>1, <2>2, <2>5, <2>8 DEF Present, EarlyInv, VerdictInv, IntactInv, OutcomeInv,
       Told, Contents, Intact, Early, Unforked, Fresh, Barrier, Verified, Ending
  <2> QED  BY <2>8, <2>9
<1>21. ASSUME Kill PROVE Goal
  <2>1. p.pc \notin {"idle", "done"} /\ run > 0 /\ run' = run
    BY <1>1, <1>21 DEF Kill, At, TypeParent
  <2>2. p'.pc = "done" /\ p'.verdict = p.verdict /\ p'.committed = p.committed /\ p'.failed = p.failed /\ wk'.st = wk.st
    <3>1. p' = [p EXCEPT !.pc = "done", !.pend = FALSE] /\ wk' = [wk EXCEPT !.sup = IF @ = "up" THEN "dead" ELSE @]
      BY <1>21 DEF Kill, To, At, Works, Fails
    <3> QED  BY <1>1, <1>21, <3>1 DEF TypeParent, Parents, TypeWorker, Workers
  <2> DEFINE t == tree[run]
  <2> DEFINE o == IF outcome[run] = "none" THEN "killed" ELSE outcome[run]
  <2>3. tree' = [tree EXCEPT ![run] = t] /\ outcome' = [outcome EXCEPT ![run] = o]
    BY <1>2, <1>21, <2>1 DEF Kill, Holds, Out, To
  <2>4. t \in Trees /\ o \in Outcomes
    BY <1>2, <2>1 DEF Trees, Outcomes, NoTree
  <2>5. t = tree[run] /\ o # "none" /\ Told(t, o) /\ (p.committed => p.verdict = "pass" /\ Intact(t) /\ t.at = "final") /\ (p.verdict = "pass" => wk.st = "gone" /\ Contents(t)) /\ (t.at = "final" => p.verdict = "pass")
    BY <1>1, <1>2, <1>3, <1>21, <2>1, <2>4 DEF Present, EarlyInv, VerdictInv, IntactInv,
       OutcomeInv, Told, Contents, Intact, Early, Unforked, Fresh, Barrier, Verified,
       Ending, TypeTree, Trees, NoTree
  <2> HIDE DEF t, o
  <2>8. TypeTree' /\ Others' /\ Keeps /\ tree'[run'] = t /\ outcome'[run'] = o
    BY <1>1, <2>1, <2>3, <2>4, <2>5, Written
  <2>9. Present'
    BY <1>1, <2>1, <2>2, <2>5, <2>8 DEF Present, EarlyInv, VerdictInv, IntactInv, OutcomeInv,
       Told, Contents, Intact, Early, Unforked, Fresh, Barrier, Verified, Ending
  <2> QED  BY <2>8, <2>9
<1> HIDE DEF Goal
<1> QED  BY <1>4, <1>5, <1>6, <1>7, <1>8, <1>9, <1>10, <1>11, <1>12, <1>13, <1>14, <1>15, <1>16,
            <1>17, <1>18, <1>19, <1>20, <1>21 DEF Decisive, Goal

-----------------------------------------------------------------------------
LEMMA InitInv == Init => IInv
<1> SUFFICES ASSUME Init PROVE IInv
  OBVIOUS
<1>1. TypeWorld
  BY DEF Init, TypeWorld
<1>2. TypeParent
  <2>1. NoParent \in Parents
    BY DEF NoParent, Parents, Places, Ending
  <2> QED  BY <2>1 DEF Init, TypeParent, NoParent
<1>3. TypeWorker
  BY DEF Init, TypeWorker, Quiet, NoWorker, Workers
<1>4. TypeTree
  BY NoTreeTyped DEF Init, TypeTree, Outcomes
<1>5. TypeOutput
  BY DEF Init, TypeOutput, NoParent, Ending
<1>6. Pending
  BY DEF Init, Pending, NoParent, NoWorker
<1>7. Others
  BY DEF Init, Others
<1>8. Present
  BY DEF Init, Present
<1> QED  BY <1>1, <1>2, <1>3, <1>4, <1>5, <1>6, <1>7, <1>8 DEF IInv, TypeOK

LEMMA StepInv ==
    ASSUME IInv, [Next]_vars
    PROVE  IInv' /\ Keeps
<1>1. TypeWorld /\ TypeParent /\ TypeWorker /\ TypeTree /\ TypeOutput /\ Pending /\ Others
  BY DEF IInv, TypeOK
<1>2. TypeWorld' /\ TypeWorker' /\ TypeOutput' /\ Pending'
  BY <1>1, WorldTyped, WorkerTyped, OutputTyped, PendingKept
<1>3. Goes
  BY <1>1, StepKinds
<1>4. TypeParent'
  BY <1>3 DEF Goes, TypeParent
<1>5. TypeTree' /\ Others' /\ Keeps /\ Present'
  <2>1. ASSUME Raised PROVE TypeTree' /\ Others' /\ Keeps /\ Present'
    BY <1>1, <2>1, RaisedKeeps, Unwritten DEF Raised
  <2>2. ASSUME Straight PROVE TypeTree' /\ Others' /\ Keeps /\ Present'
    BY <1>1, <2>2, StraightKeeps, Unwritten DEF Straight
  <2> QED  BY <1>3, <2>1, <2>2, BesideKeeps, DecisiveKeeps DEF Goes
<1> QED  BY <1>2, <1>4, <1>5 DEF IInv, TypeOK

\* The inductive invariant.
LEMMA InvAlways == Spec => []IInv
<1>1. IInv /\ [Next]_vars => IInv'
  BY StepInv
<1> QED  BY InitInv, <1>1, PTL DEF Spec

\* Every variable of a campaign stays in its range, also while the parent is in
\* the middle of an exception, and the parent removes no more components of the
\* output parent than it created.
THEOREM TypeCorrect == Spec => []TypeOK
<1>1. IInv => TypeOK
  BY DEF IInv
<1> QED  BY InvAlways, <1>1, PTL

\* A directory under the run's final name was verified and still is what was
\* verified, and every campaign that ended told what its directory shows, for any
\* number of campaigns, recordings, edits, exceptions and kills.
THEOREM CommittedAlways == Spec => []CommittedIsTrue
<1>1. IInv => CommittedIsTrue
  <2> SUFFICES ASSUME IInv PROVE CommittedIsTrue
    OBVIOUS
  <2>1. TypeWorld /\ Others /\ Present
    BY DEF IInv, TypeOK
  <2>2. FinalIsVerified
    <3> SUFFICES ASSUME NEW r \in 1 .. MaxRuns, tree[r].at = "final" PROVE Contents(tree[r])
      BY DEF FinalIsVerified, Contents
    <3>1. r < run \/ (r = run /\ run > 0) \/ r > run
      BY <2>1 DEF TypeWorld
    <3>2. ~(r > run)
      BY <2>1 DEF Others, NoTree
    <3> QED  BY <2>1, <3>1, <3>2 DEF Others, Present, VerdictInv
  <2>3. OutcomeIsMarked
    <3> SUFFICES ASSUME NEW r \in 1 .. MaxRuns, Ended(r) PROVE Told(tree[r], outcome[r])
      BY DEF OutcomeIsMarked, Told, Intact
    <3>1. r < run \/ (r = run /\ run > 0) \/ r > run
      BY <2>1 DEF TypeWorld
    <3>2. ~(r > run)
      BY <2>1 DEF Others, Ended
    <3>3. r = run => p.pc \in Ending
      BY <2>1 DEF Ended, TypeWorld, Ending
    <3> QED  BY <2>1, <3>1, <3>2, <3>3 DEF Others, Present, OutcomeInv
  <2> QED  BY <2>2, <2>3 DEF CommittedIsTrue
<1> QED  BY InvAlways, <1>1, PTL

\* No step of any process changes, moves or marks a directory once it is committed
\* or its campaign was reported as passed: the handling of an exception after the
\* commit finds it committed, and no process of the worker is left to write it.
THEOREM ImmutableAlways == Spec => CommittedIsImmutable
<1> DEFINE Step == \A r \in 1 .. MaxRuns :
               outcome[r] = "passed" \/ (r = run /\ p.committed) => tree'[r] = tree[r]
<1>1. IInv /\ [Next]_vars => [Step]_vars
  BY StepInv DEF Keeps
<1> HIDE DEF Step
<1>2. Spec => [][Step]_vars
  BY InvAlways, <1>1, PTL DEF Spec
<1> QED  BY <1>2 DEF CommittedIsImmutable, Step
=============================================================================
