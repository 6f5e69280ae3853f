------------------------- MODULE SequencePairProofs -------------------------
(***************************************************************************)
(* SequencePair proved for any inventory, any contents of bags and ground  *)
(* truths, and any number of runs, faults and changes: what is published   *)
(* is one experiment, and what is reported is so.                          *)
(***************************************************************************)
EXTENDS SequencePair, TLAPS

\* Where a transaction may be: its directory is hidden, ...
Working == {"bind", "build", "pairs", "paired", "nullspace", "ran nullspace", "schur", "ran schur",
            "inputs", "math", "evaluate", "executable", "assemble", "verify", "verified", "publish"}
Places == Working \cup {"idle", "renamed", "committed"}
\* ... and, before it is assembled, its evidence grows: with its inputs bound,
\* built, with the pairs extracted, with the traces of the two runs, with the
\* comparison made, and with the evaluations.
Judged == {"executable", "assemble"}
Compared == {"evaluate"} \cup Judged
RanSchur == {"ran schur", "inputs", "math"} \cup Compared
RanNullspace == {"ran nullspace", "schur"} \cup RanSchur
Ran(m) == IF m = "nullspace" THEN RanNullspace ELSE RanSchur
Paired == {"paired", "nullspace"} \cup RanNullspace
Built == {"pairs"} \cup Paired
BoundIn == {"build"} \cup Built
Assembled == {"verify", "verified", "publish", "renamed", "committed"}

\* The shape of the evidence, ...
EvidenceShape(e) ==
    /\ e \in [seq : {e.seq}, commit : {e.commit}, unit : {e.unit}, bag : {e.bag}, bagAfter : {e.bagAfter},
              truth : {e.truth}, exe : {e.exe}, exeAfter : {e.exeAfter}, witness : {e.witness},
              pairs : {e.pairs}, cmds : {e.cmds}, trace : {e.trace}, exeOf : {e.exeOf},
              request : {e.request}, response : {e.response}, archive : {e.archive}]
    /\ e.trace = [m \in Modes |-> e.trace[m]] /\ e.exeOf = [m \in Modes |-> e.exeOf[m]]
\* ... of the transaction, ...
TxShape ==
    /\ tx \in [pc : Places, r : {tx.r}, bagId : {tx.bagId}, truthId : {tx.truthId}, exe : {tx.exe},
               sink : {tx.sink}, shot : {tx.shot}, ev : {tx.ev}]
    /\ Running => tx.r \in Runs
    /\ EvidenceShape(tx.ev)
\* ... of the runs' directories, and of the bags.
StoreShape ==
    /\ art = [r \in Runs |-> art[r]] /\ sums = [r \in Runs |-> sums[r]]
    /\ at \in [Runs -> {"none", "hidden", "final"}] /\ disk \in [Runs -> {"none", "hidden", "final"}]
    /\ mark \in [Runs -> BOOLEAN]
    /\ said \in [Runs -> {"none", "failed", "indeterminate", "killed", "passed"}]
BagShape ==
    /\ bag = [s \in Indices |-> [content |-> bag[s].content, id |-> bag[s].id]]
    /\ \A s \in Indices : bag[s].id \in Nat
Shape == TxShape /\ StoreShape /\ BagShape

-----------------------------------------------------------------------------
\* What the names, the failure records and the reports say of each other.
NameOf(r) ==
    /\ at[r] = "none" => disk[r] = "none" /\ said[r] = "none" /\ ~mark[r]
    /\ disk[r] = "none" => at[r] = "none"
    /\ disk[r] = "final" => at[r] = "final"
    /\ mark[r] => at[r] = "hidden" /\ disk[r] = "hidden"
    /\ said[r] = "passed" => disk[r] = "final"
    /\ said[r] = "failed" /\ at[r] = "final" => disk[r] = "final"
NameOfRun ==
    /\ Running => said[tx.r] = "none" /\ ~mark[tx.r]
    /\ tx.pc \in Working => at[tx.r] = "hidden" /\ disk[tx.r] = "hidden"
    /\ tx.pc = "renamed" => at[tx.r] = "final" /\ disk[tx.r] = "hidden"
    /\ tx.pc = "committed" => at[tx.r] = "final" /\ disk[tx.r] = "final"
Names == (\A r \in Runs : NameOf(r)) /\ NameOfRun

\* What the evidence of the transaction is, as far as it has come.
Inputs ==
    /\ Running => Ev.seq \in Indices /\ Ev.unit = Ev.commit
    /\ tx.pc \in BoundIn =>
          /\ Ev.bag = FrozenMessages /\ Ev.truth = FrozenTruth
          /\ tx.bagId \in Nat /\ tx.bagId <= bag[Ev.seq].id
          /\ HeldBag => bag[Ev.seq].content = FrozenMessages
\* The executable is only ever replaced by one that was not there before.
Since(x, y) == x = <<x[1], x[2]>> /\ y = <<x[1], y[2]>> /\ x[2] \in Nat /\ y[2] \in Nat /\ x[2] <= y[2]
Executable == tx.pc \in Built => Since(Ev.exe, tx.exe) /\ Ev.exe[1] = Ev.commit
Pairs == tx.pc \in Paired => Ev.pairs = Walk(FrozenMessages)
OwnTrace(t, m) ==
    /\ t.by = tx.r /\ t.mode = m /\ t.msgs = FrozenMessages /\ t.flaw \in {"none"} \cup Flaws
    /\ Since(Ev.exe, t.exe) /\ Since(t.exe, tx.exe)
Traces == \A m \in Modes : tx.pc \in Ran(m) => OwnTrace(Ev.trace[m], m)
Comparison ==
    tx.pc \in Compared =>
       /\ Ev.request = Request(Ev.trace, Ev.truth) /\ Ev.response.request = Ev.request
       /\ Ev.response.unit = Ev.unit /\ Ev.response.env = "clean" /\ Ev.response.close = TRUE
Evaluations ==
    tx.pc \in Judged => \A m \in Modes : /\ Ev.archive[m].response = Ev.response
                                         /\ Ev.archive[m].flaw \in {"none", "rmse"}
SameExecutable == tx.pc = "assemble" => \A m \in Modes : Ev.trace[m].exe = Ev.exe
Progress == Inputs /\ Executable /\ Pairs /\ Traces /\ Comparison /\ Evaluations /\ SameExecutable

\* What OneExperiment says of the evidence alone.
Genuine(a, r) ==
    /\ \A m \in Modes :
          /\ a.trace[m].by = r /\ a.trace[m].mode = m /\ a.trace[m].exe = a.exe
          /\ a.trace[m].msgs = FrozenMessages /\ a.trace[m].flaw = "none"
          /\ a.archive[m].response = a.response /\ a.archive[m].flaw = "none"
    /\ a.exe[1] = a.commit /\ a.pairs = Walk(FrozenMessages)
    /\ a.response.request = [nullspace |-> a.trace["nullspace"], schur |-> a.trace["schur"],
                             truth |-> FrozenTruth]
    /\ a.response.unit = a.commit /\ a.response.env = "clean" /\ a.response.close

\* The snapshot is genuine, and what is renamed is the snapshot.
Snapshot ==
    /\ tx.pc \in Assembled => Genuine(tx.shot, tx.r) /\ sums[tx.r] = tx.shot
    /\ tx.pc \in {"publish", "renamed", "committed"} => art[tx.r] = tx.shot
Finals == \A r \in Runs : at[r] = "final" => Genuine(art[r], r) /\ art[r] = sums[r]

\* An accepted set is made of directories that are no longer written.
Accepted ==
    \A q \in sets :
       /\ q \in [Indices -> Runs]
       /\ \A s \in Indices :
             /\ art[q[s]].seq = s /\ art[q[s]].exe = art[q[0]].exe /\ art[q[s]].commit = art[q[0]].commit
             /\ at[q[s]] # "none" /\ (tx.r = q[s] => tx.pc \notin Working)

IInv == Shape /\ Names /\ Progress /\ Snapshot /\ Finals /\ Accepted

-----------------------------------------------------------------------------
USE InventoryAssumption, BoundAssumption

\* A transaction that goes on: what its record is after the step.
Tx(c, b, g, x, k, h, e) ==
    [pc |-> c, r |-> tx.r, bagId |-> b, truthId |-> g, exe |-> x, sink |-> k, shot |-> h, ev |-> e]

LEMMA GoesOn ==
    ASSUME TxShape, Running, NEW c \in Places, NEW b, NEW g, NEW x, NEW k, NEW h, NEW e, EvidenceShape(e),
           tx' = Tx(c, b, g, x, k, h, e)
    PROVE  /\ TxShape' /\ tx'.pc = c /\ tx'.r = tx.r /\ tx'.bagId = b /\ tx'.exe = x /\ tx'.shot = h
           /\ tx'.ev = e
BY DEF TxShape, Tx, Running

LEMMA CommandShape ==
    ASSUME NEW e, EvidenceShape(e), NEW phase, NEW mode
    PROVE  LET c == Command(e, phase, mode) IN
           /\ EvidenceShape(c)
           /\ c.seq = e.seq /\ c.commit = e.commit /\ c.unit = e.unit /\ c.bag = e.bag /\ c.truth = e.truth
           /\ c.exe = e.exe /\ c.witness = e.witness /\ c.pairs = e.pairs /\ c.trace = e.trace
           /\ c.exeOf = e.exeOf /\ c.request = e.request /\ c.response = e.response /\ c.archive = e.archive
BY DEF EvidenceShape, Command

LEMMA SinceRefl ==
    ASSUME NEW x, x = <<x[1], x[2]>>, x[2] \in Nat
    PROVE  Since(x, x)
BY DEF Since

LEMMA SinceTrans ==
    ASSUME NEW x, NEW y, NEW z, Since(x, y), Since(y, z)
    PROVE  Since(x, z)
BY DEF Since

LEMMA SinceEqual ==
    ASSUME NEW x, NEW y, Since(x, y), Since(y, x)
    PROVE  x = y
BY DEF Since

-----------------------------------------------------------------------------
\* The steps that gather evidence, one by one.

LEMMA BindsInputs ==
    ASSUME Shape, Progress, BindInputs, ~Refuse
    PROVE  TxShape' /\ Progress' /\ tx.pc = "bind" /\ tx'.pc = "build" /\ tx'.r = tx.r /\ tx'.shot = tx.shot
<1> DEFINE s == Ev.seq
           e == [Ev EXCEPT !.bag = bag[s].content, !.truth = truth[s].content]
<1>1. /\ tx.pc = "bind" /\ Running /\ bag' = bag
      /\ bag[s].content = FrozenMessages /\ truth[s].content = FrozenTruth
      /\ tx' = [tx EXCEPT !.pc = "build", !.bagId = bag[s].id, !.truthId = truth[s].id,
                          !.ev.bag = bag[s].content, !.ev.truth = truth[s].content]
  BY DEF BindInputs, Running, Outside, world
<1>2. EvidenceShape(e) /\ e.seq = s /\ e.unit = Ev.unit /\ e.commit = Ev.commit
      /\ e.bag = FrozenMessages /\ e.truth = FrozenTruth
  BY <1>1 DEF Shape, TxShape, EvidenceShape, Ev
<1>3. tx' = Tx("build", bag[s].id, truth[s].id, tx.exe, tx.sink, tx.shot, e)
  BY <1>1 DEF Shape, TxShape, Tx, Ev
<1> HIDE DEF e
<1>4. /\ TxShape' /\ tx'.pc = "build" /\ tx'.r = tx.r /\ tx'.bagId = bag[s].id /\ tx'.shot = tx.shot
      /\ tx'.ev = e
  <2>1. TxShape /\ "build" \in Places
    BY DEF Shape, Places, Working
  <2> QED  BY <1>1, <1>2, <1>3, <2>1, GoesOn
<1>5. s \in Indices /\ bag[s].id \in Nat /\ Ev.unit = Ev.commit
  BY <1>1 DEF Shape, BagShape, Progress, Inputs
<1>6. Inputs'
  BY <1>1, <1>2, <1>4, <1>5 DEF Inputs, Ev, HeldBag
<1>7. tx'.pc \notin Built
  BY <1>4 DEF Built, Paired, RanNullspace, RanSchur, Compared, Judged
<1>8. Progress'
  BY <1>6, <1>4, <1>7 DEF Progress, Executable, Pairs, Traces, Comparison, Evaluations, SameExecutable,
     Ran, Built, Paired, RanNullspace, RanSchur, Compared, Judged
<1> QED  BY <1>1, <1>4, <1>8

LEMMA Builds ==
    ASSUME Shape, Progress, Build, ~Refuse
    PROVE  TxShape' /\ Progress' /\ tx.pc = "build" /\ tx'.pc = "pairs" /\ tx'.r = tx.r /\ tx'.shot = tx.shot
<1>1. PICK b \in 0 .. tx.r - 1 :
         tx' = [tx EXCEPT !.pc = "pairs", !.exe = <<repo, b>>, !.ev.exe = <<repo, b>>]
  BY DEF Build
<1>2. tx.pc = "build" /\ Running /\ bag' = bag /\ repo = Ev.commit /\ b \in Nat
  <2>1. tx.pc = "build" /\ Running /\ bag' = bag /\ repo = Ev.commit
    BY DEF Build, Running, Outside, world, Authorized
  <2>2. tx.r \in Runs
    BY <2>1 DEF Shape, TxShape
  <2> QED  BY <1>1, <2>1, <2>2 DEF Runs
<1> DEFINE x == <<repo, b>>
           e == [Ev EXCEPT !.exe = x]
<1>3. EvidenceShape(e) /\ e.seq = Ev.seq /\ e.unit = Ev.unit /\ e.commit = Ev.commit /\ e.exe = x
      /\ e.bag = Ev.bag /\ e.truth = Ev.truth
  BY DEF Shape, TxShape, EvidenceShape, Ev
<1>4. tx' = Tx("pairs", tx.bagId, tx.truthId, x, tx.sink, tx.shot, e)
  BY <1>1 DEF Shape, TxShape, Tx, Ev
<1> HIDE DEF e
<1>5. /\ TxShape' /\ tx'.pc = "pairs" /\ tx'.r = tx.r /\ tx'.bagId = tx.bagId /\ tx'.shot = tx.shot
      /\ tx'.ev = e /\ tx'.exe = x
  <2>1. TxShape /\ "pairs" \in Places
    BY DEF Shape, Places, Working
  <2> QED  BY <1>2, <1>3, <1>4, <2>1, GoesOn
<1>6. Inputs'
  BY <1>2, <1>3, <1>5 DEF Progress, Inputs, Ev, HeldBag, BoundIn, Running
<1>7. Executable'
  BY <1>2, <1>3, <1>5 DEF Executable, Ev, Since
<1>8. tx'.pc \notin Paired
  BY <1>5 DEF Paired, RanNullspace, RanSchur, Compared, Judged
<1>9. Progress'
  BY <1>6, <1>7, <1>5, <1>8 DEF Progress, Pairs, Traces, Comparison, Evaluations, SameExecutable,
     Ran, Paired, RanNullspace, RanSchur, Compared, Judged
<1> QED  BY <1>2, <1>5, <1>9

\* What a step keeps that only adds to the evidence of a built estimator.
LEMMA Gathers ==
    ASSUME Shape, Progress, bag' = bag, tx.pc \in Built, NEW c \in Places, NEW k, NEW h, NEW e,
           EvidenceShape(e), tx' = Tx(c, tx.bagId, tx.truthId, tx.exe, k, h, e),
           e.seq = Ev.seq, e.commit = Ev.commit, e.unit = Ev.unit, e.bag = Ev.bag,
           e.truth = Ev.truth, e.exe = Ev.exe
    PROVE  /\ TxShape' /\ tx'.pc = c /\ tx'.r = tx.r /\ tx'.exe = tx.exe /\ tx'.shot = h
           /\ tx'.ev = e /\ Inputs' /\ Executable'
           /\ (tx.pc \in Paired /\ e.pairs = Ev.pairs => Pairs')
           /\ \A m \in Modes : tx.pc \in Ran(m) /\ e.trace[m] = Ev.trace[m] => OwnTrace(Ev.trace[m], m)'
<1>1. Running /\ tx.pc \in BoundIn
  BY DEF Built, Paired, RanNullspace, RanSchur, Compared, Judged, BoundIn, Running
<1>2. /\ TxShape' /\ tx'.pc = c /\ tx'.r = tx.r /\ tx'.bagId = tx.bagId /\ tx'.exe = tx.exe
      /\ tx'.shot = h /\ tx'.ev = e
  BY <1>1, GoesOn DEF Shape
<1>3. Inputs'
  BY <1>1, <1>2 DEF Progress, Inputs, Ev, HeldBag
<1>4. Executable'
  BY <1>2 DEF Progress, Executable, Ev
<1>5. ASSUME tx.pc \in Paired, e.pairs = Ev.pairs PROVE Pairs'
  BY <1>2, <1>5 DEF Progress, Pairs, Ev
<1>6. ASSUME NEW m \in Modes, tx.pc \in Ran(m), e.trace[m] = Ev.trace[m]
      PROVE  OwnTrace(Ev.trace[m], m)'
  BY <1>2, <1>6 DEF Progress, Traces, OwnTrace, Ev
<1> QED  BY <1>2, <1>3, <1>4, <1>5, <1>6

LEMMA RunsPairIndex ==
    ASSUME Shape, Progress, RunPairIndex, ~Refuse
    PROVE  TxShape' /\ Progress' /\ tx.pc = "pairs" /\ tx'.pc = "paired" /\ tx'.r = tx.r /\ tx'.shot = tx.shot
<1> DEFINE x == Extract(bag[Ev.seq].content)
           e == Command(x, "pair_index", "none")
<1>1. /\ tx.pc = "pairs" /\ bag' = bag /\ HeldBag
      /\ tx' = [tx EXCEPT !.pc = "paired", !.ev = e]
  BY DEF RunPairIndex, Records, Outside, world
<1>2. bag[Ev.seq].content = FrozenMessages
  BY <1>1 DEF Progress, Inputs, BoundIn, Built
<1>3. EvidenceShape(x) /\ x.seq = Ev.seq /\ x.unit = Ev.unit /\ x.commit = Ev.commit /\ x.exe = Ev.exe
      /\ x.bag = Ev.bag /\ x.truth = Ev.truth /\ x.pairs = Walk(FrozenMessages)
  BY <1>2 DEF Shape, TxShape, EvidenceShape, Ev, Extract
<1> HIDE DEF x
<1>4. EvidenceShape(e) /\ e.seq = Ev.seq /\ e.unit = Ev.unit /\ e.commit = Ev.commit /\ e.exe = Ev.exe
      /\ e.bag = Ev.bag /\ e.truth = Ev.truth /\ e.pairs = Walk(FrozenMessages)
  BY <1>3, CommandShape
<1> HIDE DEF e
<1>5. tx' = Tx("paired", tx.bagId, tx.truthId, tx.exe, tx.sink, tx.shot, e)
  BY <1>1 DEF Shape, TxShape, Tx
<1>6. tx.pc \in Built /\ "paired" \in Places
  BY <1>1 DEF Built, Places, Working
<1>7. /\ TxShape' /\ tx'.pc = "paired" /\ tx'.r = tx.r /\ tx'.shot = tx.shot /\ tx'.ev = e
      /\ Inputs' /\ Executable'
  BY <1>1, <1>4, <1>5, <1>6, Gathers
<1>8. Pairs'
  BY <1>4, <1>7 DEF Pairs, Ev
<1>9. Progress'
  BY <1>7, <1>8 DEF Progress, Traces, Comparison, Evaluations, SameExecutable,
     Ran, RanNullspace, RanSchur, Compared, Judged
<1> QED  BY <1>1, <1>7, <1>9

LEMMA AcceptsPairIndex ==
    ASSUME Shape, Progress, AcceptPairIndex, ~Refuse
    PROVE  TxShape' /\ Progress' /\ tx.pc = "paired" /\ tx'.pc = "nullspace" /\ tx'.r = tx.r /\ tx'.shot = tx.shot
<1>1. /\ tx.pc = "paired" /\ bag' = bag /\ tx' = [tx EXCEPT !.pc = "nullspace"]
  BY DEF AcceptPairIndex, Step, Outside, world
<1>2. tx' = Tx("nullspace", tx.bagId, tx.truthId, tx.exe, tx.sink, tx.shot, Ev) /\ EvidenceShape(Ev)
  BY <1>1 DEF Shape, TxShape, Tx, Ev
<1>3. tx.pc \in Built /\ tx.pc \in Paired /\ "nullspace" \in Places
  BY <1>1 DEF Built, Paired, Places, Working
<1>4. /\ TxShape' /\ tx'.pc = "nullspace" /\ tx'.r = tx.r /\ tx'.shot = tx.shot
      /\ Inputs' /\ Executable' /\ Pairs'
  BY <1>1, <1>2, <1>3, Gathers
<1>5. Progress'
  BY <1>4 DEF Progress, Traces, Comparison, Evaluations, SameExecutable,
     Ran, RanNullspace, RanSchur, Compared, Judged
<1> QED  BY <1>1, <1>4, <1>5

LEMMA Launches ==
    ASSUME Shape, Progress, NEW m \in Modes, LaunchMode(m), ~Refuse
    PROVE  /\ TxShape' /\ Progress' /\ tx.pc = m /\ tx'.r = tx.r /\ tx'.shot = tx.shot
           /\ tx'.pc = IF m = "nullspace" THEN "ran nullspace" ELSE "ran schur"
<1> DEFINE c == IF m = "nullspace" THEN "ran nullspace" ELSE "ran schur"
           y == Command(Command(Ev, "runtime_preflight", m), "ros_run", m)
           t(flaw) == [by |-> tx.r, mode |-> m, exe |-> tx.exe, msgs |-> bag[Ev.seq].content,
                       stamps |-> PoseTimes[m], commit |-> Ev.commit, flaw |-> flaw]
<1>1. PICK flaw \in {"none"} \cup Flaws :
         tx' = [tx EXCEPT !.pc = c, !.sink = "held", !.ev = [y EXCEPT !.trace[m] = t(flaw)]]
  BY DEF LaunchMode
<1>2. tx.pc = m /\ bag' = bag /\ HeldBag
  BY DEF LaunchMode, Outside, world
<1> DEFINE u == t(flaw)
           e == [y EXCEPT !.trace[m] = u]
<1>3. tx.pc \in Built /\ tx.pc \in Paired /\ tx.pc \in BoundIn /\ c \in Places
  BY <1>2 DEF Built, Paired, Places, Working, RanNullspace, Modes, BoundIn
<1>4. bag[Ev.seq].content = FrozenMessages
  BY <1>2, <1>3 DEF Progress, Inputs
<1>5. /\ EvidenceShape(y) /\ y.seq = Ev.seq /\ y.unit = Ev.unit /\ y.commit = Ev.commit /\ y.exe = Ev.exe
      /\ y.bag = Ev.bag /\ y.truth = Ev.truth /\ y.pairs = Ev.pairs /\ y.trace = Ev.trace
  <2>1. EvidenceShape(Ev)
    BY DEF Shape, TxShape, Ev
  <2> QED  BY <2>1, CommandShape
<1>6. u.by = tx.r /\ u.mode = m /\ u.msgs = FrozenMessages /\ u.flaw \in {"none"} \cup Flaws
      /\ u.exe = tx.exe
  BY <1>4
<1> HIDE DEF y, u
<1>7. /\ EvidenceShape(e) /\ e.seq = Ev.seq /\ e.unit = Ev.unit /\ e.commit = Ev.commit /\ e.exe = Ev.exe
      /\ e.bag = Ev.bag /\ e.truth = Ev.truth /\ e.pairs = Ev.pairs /\ e.trace[m] = u
      /\ \A n \in Modes \ {m} : e.trace[n] = Ev.trace[n]
  <2>1. e = [y EXCEPT !.trace = [y.trace EXCEPT ![m] = u]]
    BY <1>5 DEF EvidenceShape
  <2> DEFINE w == [y.trace EXCEPT ![m] = u]
  <2>2. w = [n \in Modes |-> w[n]] /\ w[m] = u /\ \A n \in Modes \ {m} : w[n] = Ev.trace[n]
    BY <1>5 DEF EvidenceShape
  <2> HIDE DEF w
  <2>3. e.trace = w /\ EvidenceShape(e)
    BY <2>1, <2>2, <1>5 DEF EvidenceShape
  <2> QED  BY <1>5, <2>1, <2>2, <2>3 DEF EvidenceShape
<1>8. tx' = Tx(c, tx.bagId, tx.truthId, tx.exe, "held", tx.shot, e)
  BY <1>1 DEF Shape, TxShape, Tx, u
<1> HIDE DEF e
<1>9. /\ TxShape' /\ tx'.pc = c /\ tx'.r = tx.r /\ tx'.shot = tx.shot /\ tx'.ev = e /\ tx'.exe = tx.exe
      /\ Inputs' /\ Executable' /\ Pairs'
      /\ \A n \in Modes \ {m} : tx.pc \in Ran(n) => OwnTrace(Ev.trace[n], n)'
  <2> HIDE DEF c
  <2>1. /\ TxShape' /\ tx'.pc = c /\ tx'.r = tx.r /\ tx'.exe = tx.exe /\ tx'.shot = tx.shot
        /\ tx'.ev = e /\ Inputs' /\ Executable'
        /\ (tx.pc \in Paired /\ e.pairs = Ev.pairs => Pairs')
        /\ \A n \in Modes : tx.pc \in Ran(n) /\ e.trace[n] = Ev.trace[n] => OwnTrace(Ev.trace[n], n)'
    BY <1>2, <1>3, <1>7, <1>8, Gathers
  <2> QED  BY <2>1, <1>3, <1>7
<1>10. OwnTrace(Ev.trace[m], m)'
  <2>1. Since(Ev.exe, tx.exe)
    BY <1>3 DEF Progress, Executable
  <2>2. Since(tx.exe, tx.exe)
    BY <2>1, SinceRefl DEF Since
  <2> QED  BY <1>6, <1>7, <1>9, <2>1, <2>2 DEF OwnTrace, Ev
<1>11. Traces'
  <2> SUFFICES ASSUME NEW n \in Modes, n # m, c \in Ran(n)
               PROVE  OwnTrace(Ev.trace[n], n)'
    BY <1>9, <1>10 DEF Traces
  <2>1. tx.pc \in Ran(n)
    <3>1. CASE m = "nullspace"
      <4>1. n = "schur" /\ c = "ran nullspace"
        BY <3>1 DEF Modes
      <4> QED  BY <4>1 DEF Ran, RanSchur, Compared, Judged
    <3>2. CASE m = "schur"
      <4>1. n = "nullspace" /\ tx.pc = "schur"
        BY <1>2, <3>2 DEF Modes
      <4> QED  BY <4>1 DEF Ran, RanNullspace
    <3> QED  BY <3>1, <3>2 DEF Modes
  <2> QED  BY <1>9, <2>1
<1>12. Progress'
  BY <1>9, <1>11 DEF Progress, Comparison, Evaluations, SameExecutable, Compared, Judged
<1> QED  BY <1>2, <1>9, <1>12

LEMMA AcceptsMode ==
    ASSUME Shape, Progress, NEW m \in Modes, AcceptMode(m), ~Refuse
    PROVE  /\ TxShape' /\ Progress' /\ tx'.r = tx.r /\ tx'.shot = tx.shot
           /\ tx.pc = IF m = "nullspace" THEN "ran nullspace" ELSE "ran schur"
           /\ tx'.pc = IF m = "nullspace" THEN "schur" ELSE "inputs"
<1> DEFINE c == IF m = "nullspace" THEN "schur" ELSE "inputs"
<1>1. PICK t : /\ t = Ev.trace[m]
               /\ tx' = [tx EXCEPT !.pc = c, !.ev.trace[m] = t, !.ev.exeOf[m] = tx.exe]
  BY DEF AcceptMode, AcceptTrace
<1>2. tx.pc = (IF m = "nullspace" THEN "ran nullspace" ELSE "ran schur") /\ bag' = bag
  BY DEF AcceptMode, Outside, world
<1> DEFINE w == [Ev.trace EXCEPT ![m] = t]
           z == [Ev.exeOf EXCEPT ![m] = tx.exe]
           e == [Ev EXCEPT !.trace = w, !.exeOf = z]
<1>3. EvidenceShape(Ev)
  BY DEF Shape, TxShape, Ev
<1>4. w = [n \in Modes |-> w[n]] /\ z = [n \in Modes |-> z[n]] /\ \A n \in Modes : w[n] = Ev.trace[n]
  BY <1>1, <1>3 DEF EvidenceShape
<1>5. tx' = Tx(c, tx.bagId, tx.truthId, tx.exe, tx.sink, tx.shot, e)
  <2>1. tx \in [pc : Places, r : {tx.r}, bagId : {tx.bagId}, truthId : {tx.truthId}, exe : {tx.exe},
                sink : {tx.sink}, shot : {tx.shot}, ev : {tx.ev}]
    BY DEF Shape, TxShape
  <2>2. [tx.ev EXCEPT !.trace[m] = t, !.exeOf[m] = tx.exe] = e
    BY <1>3 DEF EvidenceShape, Ev
  <2> HIDE DEF e, c
  <2>3. tx'.ev = [tx.ev EXCEPT !.trace[m] = t, !.exeOf[m] = tx.exe]
    BY <1>1, <2>1
  <2>4. /\ tx' = [pc |-> tx'.pc, r |-> tx'.r, bagId |-> tx'.bagId, truthId |-> tx'.truthId, exe |-> tx'.exe,
                  sink |-> tx'.sink, shot |-> tx'.shot, ev |-> tx'.ev]
        /\ tx'.pc = c /\ tx'.r = tx.r /\ tx'.bagId = tx.bagId /\ tx'.truthId = tx.truthId
        /\ tx'.exe = tx.exe /\ tx'.sink = tx.sink /\ tx'.shot = tx.shot
    BY <1>1, <2>1
  <2> QED  BY <2>2, <2>3, <2>4 DEF Tx
<1> HIDE DEF w, z
<1>6. /\ EvidenceShape(e) /\ e.seq = Ev.seq /\ e.unit = Ev.unit /\ e.commit = Ev.commit /\ e.exe = Ev.exe
      /\ e.bag = Ev.bag /\ e.truth = Ev.truth /\ e.pairs = Ev.pairs /\ e.trace = w
  BY <1>3, <1>4 DEF EvidenceShape
<1> HIDE DEF e
<1>7. tx.pc \in Built /\ tx.pc \in Paired /\ c \in Places
  BY <1>2 DEF Built, Paired, Places, Working, RanNullspace, RanSchur
<1>8. /\ TxShape' /\ tx'.pc = c /\ tx'.r = tx.r /\ tx'.shot = tx.shot
      /\ Inputs' /\ Executable' /\ Pairs'
      /\ \A n \in Modes : tx.pc \in Ran(n) => OwnTrace(Ev.trace[n], n)'
  <2> HIDE DEF c
  <2>0. bag' = bag
    BY <1>2
  <2>1. /\ TxShape' /\ tx'.pc = c /\ tx'.r = tx.r /\ tx'.exe = tx.exe /\ tx'.shot = tx.shot
        /\ tx'.ev = e /\ Inputs' /\ Executable'
        /\ (tx.pc \in Paired /\ e.pairs = Ev.pairs => Pairs')
        /\ \A n \in Modes : tx.pc \in Ran(n) /\ e.trace[n] = Ev.trace[n] => OwnTrace(Ev.trace[n], n)'
    BY <2>0, <1>5, <1>6, <1>7, Gathers
  <2> QED  BY <2>1, <1>4, <1>6, <1>7
<1>9. Traces'
  <2> SUFFICES ASSUME NEW n \in Modes, c \in Ran(n)
               PROVE  OwnTrace(Ev.trace[n], n)'
    BY <1>8 DEF Traces
  <2>1. tx.pc \in Ran(n)
    <3>1. CASE m = "nullspace"
      <4>1. c = "schur" /\ tx.pc = "ran nullspace"
        BY <1>2, <3>1 DEF Modes
      <4> QED  BY <4>1 DEF Ran, RanSchur, RanNullspace, Compared, Judged
    <3>2. CASE m = "schur"
      <4>1. tx.pc = "ran schur"
        BY <1>2, <3>2 DEF Modes
      <4> QED  BY <4>1 DEF Ran, RanNullspace, RanSchur
    <3> QED  BY <3>1, <3>2 DEF Modes
  <2> QED  BY <1>8, <2>1
<1>10. Progress'
  BY <1>8, <1>9 DEF Progress, Comparison, Evaluations, SameExecutable, Compared, Judged
<1> QED  BY <1>2, <1>8, <1>10

\* Both runs are over: a step that leaves the traces alone.
LEMMA Concludes ==
    ASSUME Shape, Progress, bag' = bag, tx.pc \in {"inputs", "math", "evaluate", "executable"},
           NEW c \in Places, NEW e, EvidenceShape(e),
           tx' = Tx(c, tx.bagId, tx.truthId, tx.exe, tx.sink, tx.shot, e),
           e.seq = Ev.seq, e.commit = Ev.commit, e.unit = Ev.unit, e.bag = Ev.bag,
           e.truth = Ev.truth, e.exe = Ev.exe, e.pairs = Ev.pairs, e.trace = Ev.trace
    PROVE  /\ TxShape' /\ tx'.pc = c /\ tx'.r = tx.r /\ tx'.exe = tx.exe /\ tx'.shot = tx.shot
           /\ tx'.ev = e /\ Inputs' /\ Executable' /\ Pairs' /\ Traces'
<1>1. tx.pc \in Built /\ tx.pc \in Paired /\ \A m \in Modes : tx.pc \in Ran(m)
  BY DEF Built, Paired, Ran, RanNullspace, RanSchur, Compared, Judged
<1>2. /\ TxShape' /\ tx'.pc = c /\ tx'.r = tx.r /\ tx'.exe = tx.exe /\ tx'.shot = tx.shot
      /\ tx'.ev = e /\ Inputs' /\ Executable'
      /\ (tx.pc \in Paired /\ e.pairs = Ev.pairs => Pairs')
      /\ \A n \in Modes : tx.pc \in Ran(n) /\ e.trace[n] = Ev.trace[n] => OwnTrace(Ev.trace[n], n)'
  BY <1>1, Gathers
<1> QED  BY <1>1, <1>2 DEF Traces

LEMMA Rehashes ==
    ASSUME Shape, Progress, RehashInputs, ~Refuse
    PROVE  TxShape' /\ Progress' /\ tx.pc = "inputs" /\ tx'.pc = "math" /\ tx'.r = tx.r /\ tx'.shot = tx.shot
<1> DEFINE e == [Ev EXCEPT !.bagAfter = bag[Ev.seq].content]
<1>1. tx.pc = "inputs" /\ bag' = bag /\ tx' = [tx EXCEPT !.pc = "math", !.ev = e]
  BY DEF RehashInputs, Records, Outside, world
<1>2. /\ EvidenceShape(e) /\ e.seq = Ev.seq /\ e.unit = Ev.unit /\ e.commit = Ev.commit /\ e.exe = Ev.exe
      /\ e.bag = Ev.bag /\ e.truth = Ev.truth /\ e.pairs = Ev.pairs /\ e.trace = Ev.trace
  BY DEF Shape, TxShape, EvidenceShape, Ev
<1> HIDE DEF e
<1>3. tx' = Tx("math", tx.bagId, tx.truthId, tx.exe, tx.sink, tx.shot, e) /\ "math" \in Places
  BY <1>1 DEF Shape, TxShape, Tx, Places, Working
<1>4. /\ TxShape' /\ tx'.pc = "math" /\ tx'.r = tx.r /\ tx'.shot = tx.shot
      /\ Inputs' /\ Executable' /\ Pairs' /\ Traces'
  BY <1>1, <1>2, <1>3, Concludes
<1>5. Progress'
  BY <1>4 DEF Progress, Comparison, Evaluations, SameExecutable, Compared, Judged
<1> QED  BY <1>1, <1>4, <1>5

LEMMA Compares ==
    ASSUME Shape, Progress, DirectMath, ~Refuse
    PROVE  TxShape' /\ Progress' /\ tx.pc = "math" /\ tx'.pc = "evaluate" /\ tx'.r = tx.r /\ tx'.shot = tx.shot
<1> DEFINE q == Request(Ev.trace, Ev.truth)
           y == Command(Ev, "evaluation", "direct")
<1>1. PICK close \in BOOLEAN, env \in {"clean"} \cup WorkerFlaws :
         /\ WorkerRuns(env) /\ ResponseDecodes(Response(q, unit, close, env), q) /\ Authorized
         /\ tx' = [tx EXCEPT !.pc = "evaluate",
                             !.ev = [y EXCEPT !.request = q, !.response = Response(q, unit, close, env)]]
  BY DEF DirectMath
<1>2. tx.pc = "math" /\ bag' = bag
  BY DEF DirectMath, Outside, world
<1> DEFINE p == Response(q, unit, close, env)
           e == [y EXCEPT !.request = q, !.response = p]
<1>3. /\ EvidenceShape(y) /\ y.seq = Ev.seq /\ y.unit = Ev.unit /\ y.commit = Ev.commit /\ y.exe = Ev.exe
      /\ y.bag = Ev.bag /\ y.truth = Ev.truth /\ y.pairs = Ev.pairs /\ y.trace = Ev.trace
  <2>1. EvidenceShape(Ev)
    BY DEF Shape, TxShape, Ev
  <2> QED  BY <2>1, CommandShape
<1>4. p.request = q /\ p.unit = Ev.unit /\ p.env = "clean" /\ p.close = TRUE
  <2>1. env = "clean"
    BY <1>1 DEF WorkerRuns, WorkerEnvironment, ImportIsolation, LoaderIsolation, ThreadState, WorkerFlaws
  <2>2. close = TRUE /\ unit = Ev.unit
    BY <1>1 DEF ResponseDecodes, ResponseMetrics, Authorized, Response
  <2> QED  BY <2>1, <2>2 DEF Response
<1> HIDE DEF q, p, y
<1>5. /\ EvidenceShape(e) /\ e.seq = Ev.seq /\ e.unit = Ev.unit /\ e.commit = Ev.commit /\ e.exe = Ev.exe
      /\ e.bag = Ev.bag /\ e.truth = Ev.truth /\ e.pairs = Ev.pairs /\ e.trace = Ev.trace
      /\ e.request = q /\ e.response = p
  BY <1>3 DEF EvidenceShape
<1>6. tx' = Tx("evaluate", tx.bagId, tx.truthId, tx.exe, tx.sink, tx.shot, e) /\ "evaluate" \in Places
  BY <1>1 DEF Shape, TxShape, Tx, Places, Working, p
<1> HIDE DEF e
<1>7. /\ TxShape' /\ tx'.pc = "evaluate" /\ tx'.r = tx.r /\ tx'.shot = tx.shot /\ tx'.ev = e
      /\ Inputs' /\ Executable' /\ Pairs' /\ Traces'
  BY <1>2, <1>5, <1>6, Concludes
<1>8. Comparison'
  BY <1>4, <1>5, <1>7 DEF Comparison, Ev, q
<1>9. Progress'
  BY <1>7, <1>8 DEF Progress, Evaluations, SameExecutable, Judged
<1> QED  BY <1>2, <1>7, <1>9

LEMMA RunsEvaluators ==
    ASSUME Shape, Progress, RunEvaluators, ~Refuse
    PROVE  TxShape' /\ Progress' /\ tx.pc = "evaluate" /\ tx'.pc = "executable" /\ tx'.r = tx.r
           /\ tx'.shot = tx.shot
<1> DEFINE y == Command(Command(Ev, "evaluation", "nullspace"), "evaluation", "schur")
           x(bad, flaw) == [m \in Modes |-> [response |-> Ev.response, mode |-> m,
                                             flaw |-> IF m = bad THEN flaw ELSE "none"]]
<1>1. PICK bad \in Modes, flaw \in {"none"} \cup ResultFlaws \cup (WorkerFlaws \ {"threads"}) :
         /\ \A m \in Modes : /\ EvaluatorRuns(x(bad, flaw)[m].flaw, x(bad, flaw)[m].response)
                             /\ ArchiveParses(x(bad, flaw)[m])
         /\ tx' = [tx EXCEPT !.pc = "executable", !.ev = [y EXCEPT !.archive = x(bad, flaw)]]
  BY DEF RunEvaluators
<1>2. tx.pc = "evaluate" /\ bag' = bag
  BY DEF RunEvaluators, Outside, world
<1> DEFINE a == x(bad, flaw)
           e == [y EXCEPT !.archive = a]
<1>3. /\ EvidenceShape(y) /\ y.seq = Ev.seq /\ y.unit = Ev.unit /\ y.commit = Ev.commit /\ y.exe = Ev.exe
      /\ y.bag = Ev.bag /\ y.truth = Ev.truth /\ y.pairs = Ev.pairs /\ y.trace = Ev.trace
      /\ y.request = Ev.request /\ y.response = Ev.response
  <2>1. EvidenceShape(Ev)
    BY DEF Shape, TxShape, Ev
  <2> QED  BY <2>1, CommandShape
<1>4. \A m \in Modes : a[m].response = Ev.response /\ a[m].flaw \in {"none", "rmse"}
  <2>1. flaw \in {"none", "rmse"}
    <3>1. a[bad].flaw = flaw
      BY <1>1
    <3> HIDE DEF x
    <3>2. EvaluatorRuns(a[bad].flaw, a[bad].response) /\ ArchiveParses(a[bad])
      BY <1>1
    <3> QED  BY <3>1, <3>2 DEF EvaluatorRuns, EvaluatorEnvironment, EvaluatorImports, EvaluatorLoader,
                ArchiveParses, ArchiveMembers, ErrorArray, ArchiveStatistics, ConsoleToken, ResultFlaws,
                WorkerFlaws
  <2> QED  BY <2>1
<1> HIDE DEF a, y
<1>5. /\ EvidenceShape(e) /\ e.seq = Ev.seq /\ e.unit = Ev.unit /\ e.commit = Ev.commit /\ e.exe = Ev.exe
      /\ e.bag = Ev.bag /\ e.truth = Ev.truth /\ e.pairs = Ev.pairs /\ e.trace = Ev.trace
      /\ e.request = Ev.request /\ e.response = Ev.response /\ e.archive = a
  BY <1>3 DEF EvidenceShape
<1>6. tx' = Tx("executable", tx.bagId, tx.truthId, tx.exe, tx.sink, tx.shot, e) /\ "executable" \in Places
  BY <1>1 DEF Shape, TxShape, Tx, Places, Working, a
<1> HIDE DEF e
<1>7. /\ TxShape' /\ tx'.pc = "executable" /\ tx'.r = tx.r /\ tx'.shot = tx.shot /\ tx'.ev = e
      /\ Inputs' /\ Executable' /\ Pairs' /\ Traces'
  BY <1>2, <1>5, <1>6, Concludes
<1>8. Comparison'
  BY <1>2, <1>5, <1>7 DEF Progress, Comparison, Ev, Compared
<1>9. Evaluations'
  BY <1>4, <1>5, <1>7 DEF Evaluations, Ev
<1>10. Progress'
  BY <1>7, <1>8, <1>9 DEF Progress, SameExecutable
<1> QED  BY <1>2, <1>7, <1>10

LEMMA HashesExecutable ==
    ASSUME Shape, Progress, ExecutableAfter, ~Refuse
    PROVE  TxShape' /\ Progress' /\ tx.pc = "executable" /\ tx'.pc = "assemble" /\ tx'.r = tx.r
           /\ tx'.shot = tx.shot
<1> DEFINE e == [Ev EXCEPT !.exeAfter = tx.exe]
<1>1. tx.pc = "executable" /\ bag' = bag /\ tx' = [tx EXCEPT !.pc = "assemble", !.ev = e] /\ tx.exe = Ev.exe
  BY DEF ExecutableAfter, Records, Outside, world
<1>2. /\ EvidenceShape(e) /\ e.seq = Ev.seq /\ e.unit = Ev.unit /\ e.commit = Ev.commit /\ e.exe = Ev.exe
      /\ e.bag = Ev.bag /\ e.truth = Ev.truth /\ e.pairs = Ev.pairs /\ e.trace = Ev.trace
      /\ e.request = Ev.request /\ e.response = Ev.response /\ e.archive = Ev.archive
  BY DEF Shape, TxShape, EvidenceShape, Ev
<1> HIDE DEF e
<1>3. tx' = Tx("assemble", tx.bagId, tx.truthId, tx.exe, tx.sink, tx.shot, e) /\ "assemble" \in Places
  BY <1>1 DEF Shape, TxShape, Tx, Places, Working
<1>4. /\ TxShape' /\ tx'.pc = "assemble" /\ tx'.r = tx.r /\ tx'.shot = tx.shot /\ tx'.ev = e
      /\ Inputs' /\ Executable' /\ Pairs' /\ Traces'
  BY <1>1, <1>2, <1>3, Concludes
<1>5. Comparison' /\ Evaluations'
  BY <1>1, <1>2, <1>4 DEF Progress, Comparison, Evaluations, Ev, Compared, Judged
<1>6. SameExecutable'
  <2> SUFFICES ASSUME NEW m \in Modes PROVE Ev.trace[m].exe = Ev.exe
    BY <1>2, <1>4 DEF SameExecutable, Ev
  <2>1. tx.pc \in Ran(m)
    BY <1>1 DEF Ran, RanNullspace, RanSchur, Compared, Judged
  <2>2. Since(Ev.exe, Ev.trace[m].exe) /\ Since(Ev.trace[m].exe, tx.exe)
    BY <2>1 DEF Progress, Traces, OwnTrace
  <2> QED  BY <1>1, <2>2, SinceEqual
<1>7. Progress'
  BY <1>4, <1>5, <1>6 DEF Progress
<1> QED  BY <1>1, <1>4, <1>7

\* What passes the assembly is genuine.
LEMMA AssemblesGenuine ==
    ASSUME Progress, tx.pc = "assemble", AssemblyHolds(Ev)
    PROVE  Genuine(Ev, tx.r)
<1>1. tx.pc \in BoundIn /\ tx.pc \in Built /\ tx.pc \in Paired /\ tx.pc \in Compared /\ tx.pc \in Judged /\ Running
      /\ \A m \in Modes : tx.pc \in Ran(m)
  BY DEF BoundIn, Built, Paired, Ran, RanNullspace, RanSchur, Compared, Judged, Running
<1>2. ASSUME NEW m \in Modes
      PROVE  /\ Ev.trace[m].by = tx.r /\ Ev.trace[m].mode = m /\ Ev.trace[m].exe = Ev.exe
             /\ Ev.trace[m].msgs = FrozenMessages /\ Ev.trace[m].flaw = "none"
             /\ Ev.archive[m].response = Ev.response /\ Ev.archive[m].flaw = "none"
  <2>1. OwnTrace(Ev.trace[m], m) /\ Ev.trace[m].exe = Ev.exe
    BY <1>1, <1>2 DEF Progress, Traces, SameExecutable
  <2>2. Ev.archive[m].response = Ev.response /\ Ev.archive[m].flaw \in {"none", "rmse"}
    BY <1>1, <1>2 DEF Progress, Evaluations
  <2>3. Ev.archive[m].flaw # "rmse"
    BY <1>2 DEF AssemblyHolds, MetricArtifacts
  <2>4. Ev.trace[m].flaw \notin Flaws
    BY <1>2 DEF AssemblyHolds, ModeHolds, ModeTrace, CallbacksJoin, TrajectoryJoins, ParametersJoin,
                ProvenanceRuntime, Flaws
  <2> QED  BY <2>1, <2>2, <2>3, <2>4 DEF OwnTrace
<1>3. Ev.exe[1] = Ev.commit /\ Ev.pairs = Walk(FrozenMessages)
  BY <1>1 DEF Progress, Executable, Pairs
<1>4. Ev.truth = FrozenTruth /\ Ev.unit = Ev.commit
  BY <1>1 DEF Progress, Inputs
<1>5. Ev.response.request = [nullspace |-> Ev.trace["nullspace"], schur |-> Ev.trace["schur"],
                             truth |-> FrozenTruth]
  BY <1>1, <1>4 DEF Progress, Comparison, Request
<1>6. Ev.response.unit = Ev.commit /\ Ev.response.env = "clean" /\ Ev.response.close
  BY <1>1, <1>4 DEF Progress, Comparison
<1> QED  BY <1>2, <1>3, <1>5, <1>6 DEF Genuine

\* Past the assembly the evidence of the transaction is only its snapshot.
LEMMA Proceeds ==
    ASSUME Shape, Progress, tx.pc \in Assembled \cup {"assemble"}, NEW c \in Assembled, NEW h,
           tx' = Tx(c, tx.bagId, tx.truthId, tx.exe, tx.sink, h, tx.ev)
    PROVE  TxShape' /\ Progress' /\ tx'.pc = c /\ tx'.r = tx.r /\ tx'.shot = h
<1>1. Running /\ c \in Places /\ EvidenceShape(tx.ev)
  BY DEF Assembled, Running, Places, Working, Shape, TxShape
<1>2. TxShape' /\ tx'.pc = c /\ tx'.r = tx.r /\ tx'.shot = h /\ tx'.ev = tx.ev
  BY <1>1, GoesOn DEF Shape
<1>3. c \notin BoundIn /\ c \notin Built /\ c \notin Paired /\ c \notin Compared /\ c \notin Judged
      /\ c # "assemble" /\ \A m \in Modes : c \notin Ran(m)
  BY DEF Assembled, BoundIn, Built, Paired, Ran, RanNullspace, RanSchur, Compared, Judged
<1>4. Inputs'
  BY <1>1, <1>2, <1>3 DEF Progress, Inputs, Ev
<1> QED  BY <1>2, <1>3, <1>4 DEF Progress, Executable, Pairs, Traces, Comparison, Evaluations, SameExecutable

-----------------------------------------------------------------------------
\* The kinds of steps.

\* The transaction goes on in its hidden directory, which nothing changes.
LEMMA Stays ==
    ASSUME IInv, tx.pc \in Working, tx'.pc \in Working, tx'.r = tx.r,
           UNCHANGED <<art, sums, at, disk, mark, said, sets, bag>>
    PROVE  StoreShape' /\ BagShape' /\ Names' /\ Finals' /\ Accepted'
<1>1. StoreShape' /\ BagShape'
  BY DEF IInv, Shape, StoreShape, BagShape
<1>2. Running /\ Running'
  BY DEF Working, Running
<1>3. \A r \in Runs : NameOf(r)'
  BY DEF IInv, Names, NameOf
<1>4. NameOfRun'
  BY <1>2 DEF IInv, Names, NameOfRun, Working
<1>5. Finals'
  BY DEF IInv, Finals
<1>6. Accepted'
  BY DEF IInv, Accepted
<1> QED  BY <1>1, <1>3, <1>4, <1>5, <1>6 DEF Names

LEMMA Grows ==
    ASSUME IInv, tx.pc \in Working, tx'.pc \in Working \ Assembled, tx'.r = tx.r, TxShape', Progress',
           UNCHANGED <<store, said, sets, bag>>
    PROVE  IInv'
<1>1. UNCHANGED <<art, sums, at, disk, mark, said, sets, bag>>
  BY DEF store
<1>2. StoreShape' /\ BagShape' /\ Names' /\ Finals' /\ Accepted'
  BY <1>1, Stays
<1>3. Snapshot'
  BY DEF Snapshot, Assembled
<1> QED  BY <1>2, <1>3 DEF IInv, Shape

\* The transaction is over.
LEMMA IdleIs ==
    ASSUME tx' = Idle
    PROVE  TxShape' /\ Progress' /\ Snapshot' /\ NameOfRun' /\ tx'.pc = "idle"
<1>1. tx'.pc = "idle" /\ ~Running' /\ tx'.ev = Nothing
  BY DEF Idle, Running
<1>2. EvidenceShape(Nothing)
  BY DEF EvidenceShape, Nothing
<1>3. TxShape'
  <2>1. tx' \in [pc : Places, r : {tx'.r}, bagId : {tx'.bagId}, truthId : {tx'.truthId}, exe : {tx'.exe},
                 sink : {tx'.sink}, shot : {tx'.shot}, ev : {tx'.ev}]
    BY DEF Idle, Places
  <2> QED  BY <1>1, <1>2, <2>1 DEF TxShape
<1>4. Progress'
  BY <1>1 DEF Progress, Inputs, Executable, Pairs, Traces, Comparison, Evaluations, SameExecutable,
     BoundIn, Built, Paired, Ran, RanNullspace, RanSchur, Compared, Judged
<1>5. Snapshot'
  BY <1>1 DEF Snapshot, Assembled
<1>6. NameOfRun'
  BY <1>1 DEF NameOfRun, Working
<1> QED  BY <1>1, <1>3, <1>4, <1>5, <1>6

LEMMA Ends ==
    ASSUME IInv, tx' = Idle, UNCHANGED <<art, sums, sets, bag>>, StoreShape',
           \A r \in Runs : NameOf(r)',
           \A r \in Runs : at'[r] = "final" => at[r] = "final",
           \A r \in Runs : at'[r] = "none" => at[r] = "none"
    PROVE  IInv'
<1>1. TxShape' /\ Progress' /\ Snapshot' /\ NameOfRun' /\ tx'.pc = "idle"
  BY IdleIs
<1>2. BagShape'
  BY DEF IInv, Shape, BagShape
<1>3. Finals'
  BY DEF IInv, Finals
<1>4. Accepted'
  <2>1. tx'.pc \notin Working
    BY <1>1 DEF Working
  <2> SUFFICES ASSUME NEW q \in sets, NEW s \in Indices
               PROVE  /\ q \in [Indices -> Runs] /\ art[q[s]].seq = s /\ art[q[s]].exe = art[q[0]].exe
                      /\ art[q[s]].commit = art[q[0]].commit /\ at'[q[s]] # "none"
    BY <2>1 DEF IInv, Accepted
  <2>2. /\ q \in [Indices -> Runs] /\ art[q[s]].seq = s /\ art[q[s]].exe = art[q[0]].exe
        /\ art[q[s]].commit = art[q[0]].commit /\ at[q[s]] # "none"
    BY DEF IInv, Accepted
  <2>3. q[s] \in Runs
    BY <2>2
  <2> QED  BY <2>2, <2>3
<1> QED  BY <1>1, <1>2, <1>3, <1>4 DEF IInv, Shape, Names

LEMMA Refusal ==
    ASSUME IInv, tx.pc \in Working, Refuse, Outside
    PROVE  IInv'
<1>1. /\ tx' = Idle /\ said' = [said EXCEPT ![tx.r] = "failed"]
      /\ (mark' = [mark EXCEPT ![tx.r] = (at[tx.r] = "hidden")] \/ mark' = mark)
      /\ UNCHANGED <<art, sums, at, disk, sets, bag>>
  BY DEF Refuse, RetainFailure, Outside, world
<1>2. /\ tx.r \in Runs /\ at[tx.r] = "hidden" /\ disk[tx.r] = "hidden" /\ said[tx.r] = "none"
      /\ ~mark[tx.r]
  BY DEF IInv, Shape, TxShape, Names, NameOfRun, Running, Working
<1>3. StoreShape'
  BY <1>1 DEF IInv, Shape, StoreShape
<1>4. \A r \in Runs : NameOf(r)'
  <2> SUFFICES ASSUME NEW r \in Runs PROVE NameOf(r)'
    OBVIOUS
  <2>1. NameOf(r) /\ mark[r] \in BOOLEAN /\ said \in [Runs -> {"none", "failed", "indeterminate", "killed", "passed"}]
        /\ mark \in [Runs -> BOOLEAN]
    BY DEF IInv, Names, Shape, StoreShape
  <2>2. CASE r = tx.r
    <3>1. said'[r] = "failed" /\ at'[r] = "hidden" /\ disk'[r] = "hidden"
      BY <1>1, <1>2, <2>1, <2>2
    <3> QED  BY <3>1 DEF NameOf
  <2>3. CASE r # tx.r
    <3>1. said'[r] = said[r] /\ mark'[r] = mark[r] /\ at'[r] = at[r] /\ disk'[r] = disk[r]
      BY <1>1, <1>2, <2>1, <2>3
    <3> QED  BY <2>1, <3>1 DEF NameOf
  <2> QED  BY <2>2, <2>3
<1> QED  BY <1>1, <1>3, <1>4, Ends

\* Only the directory and the report of one run change.
LEMMA OneRun ==
    ASSUME IInv, NEW x \in Runs, NEW a \in {"none", "hidden", "final"}, NEW d \in {"none", "hidden", "final"},
           NEW k \in BOOLEAN, NEW w \in {"none", "failed", "indeterminate", "killed", "passed"},
           at' = [at EXCEPT ![x] = a], disk' = [disk EXCEPT ![x] = d], mark' = [mark EXCEPT ![x] = k],
           said' = [said EXCEPT ![x] = w]
    PROVE  /\ at'[x] = a /\ disk'[x] = d /\ mark'[x] = k /\ said'[x] = w
           /\ \A r \in Runs \ {x} : /\ at'[r] = at[r] /\ disk'[r] = disk[r] /\ mark'[r] = mark[r]
                                    /\ said'[r] = said[r] /\ NameOf(r)'
           /\ at' \in [Runs -> {"none", "hidden", "final"}] /\ disk' \in [Runs -> {"none", "hidden", "final"}]
           /\ mark' \in [Runs -> BOOLEAN]
           /\ said' \in [Runs -> {"none", "failed", "indeterminate", "killed", "passed"}]
<1>1. /\ at \in [Runs -> {"none", "hidden", "final"}] /\ disk \in [Runs -> {"none", "hidden", "final"}]
      /\ mark \in [Runs -> BOOLEAN]
      /\ said \in [Runs -> {"none", "failed", "indeterminate", "killed", "passed"}]
  BY DEF IInv, Shape, StoreShape
<1>2. at'[x] = a /\ disk'[x] = d /\ mark'[x] = k /\ said'[x] = w
  BY <1>1
<1>3. /\ at' \in [Runs -> {"none", "hidden", "final"}] /\ disk' \in [Runs -> {"none", "hidden", "final"}]
      /\ mark' \in [Runs -> BOOLEAN]
      /\ said' \in [Runs -> {"none", "failed", "indeterminate", "killed", "passed"}]
  BY <1>1
<1>4. ASSUME NEW r \in Runs \ {x}
      PROVE  at'[r] = at[r] /\ disk'[r] = disk[r] /\ mark'[r] = mark[r] /\ said'[r] = said[r] /\ NameOf(r)'
  <2>1. at'[r] = at[r] /\ disk'[r] = disk[r] /\ mark'[r] = mark[r] /\ said'[r] = said[r]
    BY <1>1, <1>4
  <2>2. NameOf(r)
    BY <1>4 DEF IInv, Names
  <2> QED  BY <2>1, <2>2 DEF NameOf
<1> QED  BY <1>2, <1>3, <1>4

\* A transaction ends and leaves the directory of its run so.
LEMMA EndsWith ==
    ASSUME IInv, Running, NEW a \in {at[tx.r], "hidden"}, NEW d \in {"hidden", "final"},
           NEW k \in BOOLEAN, NEW w \in {"failed", "indeterminate", "killed", "passed"},
           at' = [at EXCEPT ![tx.r] = a], disk' = [disk EXCEPT ![tx.r] = d], mark' = [mark EXCEPT ![tx.r] = k],
           said' = [said EXCEPT ![tx.r] = w], tx' = Idle, UNCHANGED <<art, sums, sets, bag>>,
           d = "final" => a = "final", k => a = "hidden" /\ d = "hidden", w = "passed" => d = "final",
           w = "failed" /\ a = "final" => d = "final"
    PROVE  IInv'
<1>0. PICK x : x = tx.r
  OBVIOUS
<1>1. x \in Runs /\ at[x] \in {"hidden", "final"}
  <2>1. x \in Runs /\ tx.pc \in Places
    BY <1>0 DEF IInv, Shape, TxShape
  <2> QED  BY <1>0, <2>1 DEF IInv, Names, NameOfRun, Running, Places
<1>2. /\ at'[x] = a /\ disk'[x] = d /\ mark'[x] = k /\ said'[x] = w
      /\ \A r \in Runs \ {x} : /\ at'[r] = at[r] /\ disk'[r] = disk[r] /\ mark'[r] = mark[r]
                               /\ said'[r] = said[r] /\ NameOf(r)'
      /\ at' \in [Runs -> {"none", "hidden", "final"}] /\ disk' \in [Runs -> {"none", "hidden", "final"}]
      /\ mark' \in [Runs -> BOOLEAN]
      /\ said' \in [Runs -> {"none", "failed", "indeterminate", "killed", "passed"}]
  <2>1. /\ a \in {"none", "hidden", "final"} /\ d \in {"none", "hidden", "final"}
        /\ w \in {"none", "failed", "indeterminate", "killed", "passed"}
    BY <1>0, <1>1
  <2>2. /\ at' = [at EXCEPT ![x] = a] /\ disk' = [disk EXCEPT ![x] = d] /\ mark' = [mark EXCEPT ![x] = k]
        /\ said' = [said EXCEPT ![x] = w]
    BY <1>0
  <2> QED  BY <1>1, <2>1, <2>2, OneRun
<1>3. StoreShape'
  BY <1>2 DEF IInv, Shape, StoreShape
<1>4. NameOf(x)' /\ (at'[x] = "final" => at[x] = "final") /\ at'[x] # "none"
  <2>1. a \in {"hidden", "final"} /\ (a = "final" => at[x] = "final") /\ a # "none" /\ d # "none"
    BY <1>0, <1>1
  <2>2. mark'[x] => at'[x] = "hidden" /\ disk'[x] = "hidden"
    BY <1>2, Zenon
  <2>3. at'[x] # "none" /\ disk'[x] # "none" /\ (at'[x] = "final" => at[x] = "final")
    BY <1>2, <2>1
  <2>4. /\ disk'[x] = "final" => at'[x] = "final"
        /\ said'[x] = "passed" => disk'[x] = "final"
        /\ said'[x] = "failed" /\ at'[x] = "final" => disk'[x] = "final"
    BY <1>2, Zenon
  <2> QED  BY <2>2, <2>3, <2>4, Zenon DEF NameOf
<1>5. /\ \A r \in Runs : NameOf(r)'
      /\ \A r \in Runs : at'[r] = "final" => at[r] = "final"
      /\ \A r \in Runs : at'[r] = "none" => at[r] = "none"
  <2> SUFFICES ASSUME NEW r \in Runs
               PROVE  NameOf(r)' /\ (at'[r] = "final" => at[r] = "final") /\ (at'[r] = "none" => at[r] = "none")
    BY Zenon
  <2>1. CASE r = x
    BY <1>4, <2>1
  <2>2. CASE r # x
    <3>1. r \in Runs \ {x}
      BY <2>2
    <3> QED  BY <1>2, <3>1, Zenon
  <2> QED  BY <2>1, <2>2
<1> QED  BY <1>3, <1>5, Ends

\* Something is set to what it is.
LEMMA Same ==
    ASSUME IInv, NEW x \in Runs
    PROVE  at = [at EXCEPT ![x] = at[x]] /\ disk = [disk EXCEPT ![x] = disk[x]] /\ mark = [mark EXCEPT ![x] = mark[x]]
           /\ said = [said EXCEPT ![x] = said[x]]
BY DEF IInv, Shape, StoreShape

LEMMA RunIs ==
    ASSUME IInv, Running
    PROVE  /\ tx.r \in Runs /\ said[tx.r] = "none" /\ ~mark[tx.r] /\ mark[tx.r] = FALSE
           /\ at[tx.r] \in {"hidden", "final"} /\ disk[tx.r] \in {"hidden", "final"}
           /\ (disk[tx.r] = "final" => at[tx.r] = "final")
<1>1. tx.r \in Runs /\ tx.pc \in Places /\ mark \in [Runs -> BOOLEAN]
  BY DEF IInv, Shape, TxShape, StoreShape
<1>2. said[tx.r] = "none" /\ ~mark[tx.r]
  BY DEF IInv, Names, NameOfRun
<1>3. /\ at[tx.r] \in {"hidden", "final"} /\ disk[tx.r] \in {"hidden", "final"}
      /\ (disk[tx.r] = "final" => at[tx.r] = "final")
  BY <1>1 DEF IInv, Names, NameOfRun, Running, Places
<1> QED  BY <1>1, <1>2, <1>3

LEMMA RenameFailsKeeps ==
    ASSUME IInv, RenameFails
    PROVE  IInv'
<1>1. /\ tx.pc = "publish" /\ tx' = Idle /\ mark' = [mark EXCEPT ![tx.r] = TRUE]
      /\ UNCHANGED <<art, sums, at, disk, sets, bag>>
  BY DEF RenameFails, Outside, world
<1>2. PICK w \in {"failed", "indeterminate"} : said' = [said EXCEPT ![tx.r] = w]
  BY DEF RenameFails
<1>3. Running /\ tx.pc \in Working
  BY <1>1 DEF Running, Working
<1>4. tx.r \in Runs /\ at[tx.r] = "hidden" /\ disk[tx.r] = "hidden"
  BY <1>3, RunIs DEF IInv, Names, NameOfRun
<1>5. at' = [at EXCEPT ![tx.r] = "hidden"] /\ disk' = [disk EXCEPT ![tx.r] = "hidden"]
  BY <1>1, <1>4, Same
<1> QED  BY <1>1, <1>2, <1>3, <1>5, EndsWith

LEMMA RollBackKeeps ==
    ASSUME IInv, RollBack
    PROVE  IInv'
<1>1. /\ tx.pc = "renamed" /\ tx' = Idle /\ mark' = [mark EXCEPT ![tx.r] = TRUE]
      /\ at' = [at EXCEPT ![tx.r] = "hidden"] /\ disk' = [disk EXCEPT ![tx.r] = "hidden"]
      /\ said' = [said EXCEPT ![tx.r] = "failed"] /\ UNCHANGED <<art, sums, sets, bag>>
  BY DEF RollBack, Outside, world
<1>2. Running
  BY <1>1 DEF Running
<1> QED  BY <1>1, <1>2, EndsWith

LEMMA RollBackFailsKeeps ==
    ASSUME IInv, RollBackFails
    PROVE  IInv'
<1>1. /\ tx.pc = "renamed" /\ tx' = Idle /\ said' = [said EXCEPT ![tx.r] = "indeterminate"]
      /\ UNCHANGED <<art, sums, at, disk, mark, sets, bag>>
  BY DEF RollBackFails, Outside, world, store
<1>2. Running
  BY <1>1 DEF Running
<1>3. /\ at' = [at EXCEPT ![tx.r] = at[tx.r]] /\ disk' = [disk EXCEPT ![tx.r] = disk[tx.r]]
      /\ mark' = [mark EXCEPT ![tx.r] = FALSE]
  BY <1>1, <1>2, RunIs, Same
<1>4. disk[tx.r] \in {"hidden", "final"} /\ (disk[tx.r] = "final" => at[tx.r] = "final")
  BY <1>2, RunIs
<1> QED  BY <1>1, <1>2, <1>3, <1>4, EndsWith

LEMMA ReportKeeps ==
    ASSUME IInv, Report
    PROVE  IInv'
<1>1. /\ tx.pc = "committed" /\ tx' = Idle /\ UNCHANGED <<art, sums, at, disk, mark, sets, bag>>
  BY DEF Report, Outside, world, store
<1>2. PICK w \in {"failed", "passed"} : said' = [said EXCEPT ![tx.r] = w]
  BY DEF Report
<1>3. Running /\ at[tx.r] = "final" /\ disk[tx.r] = "final"
  BY <1>1 DEF Running, IInv, Names, NameOfRun
<1>4. /\ at' = [at EXCEPT ![tx.r] = at[tx.r]] /\ disk' = [disk EXCEPT ![tx.r] = "final"]
      /\ mark' = [mark EXCEPT ![tx.r] = FALSE]
  BY <1>1, <1>3, RunIs, Same
<1> QED  BY <1>1, <1>2, <1>3, <1>4, EndsWith

LEMMA KillKeeps ==
    ASSUME IInv, Kill
    PROVE  IInv'
<1>1. /\ Running /\ tx' = Idle /\ said' = [said EXCEPT ![tx.r] = "killed"]
      /\ UNCHANGED <<art, sums, at, disk, mark, sets, bag>>
  BY DEF Kill, Outside, world, store
<1>2. /\ at' = [at EXCEPT ![tx.r] = at[tx.r]] /\ disk' = [disk EXCEPT ![tx.r] = disk[tx.r]]
      /\ mark' = [mark EXCEPT ![tx.r] = FALSE]
  BY <1>1, RunIs, Same
<1>3. disk[tx.r] \in {"hidden", "final"} /\ (disk[tx.r] = "final" => at[tx.r] = "final")
  BY <1>1, RunIs
<1> QED  BY <1>1, <1>2, <1>3, EndsWith

LEMMA PowerLossKeeps ==
    ASSUME IInv, PowerLoss
    PROVE  IInv'
<1>1. tx' = Idle /\ at' = disk /\ UNCHANGED <<art, sums, disk, mark, sets, bag>>
  BY DEF PowerLoss, Outside, world
<1>2. \A r \in Runs : said'[r] = said[r] \/ (said'[r] = "killed" /\ disk[r] # "none")
  <2>1. CASE Running
    <3>1. tx.r \in Runs /\ disk[tx.r] # "none" /\ said' = [said EXCEPT ![tx.r] = "killed"]
      BY <2>1, RunIs DEF PowerLoss
    <3> QED  BY <3>1 DEF IInv, Shape, StoreShape
  <2>2. CASE ~Running
    BY <2>2 DEF PowerLoss
  <2> QED  BY <2>1, <2>2
<1>3. StoreShape'
  <2>1. said' \in [Runs -> {"none", "failed", "indeterminate", "killed", "passed"}]
    BY DEF PowerLoss, IInv, Shape, StoreShape
  <2> QED  BY <1>1, <2>1 DEF IInv, Shape, StoreShape
<1>4. \A r \in Runs : NameOf(r)' /\ (at'[r] = "final" => at[r] = "final") /\ (at'[r] = "none" => at[r] = "none")
  <2> SUFFICES ASSUME NEW r \in Runs
               PROVE  NameOf(r)' /\ (at'[r] = "final" => at[r] = "final") /\ (at'[r] = "none" => at[r] = "none")
    OBVIOUS
  <2>1. NameOf(r) /\ at'[r] = disk[r] /\ disk'[r] = disk[r] /\ mark'[r] = mark[r]
    BY <1>1 DEF IInv, Names
  <2>2. said'[r] = said[r] \/ (said'[r] = "killed" /\ disk[r] # "none")
    BY <1>2
  <2> QED  BY <2>1, <2>2 DEF NameOf
<1> QED  BY <1>1, <1>3, <1>4, Ends

LEMMA StartKeeps ==
    ASSUME IInv, NEW x \in Runs, NEW s \in Indices, Start(x, s)
    PROVE  IInv'
<1> DEFINE e == [Nothing EXCEPT !.seq = s, !.commit = repo, !.unit = unit]
<1>1. /\ ~Running /\ at[x] = "none" /\ unit = repo /\ tx' = [Idle EXCEPT !.pc = "bind", !.r = x, !.ev = e]
      /\ at' = [at EXCEPT ![x] = "hidden"] /\ disk' = [disk EXCEPT ![x] = "hidden"]
      /\ UNCHANGED <<art, sums, mark, said, sets, bag>>
  BY DEF Start, Outside, world, Barrier
<1>2. EvidenceShape(e) /\ e.seq = s /\ e.commit = repo /\ e.unit = unit
  BY DEF EvidenceShape, Nothing
<1> HIDE DEF e
<1>3. tx' = [pc |-> "bind", r |-> x, bagId |-> 0, truthId |-> 0, exe |-> NoExe, sink |-> "held",
             shot |-> Nothing, ev |-> e]
  BY <1>1 DEF Idle
<1>4. TxShape' /\ tx'.pc = "bind" /\ tx'.r = x /\ tx'.ev = e
  <2>1. tx'.pc = "bind" /\ tx'.r = x /\ tx'.ev = e
    BY <1>3
  <2>2. tx' \in [pc : Places, r : {tx'.r}, bagId : {tx'.bagId}, truthId : {tx'.truthId}, exe : {tx'.exe},
                 sink : {tx'.sink}, shot : {tx'.shot}, ev : {tx'.ev}]
    BY <1>3 DEF Places, Working
  <2> QED  BY <1>2, <2>1, <2>2 DEF TxShape
<1>5. Progress'
  <2>1. Inputs'
    BY <1>1, <1>2, <1>4 DEF Inputs, Ev, BoundIn, Built, Paired, RanNullspace, RanSchur, Compared, Judged
  <2> QED  BY <1>4, <2>1 DEF Progress, Executable, Pairs, Traces, Comparison, Evaluations, SameExecutable,
              Built, Paired, Ran, RanNullspace, RanSchur, Compared, Judged
<1>6. NameOf(x) /\ said[x] = "none" /\ ~mark[x]
  BY <1>1 DEF IInv, Names, NameOf
<1>7. /\ at'[x] = "hidden" /\ disk'[x] = "hidden" /\ mark'[x] = mark[x] /\ said'[x] = "none"
      /\ \A r \in Runs \ {x} : at'[r] = at[r] /\ NameOf(r)'
      /\ StoreShape'
  <2>1. mark' = [mark EXCEPT ![x] = mark[x]] /\ said' = [said EXCEPT ![x] = said[x]]
        /\ mark[x] \in BOOLEAN /\ said[x] \in {"none", "failed", "indeterminate", "killed", "passed"}
    BY <1>1, Same DEF IInv, Shape, StoreShape
  <2>2. PICK k \in BOOLEAN : k = mark[x]
    BY <2>1
  <2>3. mark' = [mark EXCEPT ![x] = k]
    BY <2>1, <2>2
  <2>4. /\ at'[x] = "hidden" /\ disk'[x] = "hidden" /\ mark'[x] = k /\ said'[x] = said[x]
        /\ \A r \in Runs \ {x} : at'[r] = at[r] /\ NameOf(r)'
        /\ at' \in [Runs -> {"none", "hidden", "final"}] /\ disk' \in [Runs -> {"none", "hidden", "final"}]
        /\ mark' \in [Runs -> BOOLEAN]
        /\ said' \in [Runs -> {"none", "failed", "indeterminate", "killed", "passed"}]
    BY <1>1, <2>1, <2>3, OneRun
  <2> QED  BY <1>1, <1>6, <2>2, <2>4 DEF IInv, Shape, StoreShape
<1>8. Names'
  <2>1. ~mark'[x] /\ ~mark[x]
    BY <1>1, <1>6
  <2>2. NameOf(x)'
    BY <1>7, <2>1 DEF NameOf
  <2>3. NameOfRun'
    BY <1>4, <1>7, <2>1 DEF NameOfRun
  <2> QED  BY <1>7, <2>2, <2>3 DEF Names
<1>9. Snapshot'
  BY <1>4 DEF Snapshot, Assembled
<1>10. Finals'
  <2> SUFFICES ASSUME NEW r \in Runs, at'[r] = "final" PROVE Genuine(art[r], r) /\ art[r] = sums[r]
    BY <1>1 DEF Finals
  <2>1. r \in Runs \ {x}
    BY <1>7
  <2> QED  BY <1>7, <2>1 DEF IInv, Finals
<1>11. Accepted'
  <2> SUFFICES ASSUME NEW q \in sets, NEW n \in Indices
               PROVE  /\ q \in [Indices -> Runs] /\ art[q[n]].seq = n /\ art[q[n]].exe = art[q[0]].exe
                      /\ art[q[n]].commit = art[q[0]].commit /\ at'[q[n]] # "none" /\ q[n] # x
    BY <1>1, <1>4 DEF Accepted
  <2>1. /\ q \in [Indices -> Runs] /\ art[q[n]].seq = n /\ art[q[n]].exe = art[q[0]].exe
        /\ art[q[n]].commit = art[q[0]].commit /\ at[q[n]] # "none"
    BY DEF IInv, Accepted
  <2>2. q[n] \in Runs \ {x}
    BY <1>1, <2>1
  <2> QED  BY <1>7, <2>1, <2>2
<1>12. BagShape'
  BY <1>1 DEF IInv, Shape, BagShape
<1> QED  BY <1>4, <1>5, <1>7, <1>8, <1>9, <1>10, <1>11, <1>12 DEF IInv, Shape

\* The evidence of the running transaction changes in its hidden directory.
LEMMA Writes ==
    ASSUME IInv, tx.pc \in Working, tx'.pc \in Working, tx'.r = tx.r, NEW a, NEW c,
           art' = [art EXCEPT ![tx.r] = a], sums' = [sums EXCEPT ![tx.r] = c],
           UNCHANGED <<at, disk, mark, said, sets, bag>>
    PROVE  StoreShape' /\ BagShape' /\ Names' /\ Finals' /\ Accepted' /\ art'[tx.r] = a /\ sums'[tx.r] = c
<1>1. Running /\ Running'
  BY DEF Working, Running
<1>2. tx.r \in Runs /\ at[tx.r] = "hidden"
  BY <1>1, RunIs DEF IInv, Names, NameOfRun
<1>3. /\ art'[tx.r] = a /\ sums'[tx.r] = c
      /\ \A r \in Runs \ {tx.r} : art'[r] = art[r] /\ sums'[r] = sums[r]
  BY <1>2 DEF IInv, Shape, StoreShape
<1>4. StoreShape'
  <2>1. art' = [r \in Runs |-> art'[r]] /\ sums' = [r \in Runs |-> sums'[r]]
    BY DEF IInv, Shape, StoreShape
  <2> QED  BY <2>1 DEF IInv, Shape, StoreShape
<1>5. BagShape'
  BY DEF IInv, Shape, BagShape
<1>6. Names'
  <2>1. \A r \in Runs : NameOf(r)'
    BY DEF IInv, Names, NameOf
  <2>2. NameOfRun'
    BY <1>1 DEF IInv, Names, NameOfRun, Working
  <2> QED  BY <2>1, <2>2 DEF Names
<1>7. Finals'
  <2> SUFFICES ASSUME NEW r \in Runs, at[r] = "final" PROVE Genuine(art'[r], r) /\ art'[r] = sums'[r]
    BY DEF Finals
  <2>1. r \in Runs \ {tx.r}
    BY <1>2
  <2> QED  BY <1>3, <2>1 DEF IInv, Finals
<1>8. Accepted'
  <2> SUFFICES ASSUME NEW q \in sets, NEW n \in Indices
               PROVE  /\ q \in [Indices -> Runs] /\ art'[q[n]].seq = n /\ art'[q[n]].exe = art'[q[0]].exe
                      /\ art'[q[n]].commit = art'[q[0]].commit /\ at[q[n]] # "none" /\ tx.r # q[n]
    BY DEF Accepted
  <2>1. /\ q \in [Indices -> Runs] /\ art[q[n]].seq = n /\ art[q[n]].exe = art[q[0]].exe
        /\ art[q[n]].commit = art[q[0]].commit /\ at[q[n]] # "none" /\ tx.r # q[n] /\ tx.r # q[0]
    BY DEF IInv, Accepted
  <2>2. q[n] \in Runs \ {tx.r} /\ q[0] \in Runs \ {tx.r}
    BY <2>1
  <2>3. art'[q[n]] = art[q[n]] /\ art'[q[0]] = art[q[0]]
    BY <1>3, <2>2
  <2> QED  BY <2>1, <2>3
<1> QED  BY <1>3, <1>4, <1>5, <1>6, <1>7, <1>8

LEMMA AssembleKeeps ==
    ASSUME IInv, Assemble, ~Refuse
    PROVE  IInv'
<1>1. /\ tx.pc = "assemble" /\ AssemblyHolds(Ev) /\ art' = [art EXCEPT ![tx.r] = Ev]
      /\ sums' = [sums EXCEPT ![tx.r] = Ev] /\ tx' = [tx EXCEPT !.pc = "verify", !.shot = Ev]
      /\ UNCHANGED <<at, disk, mark, said, sets, bag>>
  BY DEF Assemble, Outside, world
<1>2. Shape /\ Progress
  BY DEF IInv
<1>3. tx' = Tx("verify", tx.bagId, tx.truthId, tx.exe, tx.sink, Ev, tx.ev)
  BY <1>1, <1>2 DEF Shape, TxShape, Tx
<1>4. TxShape' /\ Progress' /\ tx'.pc = "verify" /\ tx'.r = tx.r /\ tx'.shot = Ev
  <2>1. tx.pc \in Assembled \cup {"assemble"} /\ "verify" \in Assembled
    BY <1>1 DEF Assembled
  <2> QED  BY <1>2, <1>3, <2>1, Proceeds
<1>5. tx.pc \in Working /\ tx'.pc \in Working
  BY <1>1, <1>4 DEF Working
<1>6. StoreShape' /\ BagShape' /\ Names' /\ Finals' /\ Accepted' /\ sums'[tx.r] = Ev
  BY <1>1, <1>4, <1>5, Writes
<1>7. Genuine(Ev, tx.r)
  BY <1>1, <1>2, AssemblesGenuine
<1>8. Snapshot'
  BY <1>4, <1>6, <1>7 DEF Snapshot
<1> QED  BY <1>4, <1>6, <1>8 DEF IInv, Shape

LEMMA TamperKeeps ==
    ASSUME IInv, NEW f, Tamper(f)
    PROVE  IInv'
<1>1. /\ tx.pc \in {"verify", "verified"} /\ UNCHANGED <<tx, sums, at, disk, mark, said, sets, bag>>
  BY DEF Tamper, world
<1>2. PICK q \in Runs : art' = [art EXCEPT ![tx.r][f] = art[q][f]]
  BY DEF Tamper
<1>3. tx.pc \in Working /\ Running
  BY <1>1 DEF Working, Running
<1>4. tx.r \in Runs
  BY <1>3, RunIs
<1> DEFINE a == [art[tx.r] EXCEPT ![f] = art[q][f]]
<1>5. art' = [art EXCEPT ![tx.r] = a] /\ sums' = [sums EXCEPT ![tx.r] = sums[tx.r]]
  BY <1>1, <1>2, <1>4 DEF IInv, Shape, StoreShape
<1> HIDE DEF a
<1>6. StoreShape' /\ BagShape' /\ Names' /\ Finals' /\ Accepted'
  BY <1>1, <1>3, <1>5, Writes
<1>7. Snapshot'
  BY <1>1 DEF IInv, Snapshot
<1>8. TxShape' /\ Progress'
  BY <1>1 DEF IInv, Shape, TxShape, Running, Progress, Inputs, Executable, Pairs, Traces, OwnTrace, Comparison,
     Evaluations, SameExecutable, Ev, HeldBag
<1> QED  BY <1>6, <1>7, <1>8 DEF IInv, Shape

\* The checks of the assembled directory.
LEMMA ChecksKeep ==
    ASSUME IInv, Verify \/ Unchanged, ~Refuse
    PROVE  IInv'
<1>1. PICK c \in {"verified", "publish"} :
         /\ tx' = [tx EXCEPT !.pc = c] /\ (c = "publish" => art[tx.r] = tx.shot)
  BY DEF Verify, Unchanged, Step
<1>2. tx.pc \in {"verify", "verified"} /\ UNCHANGED <<art, sums, at, disk, mark, said, sets, bag>>
  BY DEF Verify, Unchanged, Step, Goes, Outside, world, store
<1>3. Shape /\ Progress
  BY DEF IInv
<1>4. tx' = Tx(c, tx.bagId, tx.truthId, tx.exe, tx.sink, tx.shot, tx.ev)
  BY <1>1, <1>3 DEF Shape, TxShape, Tx
<1>5. TxShape' /\ Progress' /\ tx'.pc = c /\ tx'.r = tx.r /\ tx'.shot = tx.shot
  <2>1. tx.pc \in Assembled \cup {"assemble"} /\ c \in Assembled
    BY <1>2 DEF Assembled
  <2> QED  BY <1>3, <1>4, <2>1, Proceeds
<1>6. tx.pc \in Working /\ tx'.pc \in Working
  BY <1>2, <1>5 DEF Working
<1>7. StoreShape' /\ BagShape' /\ Names' /\ Finals' /\ Accepted'
  BY <1>2, <1>5, <1>6, Stays
<1>8. Genuine(tx.shot, tx.r) /\ sums[tx.r] = tx.shot
  BY <1>2 DEF IInv, Snapshot, Assembled
<1>9. Snapshot'
  BY <1>1, <1>2, <1>5, <1>8 DEF Snapshot
<1> QED  BY <1>5, <1>7, <1>9 DEF IInv, Shape

LEMMA RenameKeeps ==
    ASSUME IInv, Rename
    PROVE  IInv'
<1>1. /\ tx.pc = "publish" /\ tx' = [tx EXCEPT !.pc = "renamed"] /\ at' = [at EXCEPT ![tx.r] = "final"]
      /\ UNCHANGED <<art, sums, disk, mark, said, sets, bag>>
  BY DEF Rename, Step, Outside, world
<1>2. Shape /\ Progress
  BY DEF IInv
<1>3. tx' = Tx("renamed", tx.bagId, tx.truthId, tx.exe, tx.sink, tx.shot, tx.ev)
  BY <1>1, <1>2 DEF Shape, TxShape, Tx
<1>4. TxShape' /\ Progress' /\ tx'.pc = "renamed" /\ tx'.r = tx.r /\ tx'.shot = tx.shot
  <2>1. tx.pc \in Assembled \cup {"assemble"} /\ "renamed" \in Assembled
    BY <1>1 DEF Assembled
  <2> QED  BY <1>2, <1>3, <2>1, Proceeds
<1>5. PICK x \in Runs : x = tx.r
  <2>1. Running
    BY <1>1 DEF Running
  <2> QED  BY <2>1, RunIs
<1>6. /\ disk[x] = "hidden" /\ said[x] = "none" /\ ~mark[x]
      /\ Genuine(art[x], x) /\ art[x] = sums[x] /\ art[x] = tx.shot
  BY <1>1, <1>5 DEF IInv, Names, NameOfRun, Working, Running, Snapshot, Assembled
<1>7. /\ at'[x] = "final" /\ \A r \in Runs \ {x} : at'[r] = at[r]
      /\ at' \in [Runs -> {"none", "hidden", "final"}]
  BY <1>1, <1>2, <1>5 DEF Shape, StoreShape
<1>8. StoreShape' /\ BagShape'
  BY <1>1, <1>2, <1>7 DEF Shape, StoreShape, BagShape
<1>9. Names'
  <2>1. NameOf(x)'
    BY <1>1, <1>6, <1>7 DEF NameOf
  <2>2. ASSUME NEW r \in Runs \ {x} PROVE NameOf(r)'
    <3>1. NameOf(r) /\ at'[r] = at[r]
      BY <1>7, <2>2 DEF IInv, Names
    <3> QED  BY <1>1, <3>1 DEF NameOf
  <2>3. NameOfRun'
    BY <1>1, <1>4, <1>5, <1>6, <1>7 DEF NameOfRun, Working
  <2> QED  BY <2>1, <2>2, <2>3 DEF Names
<1>10. Snapshot'
  BY <1>1, <1>4, <1>5, <1>6 DEF Snapshot
<1>11. Finals'
  BY <1>1, <1>6, <1>7 DEF IInv, Finals
<1>12. Accepted'
  <2>1. tx'.pc \notin Working
    BY <1>4 DEF Working
  <2> SUFFICES ASSUME NEW q \in sets, NEW n \in Indices
               PROVE  /\ q \in [Indices -> Runs] /\ art[q[n]].seq = n /\ art[q[n]].exe = art[q[0]].exe
                      /\ art[q[n]].commit = art[q[0]].commit /\ at'[q[n]] # "none"
    BY <1>1, <2>1 DEF Accepted
  <2>2. /\ q \in [Indices -> Runs] /\ art[q[n]].seq = n /\ art[q[n]].exe = art[q[0]].exe
        /\ art[q[n]].commit = art[q[0]].commit /\ at[q[n]] # "none"
    BY DEF IInv, Accepted
  <2>3. q[n] \in Runs
    BY <2>2
  <2> QED  BY <1>7, <2>2, <2>3
<1> QED  BY <1>4, <1>8, <1>9, <1>10, <1>11, <1>12 DEF IInv, Shape

LEMMA CommitKeeps ==
    ASSUME IInv, Commit
    PROVE  IInv'
<1>1. /\ tx.pc = "renamed" /\ tx' = [tx EXCEPT !.pc = "committed"] /\ disk' = [disk EXCEPT ![tx.r] = "final"]
      /\ UNCHANGED <<art, sums, at, mark, said, sets, bag>>
  BY DEF Commit, Step, Outside, world
<1>2. Shape /\ Progress
  BY DEF IInv
<1>3. tx' = Tx("committed", tx.bagId, tx.truthId, tx.exe, tx.sink, tx.shot, tx.ev)
  BY <1>1, <1>2 DEF Shape, TxShape, Tx
<1>4. TxShape' /\ Progress' /\ tx'.pc = "committed" /\ tx'.r = tx.r /\ tx'.shot = tx.shot
  <2>1. tx.pc \in Assembled \cup {"assemble"} /\ "committed" \in Assembled
    BY <1>1 DEF Assembled
  <2> QED  BY <1>2, <1>3, <2>1, Proceeds
<1>5. PICK x \in Runs : x = tx.r
  <2>1. Running
    BY <1>1 DEF Running
  <2> QED  BY <2>1, RunIs
<1>6. at[x] = "final" /\ said[x] = "none" /\ ~mark[x]
  BY <1>1, <1>5 DEF IInv, Names, NameOfRun, Running
<1>7. /\ disk'[x] = "final" /\ \A r \in Runs \ {x} : disk'[r] = disk[r]
      /\ disk' \in [Runs -> {"none", "hidden", "final"}]
  BY <1>1, <1>2, <1>5 DEF Shape, StoreShape
<1>8. StoreShape' /\ BagShape'
  BY <1>1, <1>2, <1>7 DEF Shape, StoreShape, BagShape
<1>9. Names'
  <2>1. NameOf(x)'
    BY <1>1, <1>6, <1>7 DEF NameOf
  <2>2. ASSUME NEW r \in Runs \ {x} PROVE NameOf(r)'
    <3>1. NameOf(r) /\ disk'[r] = disk[r]
      BY <1>7, <2>2 DEF IInv, Names
    <3> QED  BY <1>1, <3>1 DEF NameOf
  <2>3. NameOfRun'
    BY <1>1, <1>4, <1>5, <1>6, <1>7 DEF NameOfRun, Working
  <2> QED  BY <2>1, <2>2, <2>3 DEF Names
<1>10. Snapshot'
  BY <1>1, <1>4 DEF IInv, Snapshot, Assembled
<1>11. Finals'
  BY <1>1 DEF IInv, Finals
<1>12. Accepted'
  <2>1. tx'.pc \notin Working
    BY <1>4 DEF Working
  <2> QED  BY <1>1, <2>1 DEF IInv, Accepted
<1> QED  BY <1>4, <1>8, <1>9, <1>10, <1>11, <1>12 DEF IInv, Shape

LEMMA VerifySetKeeps ==
    ASSUME IInv, NEW q \in [Indices -> Runs], VerifySet(q)
    PROVE  IInv'
<1>1. /\ sets' = sets \cup {q} /\ UNCHANGED <<bag, tx, art, sums, at, disk, mark, said>>
      /\ \A s \in Indices : at[q[s]] = "final" /\ art[q[s]].seq = s
      /\ \A s \in Indices : CrossIdentity(art[q[s]]) = CrossIdentity(art[q[0]])
  BY DEF VerifySet, world, store
<1>2. ASSUME NEW s \in Indices
      PROVE  /\ art[q[s]].seq = s /\ art[q[s]].exe = art[q[0]].exe /\ art[q[s]].commit = art[q[0]].commit
             /\ at[q[s]] # "none" /\ (tx.r = q[s] => tx.pc \notin Working)
  <2>1. at[q[s]] = "final" /\ art[q[s]].seq = s /\ CrossIdentity(art[q[s]]) = CrossIdentity(art[q[0]])
    BY <1>1, <1>2
  <2>2. art[q[s]].exe = art[q[0]].exe /\ art[q[s]].commit = art[q[0]].commit
    BY <2>1 DEF CrossIdentity
  <2>3. tx.r = q[s] => tx.pc \notin Working
    BY <2>1 DEF IInv, Names, NameOfRun
  <2> QED  BY <2>1, <2>2, <2>3
<1>3. Accepted'
  <2> SUFFICES ASSUME NEW p \in sets \cup {q}
               PROVE  /\ p \in [Indices -> Runs]
                      /\ \A s \in Indices :
                            /\ art[p[s]].seq = s /\ art[p[s]].exe = art[p[0]].exe
                            /\ art[p[s]].commit = art[p[0]].commit
                            /\ at[p[s]] # "none" /\ (tx.r = p[s] => tx.pc \notin Working)
    BY <1>1 DEF Accepted
  <2>1. CASE p = q
    BY <1>2, <2>1
  <2>2. CASE p \in sets
    BY <2>2 DEF IInv, Accepted
  <2> QED  BY <2>1, <2>2
<1>4. TxShape' /\ Progress' /\ Snapshot'
  BY <1>1 DEF IInv, Shape, TxShape, Running, Progress, Inputs, Executable, Pairs, Traces, OwnTrace, Comparison,
     Evaluations, SameExecutable, Ev, HeldBag, Snapshot
<1>5. StoreShape' /\ BagShape' /\ Names' /\ Finals'
  BY <1>1 DEF IInv, Shape, StoreShape, BagShape, Names, NameOf, NameOfRun, Running, Finals
<1> QED  BY <1>3, <1>4, <1>5 DEF IInv, Shape

-----------------------------------------------------------------------------
\* What happens beside the runner.

\* Only the inputs, or the transaction's view of them, change.
LEMMA Beside ==
    ASSUME IInv, tx'.pc = tx.pc, tx'.r = tx.r, tx'.shot = tx.shot, TxShape', BagShape', Progress',
           UNCHANGED <<store, said, sets>>
    PROVE  IInv'
<1>1. UNCHANGED <<art, sums, at, disk, mark, said, sets>>
  BY DEF store
<1>2. StoreShape'
  BY <1>1 DEF IInv, Shape, StoreShape
<1>3. Names'
  <2>1. \A r \in Runs : NameOf(r)'
    BY <1>1 DEF IInv, Names, NameOf
  <2>2. NameOfRun'
    BY <1>1 DEF IInv, Names, NameOfRun, Running
  <2> QED  BY <2>1, <2>2 DEF Names
<1>4. Snapshot' /\ Finals' /\ Accepted'
  BY <1>1 DEF IInv, Snapshot, Finals, Accepted
<1> QED  BY <1>2, <1>3, <1>4 DEF IInv, Shape

LEMMA ElsewhereKeeps ==
    ASSUME IInv, UNCHANGED <<bag, tx, store, said, sets>>
    PROVE  IInv'
<1>1. TxShape' /\ BagShape'
  BY DEF IInv, Shape, TxShape, Running, BagShape
<1>2. Progress'
  BY DEF IInv, Progress, Inputs, Executable, Pairs, Traces, OwnTrace, Comparison, Evaluations, SameExecutable,
     Ev, HeldBag, Running
<1> QED  BY <1>1, <1>2, Beside

LEMMA WriteBagKeeps ==
    ASSUME IInv, NEW s \in Indices, WriteBag(s)
    PROVE  IInv'
<1>1. PICK ms : bag' = [bag EXCEPT ![s] = [content |-> ms, id |-> @.id + 1]]
  BY DEF WriteBag
<1>2. UNCHANGED <<tx, store, said, sets>>
  BY DEF WriteBag
<1>3. BagShape
  BY DEF IInv, Shape
<1>4. /\ bag'[s] = [content |-> ms, id |-> bag[s].id + 1] /\ \A n \in Indices \ {s} : bag'[n] = bag[n]
  BY <1>1, <1>3 DEF BagShape
<1>5. BagShape'
  <2>1. \A n \in Indices : bag'[n] = [content |-> bag'[n].content, id |-> bag'[n].id] /\ bag'[n].id \in Nat
    BY <1>3, <1>4 DEF BagShape
  <2>2. bag' = [n \in Indices |-> bag'[n]]
    BY <1>1, <1>3 DEF BagShape
  <2> QED  BY <2>1, <2>2 DEF BagShape
<1>6. Inputs'
  <2>1. Inputs
    BY DEF IInv, Progress
  <2>2. Running' => Ev'.seq \in Indices /\ Ev'.unit = Ev'.commit
    BY <1>2, <2>1 DEF Inputs, Running, Ev
  <2>3. ASSUME tx.pc \in BoundIn
        PROVE  /\ tx.bagId <= bag'[Ev.seq].id
               /\ bag'[Ev.seq].id = tx.bagId => bag'[Ev.seq].content = FrozenMessages
    <3>1. Ev.seq \in Indices /\ tx.bagId \in Nat /\ tx.bagId <= bag[Ev.seq].id
          /\ (bag[Ev.seq].id = tx.bagId => bag[Ev.seq].content = FrozenMessages)
      BY <2>1, <2>3 DEF Inputs, HeldBag, Running, BoundIn, Built, Paired, RanNullspace, RanSchur, Compared, Judged
    <3>2. bag[s].id \in Nat /\ bag[Ev.seq].id \in Nat
      BY <1>3, <3>1 DEF BagShape
    <3>3. CASE Ev.seq = s
      BY <1>4, <3>1, <3>2, <3>3
    <3>4. CASE Ev.seq # s
      BY <1>4, <3>1, <3>4
    <3> QED  BY <3>3, <3>4
  <2> QED  BY <1>2, <2>1, <2>2, <2>3 DEF Inputs, HeldBag, Ev
<1>7. TxShape' /\ Progress'
  BY <1>2, <1>6 DEF IInv, Shape, TxShape, Running, Progress, Executable, Pairs, Traces, OwnTrace, Comparison,
     Evaluations, SameExecutable, Ev
<1> QED  BY <1>2, <1>5, <1>7, Beside

LEMMA WriteExecutableKeeps ==
    ASSUME IInv, WriteExecutable
    PROVE  IInv'
<1> DEFINE y == <<tx.exe[1], tx.exe[2] + MaxRuns>>
<1>1. tx' = [tx EXCEPT !.exe = y] /\ UNCHANGED <<bag, store, said, sets>>
  BY DEF WriteExecutable, world
<1> HIDE DEF y
<1>2. /\ tx' \in [pc : Places, r : {tx'.r}, bagId : {tx'.bagId}, truthId : {tx'.truthId}, exe : {tx'.exe},
                  sink : {tx'.sink}, shot : {tx'.shot}, ev : {tx'.ev}]
      /\ tx'.pc = tx.pc /\ tx'.r = tx.r /\ tx'.bagId = tx.bagId /\ tx'.exe = y /\ tx'.shot = tx.shot
      /\ tx'.ev = tx.ev
  BY <1>1 DEF IInv, Shape, TxShape
<1>3. TxShape' /\ BagShape'
  BY <1>1, <1>2 DEF IInv, Shape, TxShape, Running, BagShape
<1>4. \A x : Since(x, tx.exe) => Since(x, y)
  BY DEF Since, y
<1>5. Executable' /\ Traces'
  BY <1>2, <1>4 DEF IInv, Progress, Executable, Traces, OwnTrace, Ev
<1>6. Inputs' /\ Pairs' /\ Comparison' /\ Evaluations' /\ SameExecutable'
  BY <1>1, <1>2 DEF IInv, Progress, Inputs, Pairs, Comparison, Evaluations, SameExecutable, Ev, HeldBag, Running
<1> QED  BY <1>1, <1>2, <1>3, <1>5, <1>6, Beside DEF Progress

LEMMA TakeSinkNameKeeps ==
    ASSUME IInv, NEW m \in Modes, TakeSinkName(m)
    PROVE  IInv'
<1>1. tx' = [tx EXCEPT !.sink = "taken"] /\ UNCHANGED <<bag, store, said, sets>>
  BY DEF TakeSinkName, world
<1>2. /\ tx' \in [pc : Places, r : {tx'.r}, bagId : {tx'.bagId}, truthId : {tx'.truthId}, exe : {tx'.exe},
                  sink : {tx'.sink}, shot : {tx'.shot}, ev : {tx'.ev}]
      /\ tx'.pc = tx.pc /\ tx'.r = tx.r /\ tx'.bagId = tx.bagId /\ tx'.exe = tx.exe /\ tx'.shot = tx.shot
      /\ tx'.ev = tx.ev
  BY <1>1 DEF IInv, Shape, TxShape
<1>3. TxShape' /\ BagShape'
  BY <1>1, <1>2 DEF IInv, Shape, TxShape, Running, BagShape
<1>4. Progress'
  BY <1>1, <1>2 DEF IInv, Progress, Inputs, Executable, Pairs, Traces, OwnTrace, Comparison, Evaluations,
     SameExecutable, Ev, HeldBag, Running
<1> QED  BY <1>1, <1>2, <1>3, <1>4, Beside

-----------------------------------------------------------------------------
LEMMA InitHolds ==
    ASSUME Init
    PROVE  IInv
<1>1. /\ tx = Idle /\ art = [r \in Runs |-> Nothing] /\ sums = [r \in Runs |-> Nothing]
      /\ at = [r \in Runs |-> "none"] /\ disk = [r \in Runs |-> "none"] /\ mark = [r \in Runs |-> FALSE]
      /\ said = [r \in Runs |-> "none"] /\ sets = {}
  BY DEF Init
<1>2. BagShape
  <2>1. PICK ms \in Messages0 : bag = [s \in Indices |-> [content |-> IF s = 0 THEN ms ELSE FrozenMessages, id |-> 0]]
    BY DEF Init
  <2> QED  BY <2>1 DEF BagShape
<1>3. tx.pc = "idle" /\ ~Running /\ tx.ev = Nothing
  BY <1>1 DEF Idle, Running
<1>4. TxShape
  <2>1. EvidenceShape(Nothing)
    BY DEF EvidenceShape, Nothing
  <2>2. tx \in [pc : Places, r : {tx.r}, bagId : {tx.bagId}, truthId : {tx.truthId}, exe : {tx.exe},
                sink : {tx.sink}, shot : {tx.shot}, ev : {tx.ev}]
    BY <1>1 DEF Idle, Places
  <2> QED  BY <1>3, <2>1, <2>2 DEF TxShape
<1>5. StoreShape
  BY <1>1 DEF StoreShape
<1>6. Names
  BY <1>1, <1>3 DEF Names, NameOf, NameOfRun, Working
<1>7. Progress
  BY <1>3 DEF Progress, Inputs, Executable, Pairs, Traces, Comparison, Evaluations, SameExecutable,
     BoundIn, Built, Paired, Ran, RanNullspace, RanSchur, Compared, Judged
<1>8. Snapshot /\ Finals /\ Accepted
  BY <1>1, <1>3 DEF Snapshot, Assembled, Finals, Accepted
<1> QED  BY <1>2, <1>4, <1>5, <1>6, <1>7, <1>8 DEF IInv, Shape

\* The steps that gather evidence keep the invariant, whether they go on or refuse.
LEMMA GatheringKeeps ==
    ASSUME IInv,
           \/ BindInputs \/ Build \/ RunPairIndex \/ AcceptPairIndex
           \/ \E m \in Modes : LaunchMode(m) \/ AcceptMode(m)
           \/ RehashInputs \/ DirectMath \/ RunEvaluators \/ ExecutableAfter
    PROVE  IInv'
<1>1. Shape /\ Progress
  BY DEF IInv
<1>2. tx.pc \in Working
  <2>1. ASSUME NEW m \in Modes, LaunchMode(m) \/ AcceptMode(m) PROVE tx.pc \in Working
    BY <2>1 DEF LaunchMode, AcceptMode, Modes, Working
  <2>2. CASE BindInputs \/ Build \/ RunPairIndex \/ AcceptPairIndex
    BY <2>2 DEF BindInputs, Build, RunPairIndex, AcceptPairIndex, Records, Step, Working
  <2>3. CASE RehashInputs \/ DirectMath \/ RunEvaluators \/ ExecutableAfter
    BY <2>3 DEF RehashInputs, DirectMath, RunEvaluators, ExecutableAfter, Records, Working
  <2> QED  BY <2>1, <2>2, <2>3
<1>3. Outside
  BY DEF BindInputs, Build, RunPairIndex, AcceptPairIndex, LaunchMode, AcceptMode, RehashInputs, DirectMath,
     RunEvaluators, ExecutableAfter
<1>4. CASE Refuse
  BY <1>2, <1>3, <1>4, Refusal
<1>5. CASE ~Refuse
  <2>1. UNCHANGED <<store, said, sets, bag>>
    <3>1. UNCHANGED <<store, said>>
      BY <1>5 DEF BindInputs, Build, RunPairIndex, AcceptPairIndex, LaunchMode, AcceptMode, RehashInputs,
         DirectMath, RunEvaluators, ExecutableAfter, Goes
    <3> QED  BY <1>3, <3>1 DEF Outside, world
  <2>2. TxShape' /\ Progress' /\ tx'.r = tx.r /\ tx'.pc \in Working \ Assembled
    <3>1. CASE BindInputs
      BY <1>1, <1>5, <3>1, BindsInputs DEF Working, Assembled
    <3>2. CASE Build
      BY <1>1, <1>5, <3>2, Builds DEF Working, Assembled
    <3>3. CASE RunPairIndex
      BY <1>1, <1>5, <3>3, RunsPairIndex DEF Working, Assembled
    <3>4. CASE AcceptPairIndex
      BY <1>1, <1>5, <3>4, AcceptsPairIndex DEF Working, Assembled
    <3>5. ASSUME NEW m \in Modes, LaunchMode(m)
          PROVE  TxShape' /\ Progress' /\ tx'.r = tx.r /\ tx'.pc \in Working \ Assembled
      BY <1>1, <1>5, <3>5, Launches DEF Working, Assembled
    <3>6. ASSUME NEW m \in Modes, AcceptMode(m)
          PROVE  TxShape' /\ Progress' /\ tx'.r = tx.r /\ tx'.pc \in Working \ Assembled
      BY <1>1, <1>5, <3>6, AcceptsMode DEF Working, Assembled
    <3>7. CASE RehashInputs
      BY <1>1, <1>5, <3>7, Rehashes DEF Working, Assembled
    <3>8. CASE DirectMath
      BY <1>1, <1>5, <3>8, Compares DEF Working, Assembled
    <3>9. CASE RunEvaluators
      BY <1>1, <1>5, <3>9, RunsEvaluators DEF Working, Assembled
    <3>10. CASE ExecutableAfter
      BY <1>1, <1>5, <3>10, HashesExecutable DEF Working, Assembled
    <3> QED  BY <3>1, <3>2, <3>3, <3>4, <3>5, <3>6, <3>7, <3>8, <3>9, <3>10
  <2> QED  BY <1>2, <2>1, <2>2, Grows
<1> QED  BY <1>4, <1>5

\* The steps on the assembled evidence, which may refuse too.
LEMMA ClosingKeeps ==
    ASSUME IInv, Assemble \/ Verify \/ Unchanged
    PROVE  IInv'
<1>1. tx.pc \in Working /\ Outside
  BY DEF Assemble, Verify, Unchanged, Step, Working
<1>2. CASE Refuse
  BY <1>1, <1>2, Refusal
<1>3. CASE ~Refuse
  BY <1>3, AssembleKeeps, ChecksKeep
<1> QED  BY <1>2, <1>3

LEMMA RaiseKeeps ==
    ASSUME IInv, Raise
    PROVE  IInv'
<1>1. Refuse /\ Outside /\ tx.pc \notin {"idle", "renamed", "committed"}
  BY DEF Raise
<1>2. tx.pc \in Places
  BY DEF IInv, Shape, TxShape
<1>3. tx.pc \in Working
  BY <1>1, <1>2 DEF Places
<1> QED  BY <1>1, <1>3, Refusal

LEMMA NextKeeps ==
    ASSUME IInv, [Next]_vars
    PROVE  IInv'
<1>1. CASE Transaction
  <2>1. ASSUME NEW r \in Runs, NEW s \in Indices, Start(r, s) PROVE IInv'
    BY <2>1, StartKeeps
  <2>2. CASE \/ BindInputs \/ Build \/ RunPairIndex \/ AcceptPairIndex
             \/ \E m \in Modes : LaunchMode(m) \/ AcceptMode(m)
             \/ RehashInputs \/ DirectMath \/ RunEvaluators \/ ExecutableAfter
    BY <2>2, GatheringKeeps
  <2>3. CASE Assemble \/ Verify \/ Unchanged
    BY <2>3, ClosingKeeps
  <2>4. CASE Rename \/ Commit \/ Report
    BY <2>4, RenameKeeps, CommitKeeps, ReportKeeps
  <2>5. CASE RenameFails \/ RollBack \/ RollBackFails
    BY <2>5, RenameFailsKeeps, RollBackKeeps, RollBackFailsKeeps
  <2> QED  BY <1>1, <2>1, <2>2, <2>3, <2>4, <2>5 DEF Transaction
<1>2. ASSUME NEW q \in [Indices -> Runs], VerifySet(q) PROVE IInv'
  BY <1>2, VerifySetKeeps
<1>3. CASE Raise \/ Kill \/ PowerLoss
  BY <1>3, RaiseKeeps, KillKeeps, PowerLossKeeps
<1>4. CASE NewCommit \/ UnitGate
  BY <1>4, ElsewhereKeeps DEF NewCommit, UnitGate
<1>5. CASE WriteExecutable
  BY <1>5, WriteExecutableKeeps
<1>6. ASSUME NEW s \in Indices, WriteBag(s) PROVE IInv'
  BY <1>6, WriteBagKeeps
<1>7. ASSUME NEW s \in Indices, WriteTruth(s) PROVE IInv'
  BY <1>7, ElsewhereKeeps DEF WriteTruth
<1>8. ASSUME NEW m \in Modes, TakeSinkName(m) PROVE IInv'
  BY <1>8, TakeSinkNameKeeps
<1>9. ASSUME NEW f, Tamper(f) PROVE IInv'
  BY <1>9, TamperKeeps
<1>10. CASE UNCHANGED vars
  <2>1. UNCHANGED <<bag, tx, store, said, sets>>
    BY <1>10 DEF vars, store
  <2> QED  BY <2>1, ElsewhereKeeps
<1> QED  BY <1>1, <1>2, <1>3, <1>4, <1>5, <1>6, <1>7, <1>8, <1>9, <1>10 DEF Next

LEMMA InvAlways == Spec => []IInv
<1>1. Init => IInv
  BY InitHolds
<1>2. IInv /\ [Next]_vars => IInv'
  BY NextKeeps
<1> QED  BY <1>1, <1>2, PTL DEF Spec

\* What execute_authorized_sequence publishes is one experiment, and the artifacts
\* verify_sequence_set accepted are of their sequences, of one commit and of one
\* executable, whatever else is written, renamed, killed or lost meanwhile.
THEOREM PublishedAlways == Spec => []PublishedIsOneExperiment
<1>1. IInv => PublishedIsOneExperiment
  <2> SUFFICES ASSUME IInv PROVE PublishedIsOneExperiment
    OBVIOUS
  <2>1. ASSUME NEW r \in Runs, at[r] = "final" PROVE OneExperiment(r)
    <3>1. Genuine(art[r], r) /\ art[r] = sums[r]
      BY <2>1 DEF IInv, Finals
    <3>2. ~mark[r]
      BY <2>1 DEF IInv, Names, NameOf
    <3> QED  BY <3>1, <3>2 DEF Genuine, OneExperiment
  <2>2. \A q \in sets : \A s \in Indices :
           art[q[s]].seq = s /\ art[q[s]].exe = art[q[0]].exe /\ art[q[s]].commit = art[q[0]].commit
    BY DEF IInv, Accepted
  <2> QED  BY <2>1, <2>2 DEF PublishedIsOneExperiment
<1> QED  BY <1>1, InvAlways, PTL

\* What publish_sequence_noreplace and _retain_failure leave is what the runner
\* reports: passed is durable, failed is hidden unless it was durable before.
THEOREM ReportAlways == Spec => []ReportIsTrue
<1>1. IInv => ReportIsTrue
  <2> SUFFICES ASSUME IInv, NEW r \in Runs
               PROVE  /\ said[r] = "passed" => at[r] = "final" /\ disk[r] = "final"
                      /\ mark[r] => at[r] = "hidden"
                      /\ said[r] = "failed" /\ at[r] = "final" => disk[r] = "final"
    BY DEF ReportIsTrue
  <2>1. NameOf(r)
    BY DEF IInv, Names
  <2> QED  BY <2>1 DEF NameOf
<1> QED  BY <1>1, InvAlways, PTL
=============================================================================
