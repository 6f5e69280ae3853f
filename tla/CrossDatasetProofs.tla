------------------------- MODULE CrossDatasetProofs -------------------------
(***************************************************************************)
(* CrossDataset proved for any matrix, any number of campaign processes,   *)
(* faults and removals.                                                    *)
(***************************************************************************)
EXTENDS CrossDataset, SequenceTheorems, TLAPS

Lanes == {"scored", "capture"}
Kinds == {"scored", "capture", "geometry", "pair", "mechanism", "tum"}
Statuses == {"none", "eligible", "failed", "fatal", "mismatch", "pass", "fail"}
Lineages == {<<>>} \cup UNION {[Sources[i] -> Nat] : i \in Items}

Artifacts == [st : {"none", "open", "unsealed", "sealed"}, gen : Nat, of : Lineages,
              status : Statuses, edited : {"no", "content", "extra"}]

\* The ranges of the variables: the result directories, ...
TypeStore == art \in [Items -> Artifacts] /\ claims \in [Items -> Nat] /\ removals \in Nat

\* ... the programs that were launched, ...
Jobs == [item : Items \cup {Pair(1)},
         step : {"idle", "begin", "run", "evaluate", "seal", "done"},
         of : Lineages, status : Statuses, exit : {0, 2, 9}]
TypeJob ==
    /\ job \in [Ids -> Jobs]
    /\ \A p \in Ids : /\ job[p].step # "idle" => job[p].item \in Items
                      /\ job[p].step = "run" => IsCell(job[p].item)

\* ... the campaign processes, each at a step of its lane, ...
TypeCamp ==
    /\ camp \in [Ids -> [pc : {"new", "start", "gate", "look", "launch", "wait", "stopped", "done"},
                         lane : Lanes, row : 1 .. Len(Rows) + 1, step : Nat \ {0},
                         got : SUBSET Systems]]
    /\ \A p \in Ids :
         /\ camp[p].row \in Orders => camp[p].step \in 1 .. Len(RowPlan(camp[p].lane, camp[p].row))
         /\ camp[p].row \notin Orders => camp[p].step = 1
         /\ camp[p].pc \in {"launch", "wait"} => camp[p].row \in Orders
         /\ camp[p].pc \in {"new", "start", "gate"} => camp[p].row = 1 /\ camp[p].step = 1 /\ camp[p].got = {}

\* ... and what has come of it.
TypeLog ==
    /\ current \subseteq Ids /\ leftover \in BOOLEAN /\ finished \subseteq Lanes
    /\ opened \subseteq Orders /\ drift \subseteq {"git", "bags"} /\ faults \in Nat
    /\ agg = [pc |-> agg.pc, cells |-> agg.cells, derived |-> agg.derived]
    /\ agg.pc \in {"cells", "derived", "published"}

TypeOK == TypeStore /\ TypeJob /\ TypeCamp /\ TypeLog

-----------------------------------------------------------------------------
\* The matrix and the plan.

USE MatrixAssumption, BoundAssumption

\* Two values are a sequence of two.
LEMMA TwoAreASequence ==
    ASSUME NEW S, NEW f \in [1 .. 2 -> S]
    PROVE  f \in Seq(S) /\ Len(f) = 2
<1>1. f \in Seq(S)
  <2>1. f = <<f[1], f[2]>>
    OBVIOUS
  <2>2. <<f[1], f[2]>> \in Seq(S)
    OBVIOUS
  <2> QED  BY <2>1, <2>2
<1>2. Len(f) \in Nat /\ 1 .. Len(f) = 1 .. 2
  BY <1>1, LenProperties
<1> QED  BY <1>1, <1>2

LEMMA OrderOfSystems ==
    ASSUME NEW r \in Orders
    PROVE  /\ DOMAIN SystemOrder(r) = 1 .. 2
           /\ SystemOrder(r)[1] \in Systems /\ SystemOrder(r)[2] \in Systems
           /\ \A s \in Systems : s = SystemOrder(r)[1] \/ s = SystemOrder(r)[2]
           /\ SystemOrder(r)[1] # SystemOrder(r)[2]
BY DEF SystemOrder, Systems

LEMMA CellIsItem ==
    ASSUME NEW k \in {"scored", "capture", "geometry"}, NEW r \in Orders, NEW s \in Systems
    PROVE  <<k, r, s>> \in Items
BY DEF Items, Cells

LEMMA ItemShape ==
    ASSUME NEW i \in Items
    PROVE  /\ i[1] \in Kinds /\ i[2] \in Orders
           /\ i[1] \in {"scored", "capture", "geometry"} => i[3] \in Systems /\ i = <<i[1], i[2], i[3]>>
BY DEF Items, Cells, Pair, Mechanism, Reference, Kinds

\* What a program is pointed at are results of its own row.
LEMMA SourcesAreItems ==
    ASSUME NEW i \in Items
    PROVE  /\ Sources[i] \subseteq Items
           /\ \A s \in Sources[i] : IsCell(s) /\ s[2] = i[2]
           /\ i[1] \in {"pair", "mechanism"} => \A s \in Systems : <<"scored", i[2], s>> \in Sources[i]
           /\ i[1] = "capture" => <<"scored", i[2], i[3]>> \in Sources[i]
           /\ i[1] = "geometry" => <<"capture", i[2], i[3]>> \in Sources[i]
<1>1. Sources[i] =
        CASE i[1] = "scored" -> {}
          [] i[1] = "capture" -> {<<"scored", i[2], i[3]>>}
          [] i[1] = "geometry" -> {<<"capture", i[2], i[3]>>, <<"scored", i[2], i[3]>>}
          [] i[1] = "tum" -> {<<"scored", i[2], "U0">>}
          [] OTHER -> {<<"scored", i[2], s>> : s \in Systems}
  BY DEF Sources
<1>2. i[1] \in Kinds /\ i[2] \in Orders
      /\ (i[1] \in {"scored", "capture", "geometry"} => i[3] \in Systems)
  BY ItemShape
<1>3. "U0" \in Systems
  BY DEF Systems
<1>4. CASE i[1] = "scored"
  BY <1>1, <1>4
<1>5. CASE i[1] = "capture"
  BY <1>1, <1>2, <1>5, CellIsItem DEF IsCell
<1>6. CASE i[1] = "geometry"
  BY <1>1, <1>2, <1>6, CellIsItem DEF IsCell
<1>7. CASE i[1] = "tum"
  BY <1>1, <1>2, <1>3, <1>7, CellIsItem DEF IsCell
<1>8. CASE i[1] \in {"pair", "mechanism"}
  <2>1. Sources[i] = {<<"scored", i[2], s>> : s \in Systems}
    BY <1>1, <1>8
  <2> QED  BY <2>1, <1>2, <1>8, CellIsItem DEF IsCell
<1> QED  BY <1>2, <1>4, <1>5, <1>6, <1>7, <1>8 DEF Kinds

\* The plan of a row: its two cells, then what follows them.
LEMMA RowPlanShape ==
    ASSUME NEW lane \in Lanes, NEW r \in Orders
    PROVE  LET plan == RowPlan(lane, r) IN
           /\ plan \in Seq(Items) /\ Len(plan) >= 2
           /\ \A k \in 1 .. 2 : plan[k] = <<lane, r, SystemOrder(r)[k]>>
           /\ \A k \in 3 .. Len(plan) :
                /\ plan[k] \in Items /\ plan[k][2] = r
                /\ lane = "scored" => plan[k][1] \in {"pair", "mechanism", "tum"}
                /\ lane = "capture" => plan[k][1] = "geometry"
<1> DEFINE order == SystemOrder(r)
           cells(l) == [k \in 1 .. 2 |-> <<l, r, order[k]>>]
           tail == IF lane = "scored" THEN PostScored(r) ELSE cells("geometry")
           After == {i \in Items : /\ i[2] = r
                                   /\ lane = "scored" => i[1] \in {"pair", "mechanism", "tum"}
                                   /\ lane = "capture" => i[1] = "geometry"}
<1>1. RowPlan(lane, r) = cells(lane) \o tail
  BY DEF RowPlan
<1>2. \A l \in {"scored", "capture", "geometry"} :
         cells(l) \in Seq(Items) /\ Len(cells(l)) = 2 /\ \A k \in 1 .. 2 : cells(l)[k] = <<l, r, order[k]>>
  <2>1. \A l \in {"scored", "capture", "geometry"}, k \in 1 .. 2 : <<l, r, order[k]>> \in Items
    BY OrderOfSystems, CellIsItem
  <2>2. ASSUME NEW l \in {"scored", "capture", "geometry"} PROVE cells(l) \in [1 .. 2 -> Items]
    BY <2>1
  <2>3. \A l \in {"scored", "capture", "geometry"} : cells(l) \in Seq(Items) /\ Len(cells(l)) = 2
    BY <2>2, TwoAreASequence
  <2> QED  BY <2>3
<1>3. tail \in Seq(After)
  <2>1. CASE lane = "scored"
    <3>1. Rows[r].full => Pair(r) \in After
      BY <2>1 DEF Pair, Items
    <3>2. Rows[r].rotation => Mechanism(r) \in After
      BY <2>1 DEF Mechanism, Items
    <3>3. Rows[r].tum => Reference(r) \in After
      BY <2>1 DEF Reference, Items
    <3> DEFINE a == IF Rows[r].full THEN <<Pair(r)>> ELSE <<>>
               b == IF Rows[r].full /\ Rows[r].rotation THEN <<Mechanism(r)>> ELSE <<>>
               c == IF Rows[r].tum THEN <<Reference(r)>> ELSE <<>>
    <3> HIDE DEF After
    <3>4. a \in Seq(After) /\ b \in Seq(After) /\ c \in Seq(After)
      BY <3>1, <3>2, <3>3
    <3>5. tail = a \o b \o c
      BY <2>1 DEF PostScored
    <3> HIDE DEF a, b, c, tail
    <3>6. a \o b \in Seq(After)
      BY <3>4, ConcatProperties
    <3>7. a \o b \o c \in Seq(After)
      BY <3>4, <3>6, ConcatProperties
    <3> QED  BY <3>5, <3>7
  <2>2. CASE lane = "capture"
    <3>1. tail = cells("geometry")
      BY <2>2
    <3>2. \A k \in 1 .. 2 : cells("geometry")[k] \in After
      BY <2>2, <1>2, OrderOfSystems, CellIsItem
    <3>3. cells("geometry") \in [1 .. 2 -> After]
      BY <3>2
    <3> HIDE DEF After, cells, tail
    <3> QED  BY <3>1, <3>3, TwoAreASequence
  <2> QED  BY <2>1, <2>2 DEF Lanes
<1>4. lane \in {"scored", "capture", "geometry"}
  BY DEF Lanes
<1>5. After \subseteq Items
  OBVIOUS
<1> DEFINE first == cells(lane)
           plan == first \o tail
<1>6. first \in Seq(Items) /\ Len(first) = 2 /\ \A k \in 1 .. 2 : first[k] = <<lane, r, order[k]>>
  BY <1>2, <1>4
<1> HIDE DEF first, tail, order, After
<1>7. tail \in Seq(Items) /\ Len(tail) \in Nat /\ plan \in Seq(Items) /\ Len(plan) = 2 + Len(tail)
  <2>1. tail \in Seq(Items) /\ Len(tail) \in Nat
    BY <1>3, <1>5, SeqMonotonic, LenProperties
  <2>2. first \o tail \in Seq(Items) /\ Len(first \o tail) = Len(first) + Len(tail)
    BY <2>1, <1>6, ConcatProperties
  <2> QED  BY <2>1, <2>2, <1>6
<1>8. \A k \in 1 .. 2 : plan[k] = first[k]
  BY <1>6, <1>7
<1>9. ASSUME NEW k \in 3 .. Len(plan) PROVE plan[k] \in After
  <2>1. plan[k] = tail[k - 2] /\ k - 2 \in 1 .. Len(tail)
    BY <1>6, <1>7
  <2> QED  BY <2>1, <1>3
<1>10. RowPlan(lane, r) = plan
  BY <1>1 DEF first
<1>11. \A k \in 3 .. Len(plan) :
          /\ plan[k] \in Items /\ plan[k][2] = r
          /\ lane = "scored" => plan[k][1] \in {"pair", "mechanism", "tum"}
          /\ lane = "capture" => plan[k][1] = "geometry"
  BY <1>9 DEF After
<1> HIDE DEF plan
<1> QED  BY <1>6, <1>7, <1>8, <1>10, <1>11 DEF order

-----------------------------------------------------------------------------
\* Type correctness.

\* A campaign at a step of a row is at an item of the plan.
LEMMA ItemTyped ==
    ASSUME TypeCamp, NEW p \in Ids, camp[p].row \in Orders
    PROVE  Item(p) \in Items
<1>1. camp[p].lane \in Lanes /\ camp[p].step \in 1 .. Len(RowPlan(camp[p].lane, camp[p].row))
  BY DEF TypeCamp
<1>2. RowPlan(camp[p].lane, camp[p].row) \in Seq(Items)
  BY <1>1, RowPlanShape
<1> QED  BY <1>1, <1>2, ElementOfSeq DEF Item

\* What a program reads of its sources is a lineage.
LEMMA GensTyped ==
    ASSUME TypeStore, NEW i \in Items
    PROVE  Gens(i) \in Lineages
<1>1. Gens(i) \in [Sources[i] -> Nat]
  BY SourcesAreItems DEF Gens, TypeStore, Artifacts
<1> QED  BY <1>1 DEF Lineages

LEMMA NothingTyped == Nothing \in Artifacts
BY DEF Nothing, Artifacts, Lineages, Statuses

\* A new directory.
LEMMA CreatedTyped ==
    ASSUME NEW g \in Nat
    PROVE  [Nothing EXCEPT !.st = "open", !.gen = g] \in Artifacts
BY NothingTyped DEF Artifacts

\* A directory or a file a tool publishes.
LEMMA PublishedTyped ==
    ASSUME TypeStore, TypeJob, NEW p \in Ids, job[p].step # "idle",
           NEW st \in {"unsealed", "sealed"}
    PROVE  Published(p, st) \in Artifacts /\ [Published(p, st) EXCEPT !.status = "fail"] \in Artifacts
<1>1. /\ job[p].item \in Items /\ claims[job[p].item] + 1 \in Nat
      /\ job[p].of \in Lineages /\ job[p].status \in Statuses
  BY DEF TypeStore, TypeJob, Jobs
<1>2. Published(p, st) \in Artifacts
  BY <1>1 DEF Published, Artifacts
<1> QED  BY <1>2 DEF Artifacts, Statuses

\* Writing one directory keeps the rest.
LEMMA WriteTyped ==
    ASSUME TypeStore, NEW i \in Items, NEW a \in Artifacts,
           art' = [art EXCEPT ![i] = a], claims' \in {claims, [claims EXCEPT ![i] = @ + 1]},
           removals' \in Nat
    PROVE  TypeStore'
BY DEF TypeStore

\* Every step keeps the result directories in their ranges.
LEMMA StoreTyped ==
    ASSUME TypeStore, TypeJob, TypeCamp, [Next]_vars
    PROVE  TypeStore'
<1> DEFINE Goal == TypeStore'
<1>1. ASSUME NEW p \in Ids, NEW lane \in {"scored", "capture"}, Start(p, lane) PROVE Goal
  BY <1>1, NothingTyped DEF Start, store, TypeStore
<1>2. ASSUME NEW p \in Ids, StartEvent(p) PROVE Goal
  BY <1>2, NothingTyped DEF StartEvent, store, Record, Stop, TypeStore
<1>3. ASSUME NEW p \in Ids, CaptureGate(p) PROVE Goal
  BY <1>3, NothingTyped DEF CaptureGate, store, log, Stop, Goto, TypeStore
<1>4. ASSUME NEW p \in Ids, Look(p) PROVE Goal
  BY <1>4, NothingTyped DEF Look, store, Stop, Goto, Record, TypeStore
<1>5. ASSUME NEW p \in Ids, Launch(p) PROVE Goal
  <2>1. Item(p) \in Items
    BY <1>5, ItemTyped DEF Launch, TypeCamp
  <2>2. \/ UNCHANGED <<art, claims, removals>>
        \/ /\ art' = [art EXCEPT ![Item(p)] = [Nothing EXCEPT !.st = "open", !.gen = claims[Item(p)] + 1]]
           /\ claims' = [claims EXCEPT ![Item(p)] = @ + 1] /\ removals' = removals
    BY <1>5 DEF Launch, store
  <2>3. claims[Item(p)] + 1 \in Nat /\ removals \in Nat
    BY <2>1 DEF TypeStore
  <2> HIDE DEF Goal
  <2>4. CASE UNCHANGED <<art, claims, removals>>
    BY <2>4 DEF Goal, TypeStore
  <2>5. CASE ~UNCHANGED <<art, claims, removals>>
    BY <2>1, <2>2, <2>3, <2>5, CreatedTyped, WriteTyped DEF Goal
  <2> QED  BY <2>4, <2>5
<1>6. ASSUME NEW p \in Ids, Close(p) PROVE Goal
  BY <1>6, NothingTyped DEF Close, store, Stop, Record, TypeStore
<1>7. ASSUME NEW p \in Ids, Finish(p) PROVE Goal
  BY <1>7, NothingTyped DEF Finish, store, Record, Stop, TypeStore
<1>8. ASSUME NEW p \in Ids, Killed(p) PROVE Goal
  BY <1>8, NothingTyped DEF Killed, store, Fails, Stop, TypeStore
<1>9. ASSUME NEW p \in Ids, Claim(p) PROVE Goal
  <2> DEFINE i == job[p].item
  <2>1. i \in Items /\ claims[i] + 1 \in Nat /\ removals \in Nat
    BY <1>9 DEF Claim, TypeJob, TypeStore
  <2>2. \/ UNCHANGED <<art, claims, removals>>
        \/ /\ art' = [art EXCEPT ![i] = [Nothing EXCEPT !.st = "open", !.gen = claims[i] + 1]]
           /\ claims' = [claims EXCEPT ![i] = @ + 1] /\ removals' = removals
    BY <1>9 DEF Claim, Creates, Writes, Outside
  <2> HIDE DEF Goal, i
  <2>4. CASE UNCHANGED <<art, claims, removals>>
    BY <2>4 DEF Goal, TypeStore
  <2>5. CASE ~UNCHANGED <<art, claims, removals>>
    BY <2>1, <2>2, <2>5, CreatedTyped, WriteTyped DEF Goal
  <2> QED  BY <2>4, <2>5
<1>10. ASSUME NEW p \in Ids, CellRuns(p) PROVE Goal
  <2> DEFINE i == job[p].item
  <2>1. i \in Items /\ art[i] \in Artifacts /\ job[p].of \in Lineages /\ removals \in Nat
    BY <1>10 DEF CellRuns, TypeJob, TypeStore, Jobs
  <2>2. PICK status \in Statuses :
           art' = [art EXCEPT ![i] = [art[i] EXCEPT !.st = "unsealed", !.of = job[p].of, !.status = status]]
    BY <1>10 DEF CellRuns, Writes, Statuses
  <2>3. [art[i] EXCEPT !.st = "unsealed", !.of = job[p].of, !.status = status] \in Artifacts
    BY <2>1 DEF Artifacts
  <2>4. UNCHANGED <<claims, removals>>
    BY <1>10 DEF CellRuns, Outside
  <2> HIDE DEF i
  <2> QED  BY <2>1, <2>2, <2>3, <2>4, WriteTyped
<1>11. ASSUME NEW p \in Ids, Seal(p) PROVE Goal
  <2> DEFINE i == job[p].item
  <2>1. i \in Items /\ art[i] \in Artifacts /\ removals \in Nat
    BY <1>11 DEF Seal, TypeJob, TypeStore
  <2>2. art' = [art EXCEPT ![i] = [art[i] EXCEPT !.st = "sealed"]] /\ UNCHANGED <<claims, removals>>
    BY <1>11 DEF Seal, Writes, Outside
  <2>3. [art[i] EXCEPT !.st = "sealed"] \in Artifacts
    BY <2>1 DEF Artifacts
  <2> HIDE DEF i
  <2> QED  BY <2>1, <2>2, <2>3, WriteTyped
<1>12. ASSUME NEW p \in Ids, Open(p) PROVE Goal
  BY <1>12, NothingTyped DEF Open, Outside, Exits, log, TypeStore
<1>13. ASSUME NEW p \in Ids, JobDies(p) PROVE Goal
  BY <1>13, NothingTyped DEF JobDies, Outside, Fails, Writes, Exits, log, TypeStore
<1>14. ASSUME NEW p \in Ids, PublishPair(p) PROVE Goal
  <2> DEFINE i == job[p].item
  <2>1. i \in Items /\ removals \in Nat /\ job[p].step # "idle"
    BY <1>14 DEF PublishPair, Evaluates, TypeJob, TypeStore
  <2>2. removals' = removals /\ (art' # art \/ claims' # claims =>
           claims' = [claims EXCEPT ![i] = @ + 1] /\ \E a \in Artifacts : art' = [art EXCEPT ![i] = a])
    BY <1>14, <2>1, PublishedTyped DEF PublishPair, Evaluates, Gives, GivesUp, Writes, Outside
  <2> HIDE DEF Goal, i
  <2>3. CASE UNCHANGED <<art, claims>>
    BY <2>2, <2>3 DEF Goal, TypeStore
  <2>4. CASE ~UNCHANGED <<art, claims>>
    BY <2>1, <2>2, <2>4, WriteTyped DEF Goal
  <2> QED  BY <2>3, <2>4
<1>15. ASSUME NEW p \in Ids, PublishMechanism(p) PROVE Goal
  <2> DEFINE i == job[p].item
  <2>1. i \in Items /\ removals \in Nat /\ job[p].step # "idle"
    BY <1>15 DEF PublishMechanism, Evaluates, TypeJob, TypeStore
  <2>2. removals' = removals /\ (art' # art \/ claims' # claims =>
           claims' = [claims EXCEPT ![i] = @ + 1] /\ \E a \in Artifacts : art' = [art EXCEPT ![i] = a])
    BY <1>15, <2>1, PublishedTyped DEF PublishMechanism, Evaluates, Gives, GivesUp, Writes, Outside
  <2> HIDE DEF Goal, i
  <2>3. CASE UNCHANGED <<art, claims>>
    BY <2>2, <2>3 DEF Goal, TypeStore
  <2>4. CASE ~UNCHANGED <<art, claims>>
    BY <2>1, <2>2, <2>4, WriteTyped DEF Goal
  <2> QED  BY <2>3, <2>4
<1>16. ASSUME NEW p \in Ids, PublishReference(p) PROVE Goal
  <2> DEFINE i == job[p].item
  <2>1. i \in Items /\ removals \in Nat /\ job[p].step # "idle"
    BY <1>16 DEF PublishReference, Evaluates, TypeJob, TypeStore
  <2>2. removals' = removals /\ (art' # art \/ claims' # claims =>
           claims' = [claims EXCEPT ![i] = @ + 1] /\ \E a \in Artifacts : art' = [art EXCEPT ![i] = a])
    BY <1>16, <2>1, PublishedTyped DEF PublishReference, Evaluates, Gives, GivesUp, Writes, Outside
  <2> HIDE DEF Goal, i
  <2>3. CASE UNCHANGED <<art, claims>>
    BY <2>2, <2>3 DEF Goal, TypeStore
  <2>4. CASE ~UNCHANGED <<art, claims>>
    BY <2>1, <2>2, <2>4, WriteTyped DEF Goal
  <2> QED  BY <2>3, <2>4
<1>17. ASSUME NEW p \in Ids, PublishBundle(p) PROVE Goal
  <2> DEFINE i == job[p].item
  <2>1. i \in Items /\ removals \in Nat /\ job[p].step # "idle"
    BY <1>17 DEF PublishBundle, Evaluates, TypeJob, TypeStore
  <2>2. removals' = removals /\ (art' # art \/ claims' # claims =>
           claims' = [claims EXCEPT ![i] = @ + 1] /\ \E a \in Artifacts : art' = [art EXCEPT ![i] = a])
    BY <1>17, <2>1, PublishedTyped DEF PublishBundle, Evaluates, Gives, GivesUp, Writes, Outside
  <2> HIDE DEF Goal, i
  <2>3. CASE UNCHANGED <<art, claims>>
    BY <2>2, <2>3 DEF Goal, TypeStore
  <2>4. CASE ~UNCHANGED <<art, claims>>
    BY <2>1, <2>2, <2>4, WriteTyped DEF Goal
  <2> QED  BY <2>3, <2>4
<1>18. ASSUME NEW i \in Items, TakeAway(i) PROVE Goal
  BY <1>18, NothingTyped DEF TakeAway, log, TypeStore
<1>19. ASSUME NEW i \in Items, Edit(i) PROVE Goal
  <2>1. art[i] \in Artifacts /\ removals \in Nat
    BY DEF TypeStore
  <2>2. PICK e \in {"content", "extra"} : art' = [art EXCEPT ![i] = [art[i] EXCEPT !.edited = e]]
    BY <1>19 DEF Edit
  <2>3. UNCHANGED <<claims, removals>> /\ [art[i] EXCEPT !.edited = e] \in Artifacts
    BY <1>19, <2>1 DEF Edit, Artifacts
  <2> QED  BY <2>1, <2>2, <2>3, WriteTyped
<1>20. ASSUME Drift PROVE Goal
  BY <1>20, NothingTyped DEF Drift, store, log, Fails, TypeStore
<1>21. ASSUME AggregateCells PROVE Goal
  BY <1>21, NothingTyped DEF AggregateCells, store, log, TypeStore
<1>22. ASSUME AggregateDerived PROVE Goal
  BY <1>22, NothingTyped DEF AggregateDerived, store, log, TypeStore
<1>23. ASSUME UNCHANGED vars PROVE Goal
  BY <1>23 DEF vars, store, log, TypeStore
<1> HIDE DEF Goal
<1>24. ASSUME NEW p \in Ids,
             \/ \E lane \in {"scored", "capture"} : Start(p, lane)
             \/ StartEvent(p) \/ CaptureGate(p) \/ Look(p) \/ Launch(p) \/ Close(p) \/ Finish(p) \/ Killed(p)
             \/ Claim(p) \/ CellRuns(p) \/ Seal(p) \/ Open(p) \/ JobDies(p)
             \/ PublishPair(p) \/ PublishMechanism(p) \/ PublishReference(p) \/ PublishBundle(p)
      PROVE  Goal
  BY <1>24, <1>1, <1>2, <1>3, <1>4, <1>5, <1>6, <1>7, <1>8, <1>9, <1>10, <1>11, <1>12,
     <1>13, <1>14, <1>15, <1>16, <1>17
<1>25. ASSUME Next PROVE Goal
  BY <1>25, <1>24, <1>18, <1>19, <1>20, <1>21, <1>22 DEF Next
<1> QED  BY <1>23, <1>25 DEF Goal


LEMMA NoJobTyped == NoJob \in Jobs
BY DEF NoJob, Jobs, Lineages, Statuses

\* What may become of a launched program: it is forgotten, a campaign launches
\* it, or it goes on with its own item.
JobStep(p, j) ==
    /\ j \in Jobs
    /\ \/ j.step = "idle"
       \/ camp[p].pc = "launch" /\ j.step = "begin" /\ j.item = Item(p)
       \/ /\ job[p].step \notin {"idle", "done"} /\ j.item = job[p].item /\ j.step # "idle"
          /\ j.step = "run" => IsCell(j.item)

JobGoes == job' = job \/ \E p \in Ids : \E j : JobStep(p, j) /\ job' = [job EXCEPT ![p] = j]

\* A program that goes on.
LEMMA GoesOn ==
    ASSUME TypeJob, NEW p \in Ids, job[p].step \notin {"idle", "done"},
           NEW step \in {"run", "evaluate", "seal", "done"}, NEW of \in Lineages,
           NEW status \in Statuses, NEW exit \in {0, 2, 9},
           step = "run" => IsCell(job[p].item),
           job' = [job EXCEPT ![p] = [job[p] EXCEPT !.step = step, !.of = of, !.status = status, !.exit = exit]]
    PROVE  JobGoes
<1> DEFINE j == [job[p] EXCEPT !.step = step, !.of = of, !.status = status, !.exit = exit]
<1>1. j \in Jobs /\ j.step = step /\ j.item = job[p].item
  BY DEF TypeJob, Jobs
<1>2. job' = [job EXCEPT ![p] = j]
  OBVIOUS
<1> HIDE DEF j
<1> QED  BY <1>1, <1>2 DEF JobGoes, JobStep

LEMMA ExitsGoes ==
    ASSUME TypeJob, NEW p \in Ids, job[p].step \notin {"idle", "done"},
           NEW code \in {0, 2, 9}, Exits(p, code)
    PROVE  JobGoes
<1>1. job[p] \in Jobs
  BY DEF TypeJob
<1>2. job[p].of \in Lineages /\ job[p].status \in Statuses
  BY <1>1 DEF Jobs
<1>3. job' = [job EXCEPT ![p] = [job[p] EXCEPT !.step = "done", !.of = job[p].of,
                                              !.status = job[p].status, !.exit = code]]
  BY <1>1 DEF Exits, Jobs, TypeJob
<1> QED  BY <1>2, <1>3, GoesOn

\* Every step changes one launched program, in one of these ways.
LEMMA JobKinds ==
    ASSUME TypeStore, TypeJob, TypeCamp, [Next]_vars
    PROVE  JobGoes
<1> DEFINE Goal == JobGoes
<1>1. ASSUME NEW p \in Ids, NEW lane \in {"scored", "capture"}, Start(p, lane) PROVE Goal
  BY <1>1 DEF Start, store, JobGoes
<1>2. ASSUME NEW p \in Ids, StartEvent(p) PROVE Goal
  BY <1>2 DEF StartEvent, store, JobGoes
<1>3. ASSUME NEW p \in Ids, CaptureGate(p) PROVE Goal
  BY <1>3 DEF CaptureGate, store, log, JobGoes
<1>4. ASSUME NEW p \in Ids, Look(p) PROVE Goal
  BY <1>4 DEF Look, store, JobGoes
<1>5. ASSUME NEW p \in Ids, Launch(p) PROVE Goal
  <2> DEFINE j == [NoJob EXCEPT !.item = Item(p), !.step = "begin"]
  <2>1. Item(p) \in Items
    BY <1>5, ItemTyped DEF Launch, TypeCamp
  <2>2. job' = job \/ job' = [job EXCEPT ![p] = j]
    BY <1>5 DEF Launch
  <2>3. camp[p].pc = "launch" /\ j \in Jobs /\ j.step = "begin" /\ j.item = Item(p)
    BY <1>5, <2>1, NoJobTyped DEF Launch, Jobs
  <2> HIDE DEF j
  <2> QED  BY <2>2, <2>3 DEF JobGoes, JobStep
<1>6. ASSUME NEW p \in Ids, Close(p) PROVE Goal
  <2>1. job' = [job EXCEPT ![p] = NoJob] /\ NoJob.step = "idle"
    BY <1>6 DEF Close, NoJob
  <2> QED  BY <2>1, NoJobTyped DEF JobGoes, JobStep
<1>7. ASSUME NEW p \in Ids, Finish(p) PROVE Goal
  BY <1>7 DEF Finish, store, JobGoes
<1>8. ASSUME NEW p \in Ids, Killed(p) PROVE Goal
  BY <1>8 DEF Killed, store, JobGoes
<1>9. ASSUME NEW p \in Ids, Claim(p) PROVE Goal
  <2>1. job[p] \in Jobs
    BY DEF TypeJob
  <2>2. job[p].of \in Lineages /\ job[p].status \in Statuses /\ job[p].exit \in {0, 2, 9}
    BY <2>1 DEF Jobs
  <2>3. job[p].item \in Items /\ job[p].step = "begin" /\ IsCell(job[p].item)
    BY <1>9 DEF Claim, TypeJob
  <2>4. Gens(job[p].item) \in Lineages
    BY <2>3, GensTyped
  <2>5. \/ Exits(p, 2)
        \/ job' = [job EXCEPT ![p].step = "run", ![p].of = Gens(job[p].item)]
    BY <1>9 DEF Claim
  <2>6. CASE Exits(p, 2)
    BY <2>3, <2>6, ExitsGoes
  <2>7. CASE job' = [job EXCEPT ![p].step = "run", ![p].of = Gens(job[p].item)]
    <3>1. job' = [job EXCEPT ![p] = [job[p] EXCEPT !.step = "run", !.of = Gens(job[p].item),
                                       !.status = job[p].status, !.exit = job[p].exit]]
      BY <2>1, <2>7 DEF Jobs, TypeJob
    <3> QED  BY <3>1, <2>2, <2>3, <2>4, GoesOn
  <2> QED  BY <2>5, <2>6, <2>7
<1>10. ASSUME NEW p \in Ids, CellRuns(p) PROVE Goal
  <2>1. job[p] \in Jobs
    BY DEF TypeJob
  <2>2. job[p].of \in Lineages /\ job[p].status \in Statuses /\ job[p].exit \in {0, 2, 9}
    BY <2>1 DEF Jobs
  <2>3. job' = [job EXCEPT ![p] = [job[p] EXCEPT !.step = "seal", !.of = job[p].of,
                                       !.status = job[p].status, !.exit = job[p].exit]]
    BY <1>10, <2>1 DEF CellRuns, Jobs, TypeJob
  <2>4. job[p].step = "run"
    BY <1>10 DEF CellRuns
  <2> QED  BY <2>2, <2>3, <2>4, GoesOn
<1>11. ASSUME NEW p \in Ids, Seal(p) PROVE Goal
  BY <1>11, ExitsGoes DEF Seal
<1>12. ASSUME NEW p \in Ids, Open(p) PROVE Goal
  <2>1. job[p] \in Jobs
    BY DEF TypeJob
  <2>2. job[p].of \in Lineages /\ job[p].status \in Statuses /\ job[p].exit \in {0, 2, 9}
    BY <2>1 DEF Jobs
  <2>3. job[p].item \in Items /\ job[p].step = "begin"
    BY <1>12 DEF Open, TypeJob
  <2>4. Gens(job[p].item) \in Lineages
    BY <2>3, GensTyped
  <2>5. \/ Exits(p, 2)
        \/ \E status \in {"pass", "fail"} :
             job' = [job EXCEPT ![p].step = "evaluate", ![p].of = Gens(job[p].item), ![p].status = status]
    BY <1>12 DEF Open
  <2>6. CASE Exits(p, 2)
    BY <2>3, <2>6, ExitsGoes
  <2>7. ASSUME NEW status \in {"pass", "fail"},
               job' = [job EXCEPT ![p].step = "evaluate", ![p].of = Gens(job[p].item), ![p].status = status]
        PROVE  Goal
    <3>1. job' = [job EXCEPT ![p] = [job[p] EXCEPT !.step = "evaluate", !.of = Gens(job[p].item),
                                       !.status = status, !.exit = job[p].exit]]
      BY <2>1, <2>7 DEF Jobs, TypeJob
    <3>2. status \in Statuses
      BY DEF Statuses
    <3> QED  BY <3>1, <3>2, <2>2, <2>3, <2>4, GoesOn
  <2> QED  BY <2>5, <2>6, <2>7
<1>13. ASSUME NEW p \in Ids, JobDies(p) PROVE Goal
  BY <1>13, ExitsGoes DEF JobDies
<1>14. ASSUME NEW p \in Ids, PublishPair(p) PROVE Goal
  <2>1. job[p] \in Jobs
    BY DEF TypeJob
  <2>2. job[p].of \in Lineages /\ job[p].status \in Statuses /\ job[p].exit \in {0, 2, 9}
    BY <2>1 DEF Jobs
  <2>3. job[p].step = "evaluate"
    BY <1>14 DEF PublishPair, Evaluates
  <2>4. \/ Exits(p, 2)
        \/ \E step \in {"seal", "done"}, exit \in {0, 2} : job' = [job EXCEPT ![p].step = step, ![p].exit = exit]
    BY <1>14 DEF PublishPair, Gives, GivesUp
  <2>5. CASE Exits(p, 2)
    BY <2>3, <2>5, ExitsGoes
  <2>6. ASSUME NEW step \in {"seal", "done"}, NEW exit \in {0, 2},
               job' = [job EXCEPT ![p].step = step, ![p].exit = exit]
        PROVE  Goal
    <3>1. job' = [job EXCEPT ![p] = [job[p] EXCEPT !.step = step, !.of = job[p].of,
                                       !.status = job[p].status, !.exit = exit]]
      BY <2>1, <2>6 DEF Jobs, TypeJob
    <3> QED  BY <3>1, <2>2, <2>3, GoesOn
  <2> QED  BY <2>4, <2>5, <2>6
<1>15. ASSUME NEW p \in Ids, PublishMechanism(p) PROVE Goal
  <2>1. job[p] \in Jobs
    BY DEF TypeJob
  <2>2. job[p].of \in Lineages /\ job[p].status \in Statuses /\ job[p].exit \in {0, 2, 9}
    BY <2>1 DEF Jobs
  <2>3. job[p].step = "evaluate"
    BY <1>15 DEF PublishMechanism, Evaluates
  <2>4. \/ Exits(p, 2)
        \/ \E step \in {"seal", "done"}, exit \in {0, 2} : job' = [job EXCEPT ![p].step = step, ![p].exit = exit]
    BY <1>15 DEF PublishMechanism, Gives, GivesUp
  <2>5. CASE Exits(p, 2)
    BY <2>3, <2>5, ExitsGoes
  <2>6. ASSUME NEW step \in {"seal", "done"}, NEW exit \in {0, 2},
               job' = [job EXCEPT ![p].step = step, ![p].exit = exit]
        PROVE  Goal
    <3>1. job' = [job EXCEPT ![p] = [job[p] EXCEPT !.step = step, !.of = job[p].of,
                                       !.status = job[p].status, !.exit = exit]]
      BY <2>1, <2>6 DEF Jobs, TypeJob
    <3> QED  BY <3>1, <2>2, <2>3, GoesOn
  <2> QED  BY <2>4, <2>5, <2>6
<1>16. ASSUME NEW p \in Ids, PublishReference(p) PROVE Goal
  <2>1. job[p] \in Jobs
    BY DEF TypeJob
  <2>2. job[p].of \in Lineages /\ job[p].status \in Statuses /\ job[p].exit \in {0, 2, 9}
    BY <2>1 DEF Jobs
  <2>3. job[p].step = "evaluate"
    BY <1>16 DEF PublishReference, Evaluates
  <2>4. \/ Exits(p, 2)
        \/ \E step \in {"seal", "done"}, exit \in {0, 2} : job' = [job EXCEPT ![p].step = step, ![p].exit = exit]
    BY <1>16 DEF PublishReference, Gives, GivesUp
  <2>5. CASE Exits(p, 2)
    BY <2>3, <2>5, ExitsGoes
  <2>6. ASSUME NEW step \in {"seal", "done"}, NEW exit \in {0, 2},
               job' = [job EXCEPT ![p].step = step, ![p].exit = exit]
        PROVE  Goal
    <3>1. job' = [job EXCEPT ![p] = [job[p] EXCEPT !.step = step, !.of = job[p].of,
                                       !.status = job[p].status, !.exit = exit]]
      BY <2>1, <2>6 DEF Jobs, TypeJob
    <3> QED  BY <3>1, <2>2, <2>3, GoesOn
  <2> QED  BY <2>4, <2>5, <2>6
<1>17. ASSUME NEW p \in Ids, PublishBundle(p) PROVE Goal
  <2>1. job[p] \in Jobs
    BY DEF TypeJob
  <2>2. job[p].of \in Lineages /\ job[p].status \in Statuses /\ job[p].exit \in {0, 2, 9}
    BY <2>1 DEF Jobs
  <2>3. job[p].step = "evaluate"
    BY <1>17 DEF PublishBundle, Evaluates
  <2>4. \/ Exits(p, 2)
        \/ \E step \in {"seal", "done"}, exit \in {0, 2} : job' = [job EXCEPT ![p].step = step, ![p].exit = exit]
    BY <1>17 DEF PublishBundle, Gives, GivesUp
  <2>5. CASE Exits(p, 2)
    BY <2>3, <2>5, ExitsGoes
  <2>6. ASSUME NEW step \in {"seal", "done"}, NEW exit \in {0, 2},
               job' = [job EXCEPT ![p].step = step, ![p].exit = exit]
        PROVE  Goal
    <3>1. job' = [job EXCEPT ![p] = [job[p] EXCEPT !.step = step, !.of = job[p].of,
                                       !.status = job[p].status, !.exit = exit]]
      BY <2>1, <2>6 DEF Jobs, TypeJob
    <3> QED  BY <3>1, <2>2, <2>3, GoesOn
  <2> QED  BY <2>4, <2>5, <2>6
<1>18. ASSUME NEW i \in Items, TakeAway(i) PROVE Goal
  BY <1>18 DEF TakeAway, log, JobGoes
<1>19. ASSUME NEW i \in Items, Edit(i) PROVE Goal
  BY <1>19 DEF Edit, log, JobGoes
<1>20. ASSUME Drift PROVE Goal
  BY <1>20 DEF Drift, store, log, JobGoes
<1>21. ASSUME AggregateCells PROVE Goal
  BY <1>21 DEF AggregateCells, store, log, JobGoes
<1>22. ASSUME AggregateDerived PROVE Goal
  BY <1>22 DEF AggregateDerived, store, log, JobGoes
<1>23. ASSUME UNCHANGED vars PROVE Goal
  BY <1>23 DEF vars, store, log, JobGoes
<1> HIDE DEF Goal
<1>24. ASSUME NEW p \in Ids,
             \/ \E lane \in {"scored", "capture"} : Start(p, lane)
             \/ StartEvent(p) \/ CaptureGate(p) \/ Look(p) \/ Launch(p) \/ Close(p) \/ Finish(p) \/ Killed(p)
             \/ Claim(p) \/ CellRuns(p) \/ Seal(p) \/ Open(p) \/ JobDies(p)
             \/ PublishPair(p) \/ PublishMechanism(p) \/ PublishReference(p) \/ PublishBundle(p)
      PROVE  Goal
  BY <1>24, <1>1, <1>2, <1>3, <1>4, <1>5, <1>6, <1>7, <1>8, <1>9, <1>10, <1>11, <1>12,
     <1>13, <1>14, <1>15, <1>16, <1>17
<1>25. ASSUME Next PROVE Goal
  BY <1>25, <1>24, <1>18, <1>19, <1>20, <1>21, <1>22 DEF Next
<1> QED  BY <1>23, <1>25 DEF Goal


LEMMA JobTyped ==
    ASSUME TypeJob, TypeCamp, JobGoes
    PROVE  TypeJob'
<1>1. ASSUME NEW p \in Ids, NEW j, JobStep(p, j), job' = [job EXCEPT ![p] = j]
      PROVE  TypeJob'
  <2>1. /\ j.step # "idle" => j.item \in Items
        /\ j.step = "run" => IsCell(j.item)
    BY <1>1, ItemTyped DEF JobStep, TypeJob, TypeCamp
  <2> QED  BY <1>1, <2>1 DEF JobStep, TypeJob
<1> QED  BY <1>1 DEF JobGoes, TypeJob

-----------------------------------------------------------------------------
\* The campaign processes.

\* What lets a campaign go on to the next step: the item is there, whole, and no
\* fatal cell, or it is a pair that is skipped.
Settled(p) ==
    LET i == Item(p) IN
    \/ Skipped(p)
    \/ art[i].st = "sealed" /\ (IsCell(i) => art[i].status # "fatal")

\* What the row has got afterwards.
Counts(p, got) ==
    LET i == Item(p) IN
    /\ got \in {camp[p].got, camp[p].got \cup {i[3]}}
    /\ ~IsCell(i) => got = camp[p].got
    /\ ~Skipped(p) /\ IsCell(i) /\ art[i].status = "eligible" => got = camp[p].got \cup {i[3]}

CampStep(p, c) ==
    \/ c \in {Over("stopped"), Over("done")}
    \/ camp[p].pc = "new" /\ \E lane \in Lanes : c = [camp[p] EXCEPT !.pc = "start", !.lane = lane]
    \/ /\ camp[p].pc = "start"
       /\ c = [camp[p] EXCEPT !.pc = IF camp[p].lane = "capture" THEN "gate" ELSE "look"]
    \/ /\ camp[p].pc = "gate" /\ c = [camp[p] EXCEPT !.pc = "look"]
       /\ \A i \in Cells("scored") : art[i].st = "sealed"
    \/ /\ camp[p].pc = "look" /\ camp[p].row \in Orders /\ ~Skipped(p)
       /\ c = [camp[p] EXCEPT !.pc = "launch"]
    \/ camp[p].pc = "launch" /\ c = [camp[p] EXCEPT !.pc = "wait"]
    \/ /\ camp[p].pc \in {"look", "wait"} /\ camp[p].row \in Orders /\ Settled(p)
       /\ \E got : Counts(p, got) /\ c = Advance(p, got)

CampGoes == camp' = camp \/ \E p \in Ids : \E c : CampStep(p, c) /\ camp' = [camp EXCEPT ![p] = c]

LEMMA StopGoes ==
    ASSUME NEW p \in Ids, Stop(p)
    PROVE  CampGoes
BY DEF Stop, CampGoes, CampStep

LEMMA RecordGoes ==
    ASSUME NEW p \in Ids, NEW c, CampStep(p, c), Record(p, c)
    PROVE  CampGoes
BY StopGoes DEF Record, CampGoes

LEMMA GotoIs ==
    ASSUME TypeCamp, NEW p \in Ids, NEW pc, Goto(p, pc)
    PROVE  camp' = [camp EXCEPT ![p] = [camp[p] EXCEPT !.pc = pc]]
BY DEF Goto, TypeCamp

\* A valid item is whole, and no fatal cell.
LEMMA ValidIsSettled ==
    ASSUME NEW i, Valid(i)
    PROVE  art[i].st = "sealed" /\ (IsCell(i) => art[i].status # "fatal")
<1>1. CASE IsCell(i)
  BY <1>1 DEF Valid, IsCell, Retained, ChecksumSet
<1>2. CASE ~IsCell(i) /\ i[1] = "mechanism"
  BY <1>2 DEF Valid, MechanismHolds
<1>3. CASE ~IsCell(i) /\ i[1] # "mechanism"
  BY <1>3 DEF Valid, SimplePublished, ChecksumSet
<1> QED  BY <1>1, <1>2, <1>3

\* Going on after an item that is settled: Retain for a cell, Passed for the rest.
LEMMA GoOnGoes ==
    ASSUME NEW p \in Ids, camp[p].pc \in {"look", "wait"}, camp[p].row \in Orders, Settled(p), ~Skipped(p),
           Record(p, IF IsCell(Item(p)) THEN Retain(p, Item(p)) ELSE Passed(p))
    PROVE  CampGoes
<1>1. CASE IsCell(Item(p))
  <2> DEFINE got == IF art[Item(p)].status = "eligible" THEN camp[p].got \cup {Item(p)[3]} ELSE camp[p].got
  <2>1. Record(p, Advance(p, got))
    BY <1>1 DEF Retain
  <2>2. Counts(p, got)
    BY <1>1 DEF Counts
  <2> HIDE DEF got
  <2>3. CampStep(p, Advance(p, got))
    BY <2>2 DEF CampStep
  <2> QED  BY <2>1, <2>3, RecordGoes
<1>2. CASE ~IsCell(Item(p))
  <2>1. Record(p, Advance(p, camp[p].got)) /\ Counts(p, camp[p].got)
    BY <1>2 DEF Passed, Counts
  <2>2. CampStep(p, Advance(p, camp[p].got))
    BY <2>1 DEF CampStep
  <2> QED  BY <2>1, <2>2, RecordGoes
<1> QED  BY <1>1, <1>2

\* A campaign waits for what its plan is at, and never for a skipped pair.
WaitsForUnskipped == \A p \in Ids : camp[p].pc \in {"launch", "wait"} => ~Skipped(p)

\* Every step changes one campaign process, in one of these ways.
LEMMA CampKinds ==
    ASSUME TypeCamp, WaitsForUnskipped, [Next]_vars
    PROVE  CampGoes
<1> DEFINE Goal == CampGoes
<1>1. ASSUME NEW p \in Ids, NEW lane \in {"scored", "capture"}, Start(p, lane) PROVE Goal
  <2>1. camp' = [camp EXCEPT ![p] = [camp[p] EXCEPT !.pc = "start", !.lane = lane]] /\ camp[p].pc = "new"
    BY <1>1 DEF Start
  <2> QED  BY <2>1 DEF CampGoes, CampStep, Lanes
<1>2. ASSUME NEW p \in Ids, StartEvent(p) PROVE Goal
  <2> DEFINE c == [camp[p] EXCEPT !.pc = IF camp[p].lane = "capture" THEN "gate" ELSE "look"]
  <2>1. Record(p, c) /\ CampStep(p, c)
    BY <1>2 DEF StartEvent, CampStep
  <2> HIDE DEF c
  <2> QED  BY <2>1, RecordGoes
<1>3. ASSUME NEW p \in Ids, CaptureGate(p) PROVE Goal
  <2>1. CASE Stop(p)
    BY <2>1, StopGoes
  <2>2. CASE ~Stop(p)
    <3>1. Goto(p, "look") /\ camp[p].pc = "gate" /\ \A i \in Cells("scored") : art[i].st = "sealed"
      BY <1>3, <2>2 DEF CaptureGate, Retained, ChecksumSet
    <3> QED  BY <3>1, GotoIs DEF CampGoes, CampStep
  <2> QED  BY <2>1, <2>2
<1>4. ASSUME NEW p \in Ids, Look(p) PROVE Goal
  <2>1. camp[p].pc = "look" /\ camp[p].row \in Orders
    BY <1>4 DEF Look
  <2>2. CASE Skipped(p) /\ Record(p, Passed(p))
    <3>1. Settled(p) /\ Counts(p, camp[p].got)
      BY <2>2 DEF Settled, Counts, Skipped, IsCell
    <3>2. CampStep(p, Passed(p))
      BY <2>1, <3>1 DEF CampStep, Passed
    <3> QED  BY <2>2, <3>2, RecordGoes
  <2>3. CASE /\ ~Skipped(p) /\ Valid(Item(p))
             /\ Record(p, IF IsCell(Item(p)) THEN Retain(p, Item(p)) ELSE Passed(p))
    <3>1. Settled(p)
      BY <2>3, ValidIsSettled DEF Settled
    <3> QED  BY <2>1, <2>3, <3>1, GoOnGoes
  <2>4. CASE ~Skipped(p) /\ Goto(p, "launch")
    <3> DEFINE c == [camp[p] EXCEPT !.pc = "launch"]
    <3>1. camp' = [camp EXCEPT ![p] = c]
      BY <2>4, GotoIs
    <3>2. CampStep(p, c)
      BY <2>1, <2>4 DEF CampStep
    <3> QED  BY <3>1, <3>2 DEF CampGoes
  <2>5. CASE Stop(p)
    BY <2>5, StopGoes
  <2> QED  BY <1>4, <2>2, <2>3, <2>4, <2>5 DEF Look
<1>5. ASSUME NEW p \in Ids, Launch(p) PROVE Goal
  <2>1. camp[p].pc = "launch" /\ (Stop(p) \/ Goto(p, "wait"))
    BY <1>5 DEF Launch
  <2>2. CASE Stop(p)
    BY <2>2, StopGoes
  <2>3. CASE Goto(p, "wait")
    <3> DEFINE c == [camp[p] EXCEPT !.pc = "wait"]
    <3>1. camp' = [camp EXCEPT ![p] = c]
      BY <2>3, GotoIs
    <3>2. CampStep(p, c)
      BY <2>1 DEF CampStep
    <3> QED  BY <3>1, <3>2 DEF CampGoes
  <2> QED  BY <2>1, <2>2, <2>3
<1>6. ASSUME NEW p \in Ids, Close(p) PROVE Goal
  <2> DEFINE i == Item(p)
             outcome == CASE IsCell(i) -> CellCloses(i, job[p].exit)
                          [] i[1] = "mechanism" -> MechanismCloses(i, job[p].exit)
                          [] OTHER -> ToolCloses(i, job[p].exit)
  <2>1. /\ camp[p].pc = "wait" /\ camp[p].row \in Orders /\ ~Skipped(p)
        /\ \/ outcome = "go on" /\ Record(p, IF IsCell(i) THEN Retain(p, i) ELSE Passed(p))
           \/ Record(p, Over("stopped"))
           \/ Stop(p)
    BY <1>6 DEF Close, TypeCamp, WaitsForUnskipped
  <2>2. outcome = "go on" => art[i].st = "sealed" /\ (IsCell(i) => art[i].status # "fatal")
    <3>1. CASE IsCell(i)
      BY <3>1 DEF IsCell, CellCloses, Retained, ChecksumSet
    <3>2. CASE ~IsCell(i) /\ i[1] = "mechanism"
      BY <3>2 DEF MechanismCloses, MechanismHolds
    <3>3. CASE ~IsCell(i) /\ i[1] # "mechanism"
      BY <3>3 DEF ToolCloses, SimplePublished, ChecksumSet
    <3> QED  BY <3>1, <3>2, <3>3
  <2>3. CASE outcome = "go on" /\ Record(p, IF IsCell(i) THEN Retain(p, i) ELSE Passed(p))
    <3>1. Settled(p)
      BY <2>2, <2>3 DEF Settled
    <3> QED  BY <2>1, <2>3, <3>1, GoOnGoes
  <2>4. CASE Record(p, Over("stopped"))
    BY <2>4, RecordGoes DEF CampStep
  <2>5. CASE Stop(p)
    BY <2>5, StopGoes
  <2> HIDE DEF outcome, i
  <2> QED  BY <2>1, <2>3, <2>4, <2>5
<1>7. ASSUME NEW p \in Ids, Finish(p) PROVE Goal
  <2>1. Record(p, Over("done")) /\ CampStep(p, Over("done"))
    BY <1>7 DEF Finish, CampStep
  <2> QED  BY <2>1, RecordGoes
<1>8. ASSUME NEW p \in Ids, Killed(p) PROVE Goal
  BY <1>8, StopGoes DEF Killed
<1>9. ASSUME NEW p \in Ids, Claim(p) PROVE Goal
  BY <1>9 DEF Claim, Outside, CampGoes
<1>10. ASSUME NEW p \in Ids, CellRuns(p) PROVE Goal
  BY <1>10 DEF CellRuns, Outside, CampGoes
<1>11. ASSUME NEW p \in Ids, Seal(p) PROVE Goal
  BY <1>11 DEF Seal, Outside, CampGoes
<1>12. ASSUME NEW p \in Ids, Open(p) PROVE Goal
  BY <1>12 DEF Open, Outside, CampGoes
<1>13. ASSUME NEW p \in Ids, JobDies(p) PROVE Goal
  BY <1>13 DEF JobDies, Outside, CampGoes
<1>14. ASSUME NEW p \in Ids, PublishPair(p) PROVE Goal
  BY <1>14 DEF PublishPair, Evaluates, Outside, CampGoes
<1>15. ASSUME NEW p \in Ids, PublishMechanism(p) PROVE Goal
  BY <1>15 DEF PublishMechanism, Evaluates, Outside, CampGoes
<1>16. ASSUME NEW p \in Ids, PublishReference(p) PROVE Goal
  BY <1>16 DEF PublishReference, Evaluates, Outside, CampGoes
<1>17. ASSUME NEW p \in Ids, PublishBundle(p) PROVE Goal
  BY <1>17 DEF PublishBundle, Evaluates, Outside, CampGoes
<1>18. ASSUME NEW i \in Items, TakeAway(i) PROVE Goal
  BY <1>18 DEF TakeAway, CampGoes
<1>19. ASSUME NEW i \in Items, Edit(i) PROVE Goal
  BY <1>19 DEF Edit, CampGoes
<1>20. ASSUME Drift PROVE Goal
  BY <1>20 DEF Drift, CampGoes
<1>21. ASSUME AggregateCells PROVE Goal
  BY <1>21 DEF AggregateCells, CampGoes
<1>22. ASSUME AggregateDerived PROVE Goal
  BY <1>22 DEF AggregateDerived, CampGoes
<1>23. ASSUME UNCHANGED vars PROVE Goal
  BY <1>23 DEF vars, CampGoes
<1> HIDE DEF Goal
<1>24. ASSUME NEW p \in Ids,
             \/ \E lane \in {"scored", "capture"} : Start(p, lane)
             \/ StartEvent(p) \/ CaptureGate(p) \/ Look(p) \/ Launch(p) \/ Close(p) \/ Finish(p) \/ Killed(p)
             \/ Claim(p) \/ CellRuns(p) \/ Seal(p) \/ Open(p) \/ JobDies(p)
             \/ PublishPair(p) \/ PublishMechanism(p) \/ PublishReference(p) \/ PublishBundle(p)
      PROVE  Goal
  BY <1>24, <1>1, <1>2, <1>3, <1>4, <1>5, <1>6, <1>7, <1>8, <1>9, <1>10, <1>11, <1>12,
     <1>13, <1>14, <1>15, <1>16, <1>17
<1>25. ASSUME Next PROVE Goal
  BY <1>25, <1>24, <1>18, <1>19, <1>20, <1>21, <1>22 DEF Next
<1> QED  BY <1>23, <1>25 DEF Goal


\* The item after this one, or the next row, is there in the lane.
LEMMA AdvanceTyped ==
    ASSUME TypeCamp, NEW p \in Ids, camp[p].row \in Orders, NEW got \in SUBSET Systems
    PROVE  LET c == Advance(p, got)
               more == camp[p].step < Len(RowPlan(camp[p].lane, camp[p].row)) IN
           /\ c = [pc |-> "look", lane |-> camp[p].lane,
                   row |-> IF more THEN camp[p].row ELSE camp[p].row + 1,
                   step |-> IF more THEN camp[p].step + 1 ELSE 1,
                   got |-> IF more THEN got ELSE {}]
           /\ c.row \in 1 .. Len(Rows) + 1 /\ c.step \in Nat \ {0}
           /\ c.row \in Orders => c.step \in 1 .. Len(RowPlan(c.lane, c.row))
           /\ c.row \notin Orders => c.step = 1
<1> DEFINE lane == camp[p].lane
           row == camp[p].row
           step == camp[p].step
           more == step < Len(RowPlan(lane, row))
           c == Advance(p, got)
<1>1. /\ lane \in Lanes /\ row \in 1 .. Len(Rows) /\ step \in 1 .. Len(RowPlan(lane, row)) /\ Len(Rows) \in Nat
      /\ camp[p] \in [pc : {"new", "start", "gate", "look", "launch", "wait", "stopped", "done"},
                      lane : Lanes, row : 1 .. Len(Rows) + 1, step : Nat \ {0}, got : SUBSET Systems]
  BY LenProperties DEF TypeCamp, Orders
<1>2. c = [pc |-> "look", lane |-> lane, row |-> IF more THEN row ELSE row + 1,
           step |-> IF more THEN step + 1 ELSE 1, got |-> IF more THEN got ELSE {}]
  BY <1>1 DEF Advance
<1>3. \A r \in Orders : Len(RowPlan(lane, r)) >= 2 /\ Len(RowPlan(lane, r)) \in Nat
  BY <1>1, RowPlanShape, LenProperties
<1> DEFINE d == [pc |-> "look", lane |-> lane, row |-> IF more THEN row ELSE row + 1,
                 step |-> IF more THEN step + 1 ELSE 1, got |-> IF more THEN got ELSE {}]
<1>4. d.lane = lane /\ d.row = (IF more THEN row ELSE row + 1) /\ d.step = (IF more THEN step + 1 ELSE 1)
  OBVIOUS
<1>5. /\ d.row \in 1 .. Len(Rows) + 1 /\ d.step \in Nat \ {0}
      /\ d.row \in Orders => d.step \in 1 .. Len(RowPlan(d.lane, d.row))
      /\ d.row \notin Orders => d.step = 1
  <2> HIDE DEF d, lane, row, step
  <2>1. CASE more
    BY <1>1, <1>3, <1>4, <2>1 DEF Orders
  <2>2. CASE ~more
    BY <1>1, <1>3, <1>4, <2>2 DEF Orders
  <2> QED  BY <2>1, <2>2
<1>6. c = d
  BY <1>2
<1> HIDE DEF c
<1> QED  BY <1>5, <1>6 DEF c

\* A process as TypeCamp has it.
Camps == [pc : {"new", "start", "gate", "look", "launch", "wait", "stopped", "done"},
          lane : Lanes, row : 1 .. Len(Rows) + 1, step : Nat \ {0}, got : SUBSET Systems]
Placed(c) ==
    /\ c.row \in Orders => c.step \in 1 .. Len(RowPlan(c.lane, c.row))
    /\ c.row \notin Orders => c.step = 1
    /\ c.pc \in {"launch", "wait"} => c.row \in Orders
    /\ c.pc \in {"new", "start", "gate"} => c.row = 1 /\ c.step = 1 /\ c.got = {}

\* At the first step of the first row, whatever the lane.
LEMMA FirstPlaced ==
    ASSUME NEW lane \in Lanes, NEW pc \in {"new", "start", "gate", "look", "stopped", "done"},
           NEW c, c = [pc |-> pc, lane |-> lane, row |-> 1, step |-> 1, got |-> {}]
    PROVE  c \in Camps /\ Placed(c)
<1>1. Len(Rows) \in Nat
  BY LenProperties
<1>2. 1 \in Orders => Len(RowPlan(lane, 1)) \in Nat /\ Len(RowPlan(lane, 1)) >= 2
  BY RowPlanShape, LenProperties
<1>3. c \in Camps
  BY <1>1 DEF Camps
<1>4. Placed(c)
  BY <1>2 DEF Placed
<1> QED  BY <1>3, <1>4

LEMMA CampStepTyped ==
    ASSUME TypeCamp, NEW p \in Ids, NEW c, CampStep(p, c)
    PROVE  c \in Camps /\ Placed(c)
<1> DEFINE Goal == c \in Camps /\ Placed(c)
<1>1. camp[p] \in Camps /\ Placed(camp[p])
  BY DEF TypeCamp, Camps, Placed
<1>2. ASSUME c \in {Over("stopped"), Over("done")} PROVE Goal
  BY <1>2, FirstPlaced DEF Over, Lanes
<1>3. ASSUME camp[p].pc = "new", NEW lane \in Lanes, c = [camp[p] EXCEPT !.pc = "start", !.lane = lane]
      PROVE  Goal
  <2>1. c = [pc |-> "start", lane |-> lane, row |-> 1, step |-> 1, got |-> {}]
    BY <1>1, <1>3 DEF Camps, Placed
  <2> QED  BY <2>1, FirstPlaced
<1>4. ASSUME NEW pc \in {"gate", "look"}, camp[p].pc \in {"start", "gate"}, c = [camp[p] EXCEPT !.pc = pc]
      PROVE  Goal
  <2>1. c = [pc |-> pc, lane |-> camp[p].lane, row |-> 1, step |-> 1, got |-> {}] /\ camp[p].lane \in Lanes
    BY <1>1, <1>4 DEF Camps, Placed
  <2> QED  BY <2>1, FirstPlaced
<1>5. ASSUME camp[p].row \in Orders, NEW pc \in {"launch", "wait"}, c = [camp[p] EXCEPT !.pc = pc]
      PROVE  Goal
  BY <1>1, <1>5 DEF Camps, Placed
<1>6. ASSUME camp[p].row \in Orders, NEW got, Counts(p, got), c = Advance(p, got)
      PROVE  Goal
  <2>1. Item(p) \in Items /\ camp[p].got \in SUBSET Systems
    BY <1>1, <1>6, ItemTyped DEF Camps
  <2>2. got \in SUBSET Systems
    BY <1>6, <2>1, ItemShape DEF Counts, IsCell
  <2>3. /\ c.pc = "look" /\ c.lane = camp[p].lane /\ c.got \in SUBSET Systems
        /\ c.row \in 1 .. Len(Rows) + 1 /\ c.step \in Nat \ {0}
        /\ c.row \in Orders => c.step \in 1 .. Len(RowPlan(c.lane, c.row))
        /\ c.row \notin Orders => c.step = 1
        /\ c = [pc |-> c.pc, lane |-> c.lane, row |-> c.row, step |-> c.step, got |-> c.got]
    BY <1>6, <2>2, AdvanceTyped
  <2>4. camp[p].lane \in Lanes
    BY <1>1 DEF Camps
  <2> QED  BY <2>3, <2>4 DEF Camps, Placed
<1>7. camp[p].pc = "launch" => camp[p].row \in Orders
  BY <1>1 DEF Placed
<1> HIDE DEF Goal
<1>8. Goal
  BY <1>2, <1>3, <1>4, <1>5, <1>6, <1>7 DEF CampStep
<1> QED  BY <1>8 DEF Goal

LEMMA CampTyped ==
    ASSUME TypeCamp, CampGoes
    PROVE  TypeCamp'
<1>1. camp \in [Ids -> Camps] /\ \A p \in Ids : Placed(camp[p])
  BY DEF TypeCamp, Camps, Placed
<1>2. camp' \in [Ids -> Camps] /\ \A p \in Ids : Placed(camp'[p])
  BY <1>1, CampStepTyped DEF CampGoes
<1> QED  BY <1>2 DEF TypeCamp, Camps, Placed

\* Only a step that is not skipped is launched, and it stays that until it is closed.
LEMMA WaitsKept ==
    ASSUME TypeCamp, WaitsForUnskipped, CampGoes
    PROVE  WaitsForUnskipped'
<1>1. ASSUME NEW p \in Ids, NEW c, CampStep(p, c), camp' = [camp EXCEPT ![p] = c]
      PROVE  WaitsForUnskipped'
  <2>1. c = camp'[p] /\ \A q \in Ids \ {p} : camp'[q] = camp[q]
    BY <1>1 DEF TypeCamp
  <2>2. c.pc \in {"launch", "wait"} =>
          /\ ~Skipped(p)
          /\ c.lane = camp[p].lane /\ c.row = camp[p].row /\ c.step = camp[p].step /\ c.got = camp[p].got
    <3>1. camp[p] \in Camps
      BY DEF TypeCamp, Camps
    <3>2. ASSUME NEW got, c = Advance(p, got) PROVE c.pc = "look"
      BY <3>1, <3>2 DEF Advance, Camps
    <3>3. c \in {Over("stopped"), Over("done")} => c.pc \notin {"launch", "wait"}
      BY DEF Over
    <3>4. camp[p].pc = "launch" => ~Skipped(p)
      BY DEF WaitsForUnskipped
    <3>5. ASSUME NEW pc, c = [camp[p] EXCEPT !.pc = pc]
          PROVE  /\ c.pc = pc
                 /\ c.lane = camp[p].lane /\ c.row = camp[p].row /\ c.step = camp[p].step /\ c.got = camp[p].got
      BY <3>1, <3>5 DEF Camps
    <3>6. ASSUME NEW lane, c = [camp[p] EXCEPT !.pc = "start", !.lane = lane] PROVE c.pc = "start"
      BY <3>1, <3>6 DEF Camps
    <3>7. ASSUME c = [camp[p] EXCEPT !.pc = IF camp[p].lane = "capture" THEN "gate" ELSE "look"]
          PROVE  c.pc \in {"gate", "look"}
      BY <3>1, <3>7 DEF Camps
    <3> SUFFICES ASSUME c.pc \in {"launch", "wait"}
                 PROVE  (camp[p].pc = "launch" \/ ~Skipped(p)) /\ \E pc : c = [camp[p] EXCEPT !.pc = pc]
      BY <3>4, <3>5
    <3> QED  BY <1>1, <3>2, <3>3, <3>5, <3>6, <3>7 DEF CampStep
  <2> QED  BY <2>1, <2>2 DEF WaitsForUnskipped, Skipped, Item
<1> QED  BY <1>1 DEF CampGoes, WaitsForUnskipped, Skipped, Item

-----------------------------------------------------------------------------
\* The event log and the rest.

LEMMA RecordTyped ==
    ASSUME TypeLog, NEW p \in Ids, NEW c, Record(p, c)
    PROVE  current' \subseteq Ids /\ leftover' \in BOOLEAN
BY DEF TypeLog, Record

\* Every step keeps the log and the rest in their ranges.
LEMMA LogTyped ==
    ASSUME TypeJob, TypeCamp, TypeLog, [Next]_vars
    PROVE  TypeLog'
<1> DEFINE Goal == TypeLog'
<1>1. ASSUME NEW p \in Ids, NEW lane \in {"scored", "capture"}, Start(p, lane) PROVE Goal
  BY <1>1 DEF Start, store, TypeLog
<1>2. ASSUME NEW p \in Ids, StartEvent(p) PROVE Goal
  BY <1>2, RecordTyped DEF StartEvent, TypeLog, store, log
<1>3. ASSUME NEW p \in Ids, CaptureGate(p) PROVE Goal
  BY <1>3 DEF CaptureGate, TypeLog, store, log
<1>4. ASSUME NEW p \in Ids, Look(p) PROVE Goal
  <2>1. current' \subseteq Ids /\ leftover' \in BOOLEAN
    BY <1>4, RecordTyped DEF Look, TypeLog
  <2>2. UNCHANGED <<finished, opened, drift, faults, agg>>
    BY <1>4 DEF Look, store
  <2> QED  BY <2>1, <2>2 DEF TypeLog
<1>5. ASSUME NEW p \in Ids, Launch(p) PROVE Goal
  <2>1. UNCHANGED <<current, leftover, finished, opened, drift, faults, agg>>
    BY <1>5 DEF Launch, log, store
  <2> QED  BY <2>1 DEF TypeLog
<1>6. ASSUME NEW p \in Ids, Close(p) PROVE Goal
  <2>1. current' \subseteq Ids /\ leftover' \in BOOLEAN
    BY <1>6, RecordTyped DEF Close, TypeLog
  <2>2. UNCHANGED <<finished, opened, drift, faults, agg>>
    BY <1>6 DEF Close, store
  <2> QED  BY <2>1, <2>2 DEF TypeLog
<1>7. ASSUME NEW p \in Ids, Finish(p) PROVE Goal
  <2>1. current' \subseteq Ids /\ leftover' \in BOOLEAN
    BY <1>7, RecordTyped DEF Finish
  <2>2. camp[p].lane \in Lanes /\ finished' \in {finished, finished \cup {camp[p].lane}}
    BY <1>7 DEF Finish, TypeCamp
  <2>3. UNCHANGED <<opened, drift, faults, agg>>
    BY <1>7 DEF Finish, store
  <2> QED  BY <2>1, <2>2, <2>3 DEF TypeLog
<1>8. ASSUME NEW p \in Ids, Killed(p) PROVE Goal
  <2>1. leftover' \in {leftover, TRUE} /\ leftover \in BOOLEAN
    BY <1>8 DEF Killed, TypeLog
  <2>2. leftover' \in BOOLEAN
    BY <2>1, Zenon
  <2>3. UNCHANGED <<current, finished, opened, drift, agg>> /\ faults' = faults + 1
    BY <1>8 DEF Killed, Fails, store
  <2> QED  BY <2>2, <2>3 DEF TypeLog
<1>9. ASSUME NEW p \in Ids, Claim(p) PROVE Goal
  BY <1>9 DEF Claim, Outside, log, TypeLog
<1>10. ASSUME NEW p \in Ids, CellRuns(p) PROVE Goal
  BY <1>10 DEF CellRuns, Outside, Works, Fails, log, TypeLog
<1>11. ASSUME NEW p \in Ids, Seal(p) PROVE Goal
  BY <1>11 DEF Seal, Outside, log, TypeLog
<1>12. ASSUME NEW p \in Ids, Open(p) PROVE Goal
  <2>1. job[p].item \in Items
    BY <1>12 DEF Open, TypeJob
  <2>2. job[p].item[2] \in Orders
    BY <2>1, ItemShape
  <2> QED  BY <1>12, <2>2 DEF Open, Outside, log, TypeLog
<1>13. ASSUME NEW p \in Ids, JobDies(p) PROVE Goal
  BY <1>13 DEF JobDies, Outside, Fails, log, TypeLog
<1>14. ASSUME NEW p \in Ids, PublishPair(p) PROVE Goal
  BY <1>14 DEF PublishPair, Works, Gives, GivesUp, Evaluates, Outside, log, TypeLog
<1>15. ASSUME NEW p \in Ids, PublishMechanism(p) PROVE Goal
  BY <1>15 DEF PublishMechanism, Works, Fails, Gives, GivesUp, Evaluates, Outside, log,
     TypeLog
<1>16. ASSUME NEW p \in Ids, PublishReference(p) PROVE Goal
  BY <1>16 DEF PublishReference, Works, Gives, GivesUp, Evaluates, Outside, log, TypeLog
<1>17. ASSUME NEW p \in Ids, PublishBundle(p) PROVE Goal
  BY <1>17 DEF PublishBundle, Works, Gives, GivesUp, Evaluates, Outside, log, TypeLog
<1>18. ASSUME NEW i \in Items, TakeAway(i) PROVE Goal
  BY <1>18 DEF TakeAway, log, TypeLog
<1>19. ASSUME NEW i \in Items, Edit(i) PROVE Goal
  BY <1>19 DEF Edit, log, Fails, TypeLog
<1>20. ASSUME Drift PROVE Goal
  BY <1>20 DEF Drift, store, log, Fails, TypeLog
<1>21. ASSUME AggregateCells PROVE Goal
  BY <1>21 DEF AggregateCells, store, log, TypeLog
<1>22. ASSUME AggregateDerived PROVE Goal
  BY <1>22 DEF AggregateDerived, store, log, TypeLog
<1>23. ASSUME UNCHANGED vars PROVE Goal
  BY <1>23 DEF vars, store, log, TypeLog
<1> HIDE DEF Goal
<1>24. ASSUME NEW p \in Ids,
             \/ \E lane \in {"scored", "capture"} : Start(p, lane)
             \/ StartEvent(p) \/ CaptureGate(p) \/ Look(p) \/ Launch(p) \/ Close(p) \/ Finish(p) \/ Killed(p)
             \/ Claim(p) \/ CellRuns(p) \/ Seal(p) \/ Open(p) \/ JobDies(p)
             \/ PublishPair(p) \/ PublishMechanism(p) \/ PublishReference(p) \/ PublishBundle(p)
      PROVE  Goal
  BY <1>24, <1>1, <1>2, <1>3, <1>4, <1>5, <1>6, <1>7, <1>8, <1>9, <1>10, <1>11, <1>12,
     <1>13, <1>14, <1>15, <1>16, <1>17
<1>25. ASSUME Next PROVE Goal
  BY <1>25, <1>24, <1>18, <1>19, <1>20, <1>21, <1>22 DEF Next
<1> QED  BY <1>23, <1>25 DEF Goal


-----------------------------------------------------------------------------
\* The result directories.

\* A comparison is renamed into place whole; a mechanism file is never edited.
WholeKinds ==
    \A i \in Items : /\ i[1] = "pair" => art[i].st \in {"none", "sealed"}
                     /\ i[1] = "mechanism" => art[i].edited = "no"

\* What may become of a directory: it is filled, sealed with the status it has,
\* taken away by an operator, or by the bundler that fills it.
ArtStep(i, a) ==
    /\ i[1] = "pair" => a.st \in {"none", "sealed"}
    /\ i[1] = "mechanism" => a.edited = "no"
    /\ \/ art[i].st \in {"none", "open"}
       \/ a.st = "sealed" /\ a.status = art[i].status
       \/ a = Nothing /\ removals' # removals
       \/ a = Nothing /\ i[1] = "geometry" /\ \E p \in Ids : job[p].step = "seal" /\ job[p].item = i

ArtGoes == art' = art \/ \E i \in Items : \E a : ArtStep(i, a) /\ art' = [art EXCEPT ![i] = a]

\* Every step changes one result directory, in one of these ways.
LEMMA ArtKinds ==
    ASSUME TypeStore, TypeJob, TypeCamp, WholeKinds, [Next]_vars
    PROVE  ArtGoes
<1> DEFINE Goal == ArtGoes
<1>1. ASSUME NEW p \in Ids, NEW lane \in {"scored", "capture"}, Start(p, lane) PROVE Goal
  BY <1>1 DEF Start, store, ArtGoes
<1>2. ASSUME NEW p \in Ids, StartEvent(p) PROVE Goal
  BY <1>2 DEF StartEvent, store, ArtGoes
<1>3. ASSUME NEW p \in Ids, CaptureGate(p) PROVE Goal
  BY <1>3 DEF CaptureGate, store, log, ArtGoes
<1>4. ASSUME NEW p \in Ids, Look(p) PROVE Goal
  BY <1>4 DEF Look, store, ArtGoes
<1>5. ASSUME NEW p \in Ids, Launch(p) PROVE Goal
  <2> DEFINE i == Item(p)
             a == [Nothing EXCEPT !.st = "open", !.gen = claims[i] + 1]
  <2>1. i \in Items
    BY <1>5, ItemTyped DEF Launch, TypeCamp
  <2>2. art' = art \/ (i[1] = "mechanism" /\ art[i].st = "none" /\ art' = [art EXCEPT ![i] = a])
    BY <1>5 DEF Launch, store
  <2>3. a.edited = "no"
    BY DEF Nothing
  <2> HIDE DEF i, a
  <2> QED  BY <2>1, <2>2, <2>3 DEF ArtGoes, ArtStep
<1>6. ASSUME NEW p \in Ids, Close(p) PROVE Goal
  BY <1>6 DEF Close, store, ArtGoes
<1>7. ASSUME NEW p \in Ids, Finish(p) PROVE Goal
  BY <1>7 DEF Finish, store, ArtGoes
<1>8. ASSUME NEW p \in Ids, Killed(p) PROVE Goal
  BY <1>8 DEF Killed, store, ArtGoes
<1>9. ASSUME NEW p \in Ids, Claim(p) PROVE Goal
  <2> DEFINE i == job[p].item
             a == [Nothing EXCEPT !.st = "open", !.gen = claims[i] + 1]
  <2>1. i \in Items /\ i[1] \in {"scored", "capture"}
    BY <1>9 DEF Claim, TypeJob, IsCell
  <2>2. art' = art \/ (art[i].st = "none" /\ art' = [art EXCEPT ![i] = a])
    BY <1>9 DEF Claim, Creates, Writes
  <2> HIDE DEF i, a
  <2> QED  BY <2>1, <2>2 DEF ArtGoes, ArtStep
<1>10. ASSUME NEW p \in Ids, CellRuns(p) PROVE Goal
  <2> DEFINE i == job[p].item
  <2>1. i \in Items /\ i[1] \in {"scored", "capture"} /\ art[i].st = "open"
    BY <1>10 DEF CellRuns, TypeJob, IsCell
  <2>2. PICK a : art' = [art EXCEPT ![i] = a]
    BY <1>10 DEF CellRuns, Writes
  <2> HIDE DEF i
  <2> QED  BY <2>1, <2>2 DEF ArtGoes, ArtStep
<1>11. ASSUME NEW p \in Ids, Seal(p) PROVE Goal
  <2> DEFINE i == job[p].item
             a == [art[i] EXCEPT !.st = "sealed"]
  <2>1. i \in Items /\ art' = [art EXCEPT ![i] = a]
    BY <1>11 DEF Seal, TypeJob, Writes
  <2>2. a.st = "sealed" /\ a.status = art[i].status /\ a.edited = art[i].edited
    BY <2>1 DEF TypeStore, Artifacts
  <2> HIDE DEF i, a
  <2> QED  BY <2>1, <2>2 DEF ArtGoes, ArtStep, WholeKinds
<1>12. ASSUME NEW p \in Ids, Open(p) PROVE Goal
  BY <1>12 DEF Open, Outside, log, ArtGoes
<1>13. ASSUME NEW p \in Ids, JobDies(p) PROVE Goal
  <2> DEFINE i == job[p].item
  <2>1. i \in Items /\ (art' = art \/ (i[1] = "geometry" /\ job[p].step = "seal" /\ art' = [art EXCEPT ![i] = Nothing]))
    BY <1>13 DEF JobDies, TypeJob, Writes
  <2> QED  BY <2>1 DEF ArtGoes, ArtStep
<1>14. ASSUME NEW p \in Ids, PublishPair(p) PROVE Goal
  <2> DEFINE i == job[p].item
  <2>1. i \in Items /\ i[1] = "pair"
    BY <1>14 DEF PublishPair, Evaluates, TypeJob
  <2>2. \/ art' = art
        \/ art[i].st \in {"none", "open"} /\ \E a : a.st = "sealed" /\ art' = [art EXCEPT ![i] = a]
    BY <1>14 DEF PublishPair, Evaluates, Gives, GivesUp, Writes, Published
  <2> HIDE DEF i
  <2> QED  BY <2>1, <2>2 DEF ArtGoes, ArtStep
<1>15. ASSUME NEW p \in Ids, PublishMechanism(p) PROVE Goal
  <2> DEFINE i == job[p].item
  <2>1. i \in Items /\ i[1] = "mechanism"
    BY <1>15 DEF PublishMechanism, Evaluates, TypeJob
  <2>2. \/ art' = art
        \/ art[i].st \in {"none", "open"} /\ \E a : a.edited = "no" /\ art' = [art EXCEPT ![i] = a]
    BY <1>15 DEF PublishMechanism, Evaluates, Gives, GivesUp, Writes, Published
  <2> HIDE DEF i
  <2> QED  BY <2>1, <2>2 DEF ArtGoes, ArtStep
<1>16. ASSUME NEW p \in Ids, PublishReference(p) PROVE Goal
  <2> DEFINE i == job[p].item
  <2>1. i \in Items /\ i[1] = "tum"
    BY <1>16 DEF PublishReference, Evaluates, TypeJob
  <2>2. \/ art' = art
        \/ art[i].st \in {"none", "open"} /\ \E a : art' = [art EXCEPT ![i] = a]
    BY <1>16 DEF PublishReference, Evaluates, Gives, GivesUp, Writes, Published
  <2> HIDE DEF i
  <2> QED  BY <2>1, <2>2 DEF ArtGoes, ArtStep
<1>17. ASSUME NEW p \in Ids, PublishBundle(p) PROVE Goal
  <2> DEFINE i == job[p].item
  <2>1. i \in Items /\ i[1] = "geometry"
    BY <1>17 DEF PublishBundle, Evaluates, TypeJob
  <2>2. \/ art' = art
        \/ art[i].st \in {"none", "open"} /\ \E a : art' = [art EXCEPT ![i] = a]
    BY <1>17 DEF PublishBundle, Evaluates, Gives, GivesUp, Writes, Published
  <2> HIDE DEF i
  <2> QED  BY <2>1, <2>2 DEF ArtGoes, ArtStep
<1>18. ASSUME NEW i \in Items, TakeAway(i) PROVE Goal
  <2>1. art' = [art EXCEPT ![i] = Nothing] /\ removals' # removals
    BY <1>18 DEF TakeAway, TypeStore
  <2>2. Nothing.st = "none" /\ Nothing.edited = "no"
    BY DEF Nothing
  <2> QED  BY <2>1, <2>2 DEF ArtGoes, ArtStep
<1>19. ASSUME NEW i \in Items, Edit(i) PROVE Goal
  <2>1. i[1] # "mechanism" /\ art[i].st = "sealed"
    BY <1>19 DEF Edit
  <2>2. PICK e \in {"content", "extra"} : art' = [art EXCEPT ![i] = [art[i] EXCEPT !.edited = e]]
    BY <1>19 DEF Edit
  <2> DEFINE a == [art[i] EXCEPT !.edited = e]
  <2>3. a.st = "sealed" /\ a.status = art[i].status
    BY <2>1 DEF TypeStore, Artifacts
  <2>4. art' = [art EXCEPT ![i] = a]
    BY <2>2
  <2> HIDE DEF a
  <2> QED  BY <2>1, <2>3, <2>4 DEF ArtGoes, ArtStep
<1>20. ASSUME Drift PROVE Goal
  BY <1>20 DEF Drift, store, log, ArtGoes
<1>21. ASSUME AggregateCells PROVE Goal
  BY <1>21 DEF AggregateCells, store, log, ArtGoes
<1>22. ASSUME AggregateDerived PROVE Goal
  BY <1>22 DEF AggregateDerived, store, log, ArtGoes
<1>23. ASSUME UNCHANGED vars PROVE Goal
  BY <1>23 DEF vars, store, ArtGoes
<1> HIDE DEF Goal
<1>24. ASSUME NEW p \in Ids,
             \/ \E lane \in {"scored", "capture"} : Start(p, lane)
             \/ StartEvent(p) \/ CaptureGate(p) \/ Look(p) \/ Launch(p) \/ Close(p) \/ Finish(p) \/ Killed(p)
             \/ Claim(p) \/ CellRuns(p) \/ Seal(p) \/ Open(p) \/ JobDies(p)
             \/ PublishPair(p) \/ PublishMechanism(p) \/ PublishReference(p) \/ PublishBundle(p)
      PROVE  Goal
  BY <1>24, <1>1, <1>2, <1>3, <1>4, <1>5, <1>6, <1>7, <1>8, <1>9, <1>10, <1>11, <1>12,
     <1>13, <1>14, <1>15, <1>16, <1>17
<1>25. ASSUME Next PROVE Goal
  BY <1>25, <1>24, <1>18, <1>19, <1>20, <1>21, <1>22 DEF Next
<1> QED  BY <1>23, <1>25 DEF Goal


LEMMA WholeKept ==
    ASSUME TypeStore, WholeKinds, ArtGoes
    PROVE  WholeKinds'
BY DEF WholeKinds, ArtGoes, ArtStep, TypeStore


\* A bundle that is being filled is filled by one bundler only: the one that
\* takes it back when it dies.
SealOwned ==
    \A p \in Ids : job[p].step = "seal" /\ job[p].item[1] = "geometry" =>
        /\ art[job[p].item].st = "unsealed"
        /\ \A q \in Ids \ {p} : job[q].step = "seal" => job[q].item # job[p].item

\* Nobody begins to fill a bundle, and nobody else touches it.
SealFrame ==
    \A q \in Ids : job'[q].step = "seal" /\ job'[q].item[1] = "geometry" =>
        /\ job[q].step = "seal" /\ job'[q].item = job[q].item
        /\ art'[job[q].item].st = art[job[q].item].st

LEMMA FrameOwned ==
    ASSUME SealOwned, SealFrame
    PROVE  SealOwned'
BY DEF SealOwned, SealFrame

\* Every step leaves the bundles to their bundlers.
LEMMA OwnedKept ==
    ASSUME TypeStore, TypeJob, TypeCamp, SealOwned, [Next]_vars
    PROVE  SealOwned'
<1> DEFINE Goal == SealOwned'
<1>1. ASSUME NEW p \in Ids, NEW lane \in {"scored", "capture"}, Start(p, lane) PROVE Goal
  BY <1>1 DEF Start, store, SealOwned
<1>2. ASSUME NEW p \in Ids, StartEvent(p) PROVE Goal
  BY <1>2 DEF StartEvent, store, SealOwned
<1>3. ASSUME NEW p \in Ids, CaptureGate(p) PROVE Goal
  BY <1>3 DEF CaptureGate, store, log, SealOwned
<1>4. ASSUME NEW p \in Ids, Look(p) PROVE Goal
  BY <1>4 DEF Look, store, SealOwned
<1>5. ASSUME NEW p \in Ids, Launch(p) PROVE Goal
  <2>1. Item(p) \in Items
    BY <1>5, ItemTyped DEF Launch, TypeCamp
  <2>2. art' = art \/ (Item(p)[1] = "mechanism" /\ \E a : art' = [art EXCEPT ![Item(p)] = a])
    BY <1>5 DEF Launch, store
  <2>3. job' = job \/ job' = [job EXCEPT ![p] = [NoJob EXCEPT !.item = Item(p), !.step = "begin"]]
    BY <1>5 DEF Launch
  <2>4. \A q \in Ids : job'[q].step = "seal" => job'[q] = job[q]
    BY <2>3 DEF TypeJob, NoJob
  <2>5. \A i \in Items : i[1] = "geometry" => art'[i] = art[i]
    BY <2>1, <2>2 DEF TypeStore
  <2>6. SealFrame
    BY <2>4, <2>5 DEF SealFrame, TypeJob
  <2> QED  BY <2>6, FrameOwned
<1>6. ASSUME NEW p \in Ids, Close(p) PROVE Goal
  <2>1. art' = art /\ job' = [job EXCEPT ![p] = NoJob] /\ NoJob.step = "idle"
    BY <1>6 DEF Close, store, NoJob
  <2>2. SealFrame
    BY <2>1 DEF SealFrame, TypeJob
  <2> QED  BY <2>2, FrameOwned
<1>7. ASSUME NEW p \in Ids, Finish(p) PROVE Goal
  BY <1>7 DEF Finish, store, SealOwned
<1>8. ASSUME NEW p \in Ids, Killed(p) PROVE Goal
  BY <1>8 DEF Killed, store, SealOwned
<1>9. ASSUME NEW p \in Ids, Claim(p) PROVE Goal
  <2> DEFINE i == job[p].item
  <2>1. i \in Items /\ i[1] \in {"scored", "capture"}
    BY <1>9 DEF Claim, TypeJob, IsCell, Evaluates
  <2>2. art' = art \/ \E a : art' = [art EXCEPT ![i] = a]
    BY <1>9 DEF Claim, Evaluates, Creates, Writes, Gives, GivesUp
  <2>3. /\ \A q \in Ids \ {p} : job'[q] = job[q]
        /\ job'[p].item = i
    BY <1>9 DEF Claim, Exits, Gives, GivesUp, TypeJob, Jobs
  <2> HIDE DEF i
  <2>4. SealFrame
    BY <2>1, <2>2, <2>3 DEF SealFrame, TypeJob, TypeStore
  <2> QED  BY <2>4, FrameOwned
<1>10. ASSUME NEW p \in Ids, CellRuns(p) PROVE Goal
  <2> DEFINE i == job[p].item
  <2>1. i \in Items /\ i[1] \in {"scored", "capture"}
    BY <1>10 DEF CellRuns, TypeJob, IsCell, Evaluates
  <2>2. art' = art \/ \E a : art' = [art EXCEPT ![i] = a]
    BY <1>10 DEF CellRuns, Evaluates, Creates, Writes, Gives, GivesUp
  <2>3. /\ \A q \in Ids \ {p} : job'[q] = job[q]
        /\ job'[p].item = i
    BY <1>10 DEF CellRuns, Exits, Gives, GivesUp, TypeJob, Jobs
  <2> HIDE DEF i
  <2>4. SealFrame
    BY <2>1, <2>2, <2>3 DEF SealFrame, TypeJob, TypeStore
  <2> QED  BY <2>4, FrameOwned
<1>11. ASSUME NEW p \in Ids, Seal(p) PROVE Goal
  <2> DEFINE i == job[p].item
  <2>1. i \in Items
    BY <1>11 DEF Seal, TypeJob
  <2>2. art' = art \/ (job[p].step = "seal" /\ \E a : art' = [art EXCEPT ![i] = a])
    BY <1>11 DEF Seal, Writes
  <2>3. job'[p].step # "seal" /\ \A q \in Ids \ {p} : job'[q] = job[q]
    BY <1>11 DEF Seal, Exits, TypeJob, Jobs
  <2>4. ASSUME NEW q \in Ids, job'[q].step = "seal", job'[q].item[1] = "geometry"
        PROVE  /\ job[q].step = "seal" /\ job'[q].item = job[q].item
               /\ art'[job[q].item].st = art[job[q].item].st
    <3>1. q # p /\ job'[q] = job[q] /\ job[q].item \in Items
      BY <2>3, <2>4 DEF TypeJob
    <3>2. job[p].step = "seal" => job[q].item # i
      BY <2>4, <3>1 DEF SealOwned
    <3> HIDE DEF i
    <3> QED  BY <2>1, <2>2, <2>4, <3>1, <3>2 DEF TypeStore
  <2>5. SealFrame
    BY <2>4 DEF SealFrame
  <2> QED  BY <2>5, FrameOwned
<1>12. ASSUME NEW p \in Ids, Open(p) PROVE Goal
  <2>1. art' = art /\ \A q \in Ids \ {p} : job'[q] = job[q]
    BY <1>12 DEF Open, Exits, TypeJob
  <2>2. job'[p].step # "seal"
    BY <1>12 DEF Open, Exits, TypeJob, Jobs
  <2>3. SealFrame
    BY <2>1, <2>2 DEF SealFrame
  <2> QED  BY <2>3, FrameOwned
<1>13. ASSUME NEW p \in Ids, JobDies(p) PROVE Goal
  <2> DEFINE i == job[p].item
  <2>1. i \in Items
    BY <1>13 DEF JobDies, TypeJob
  <2>2. art' = art \/ (job[p].step = "seal" /\ \E a : art' = [art EXCEPT ![i] = a])
    BY <1>13 DEF JobDies, Writes
  <2>3. job'[p].step # "seal" /\ \A q \in Ids \ {p} : job'[q] = job[q]
    BY <1>13 DEF JobDies, Exits, TypeJob, Jobs
  <2>4. ASSUME NEW q \in Ids, job'[q].step = "seal", job'[q].item[1] = "geometry"
        PROVE  /\ job[q].step = "seal" /\ job'[q].item = job[q].item
               /\ art'[job[q].item].st = art[job[q].item].st
    <3>1. q # p /\ job'[q] = job[q] /\ job[q].item \in Items
      BY <2>3, <2>4 DEF TypeJob
    <3>2. job[p].step = "seal" => job[q].item # i
      BY <2>4, <3>1 DEF SealOwned
    <3> HIDE DEF i
    <3> QED  BY <2>1, <2>2, <2>4, <3>1, <3>2 DEF TypeStore
  <2>5. SealFrame
    BY <2>4 DEF SealFrame
  <2> QED  BY <2>5, FrameOwned
<1>14. ASSUME NEW p \in Ids, PublishPair(p) PROVE Goal
  <2> DEFINE i == job[p].item
  <2>1. i \in Items /\ i[1] = "pair"
    BY <1>14 DEF PublishPair, TypeJob, IsCell, Evaluates
  <2>2. art' = art \/ \E a : art' = [art EXCEPT ![i] = a]
    BY <1>14 DEF PublishPair, Evaluates, Creates, Writes, Gives, GivesUp
  <2>3. /\ \A q \in Ids \ {p} : job'[q] = job[q]
        /\ job'[p].item = i
    BY <1>14 DEF PublishPair, Exits, Gives, GivesUp, TypeJob, Jobs
  <2> HIDE DEF i
  <2>4. SealFrame
    BY <2>1, <2>2, <2>3 DEF SealFrame, TypeJob, TypeStore
  <2> QED  BY <2>4, FrameOwned
<1>15. ASSUME NEW p \in Ids, PublishMechanism(p) PROVE Goal
  <2> DEFINE i == job[p].item
  <2>1. i \in Items /\ i[1] = "mechanism"
    BY <1>15 DEF PublishMechanism, TypeJob, IsCell, Evaluates
  <2>2. art' = art \/ \E a : art' = [art EXCEPT ![i] = a]
    BY <1>15 DEF PublishMechanism, Evaluates, Creates, Writes, Gives, GivesUp
  <2>3. /\ \A q \in Ids \ {p} : job'[q] = job[q]
        /\ job'[p].item = i
    BY <1>15 DEF PublishMechanism, Exits, Gives, GivesUp, TypeJob, Jobs
  <2> HIDE DEF i
  <2>4. SealFrame
    BY <2>1, <2>2, <2>3 DEF SealFrame, TypeJob, TypeStore
  <2> QED  BY <2>4, FrameOwned
<1>16. ASSUME NEW p \in Ids, PublishReference(p) PROVE Goal
  <2> DEFINE i == job[p].item
  <2>1. i \in Items /\ i[1] = "tum"
    BY <1>16 DEF PublishReference, TypeJob, IsCell, Evaluates
  <2>2. art' = art \/ \E a : art' = [art EXCEPT ![i] = a]
    BY <1>16 DEF PublishReference, Evaluates, Creates, Writes, Gives, GivesUp
  <2>3. /\ \A q \in Ids \ {p} : job'[q] = job[q]
        /\ job'[p].item = i
    BY <1>16 DEF PublishReference, Exits, Gives, GivesUp, TypeJob, Jobs
  <2> HIDE DEF i
  <2>4. SealFrame
    BY <2>1, <2>2, <2>3 DEF SealFrame, TypeJob, TypeStore
  <2> QED  BY <2>4, FrameOwned
<1>17. ASSUME NEW p \in Ids, PublishBundle(p) PROVE Goal
  <2> DEFINE i == job[p].item
  <2>1. i \in Items /\ i[1] = "geometry" /\ \A q \in Ids \ {p} : job'[q] = job[q]
    BY <1>17 DEF PublishBundle, Evaluates, TypeJob, Gives, GivesUp, Exits
  <2>2. CASE GivesUp(p)
    <3>1. art' = art /\ job'[p].step # "seal"
      BY <2>2 DEF GivesUp, Exits, TypeJob, Jobs
    <3>2. SealFrame
      BY <2>1, <3>1 DEF SealFrame
    <3> QED  BY <3>2, FrameOwned
  <2>3. CASE ~GivesUp(p)
    <3>1. /\ art[i].st = "none" /\ art' = [art EXCEPT ![i] = Published(p, "unsealed")]
          /\ job'[p].item = i
      BY <1>17, <2>3 DEF PublishBundle, Gives, Writes, TypeJob, Jobs
    <3>2. Published(p, "unsealed").st = "unsealed"
      BY DEF Published
    <3>3. art'[i].st = "unsealed" /\ \A k \in Items \ {i} : art'[k] = art[k]
      BY <2>1, <3>1, <3>2 DEF TypeStore
    <3>4. \A q \in Ids \ {p} : job[q].step = "seal" => job[q].item # i
      BY <2>1, <3>1 DEF SealOwned
    <3>5. \A q \in Ids : job[q].step = "seal" => job[q].item \in Items
      BY DEF TypeJob
    <3> HIDE DEF i
    <3> QED  BY <2>1, <3>1, <3>3, <3>4, <3>5 DEF SealOwned
  <2> QED  BY <2>2, <2>3
<1>18. ASSUME NEW i \in Items, TakeAway(i) PROVE Goal
  <2>1. job' = job /\ art' = [art EXCEPT ![i] = Nothing] /\ ~InUse(i)
    BY <1>18 DEF TakeAway
  <2>2. \A q \in Ids : job[q].step = "seal" => job[q].item # i /\ job[q].item \in Items
    BY <2>1 DEF InUse, TypeJob
  <2>3. SealFrame
    BY <2>1, <2>2 DEF SealFrame, TypeStore
  <2> QED  BY <2>3, FrameOwned
<1>19. ASSUME NEW i \in Items, Edit(i) PROVE Goal
  <2>1. PICK e : art' = [art EXCEPT ![i] = [art[i] EXCEPT !.edited = e]]
    BY <1>19 DEF Edit
  <2>2. job' = job /\ \A k \in Items : art'[k].st = art[k].st
    BY <1>19, <2>1 DEF Edit, TypeStore, Artifacts
  <2>3. SealFrame
    BY <2>2 DEF SealFrame, TypeJob
  <2> QED  BY <2>3, FrameOwned
<1>20. ASSUME Drift PROVE Goal
  BY <1>20 DEF Drift, store, log, SealOwned
<1>21. ASSUME AggregateCells PROVE Goal
  BY <1>21 DEF AggregateCells, store, log, SealOwned
<1>22. ASSUME AggregateDerived PROVE Goal
  BY <1>22 DEF AggregateDerived, store, log, SealOwned
<1>23. ASSUME UNCHANGED vars PROVE Goal
  BY <1>23 DEF vars, store, SealOwned
<1> HIDE DEF Goal
<1>24. ASSUME NEW p \in Ids,
             \/ \E lane \in {"scored", "capture"} : Start(p, lane)
             \/ StartEvent(p) \/ CaptureGate(p) \/ Look(p) \/ Launch(p) \/ Close(p) \/ Finish(p) \/ Killed(p)
             \/ Claim(p) \/ CellRuns(p) \/ Seal(p) \/ Open(p) \/ JobDies(p)
             \/ PublishPair(p) \/ PublishMechanism(p) \/ PublishReference(p) \/ PublishBundle(p)
      PROVE  Goal
  BY <1>24, <1>1, <1>2, <1>3, <1>4, <1>5, <1>6, <1>7, <1>8, <1>9, <1>10, <1>11, <1>12,
     <1>13, <1>14, <1>15, <1>16, <1>17
<1>25. ASSUME Next PROVE Goal
  BY <1>25, <1>24, <1>18, <1>19, <1>20, <1>21, <1>22 DEF Next
<1> QED  BY <1>23, <1>25 DEF Goal


\* A sealed result stays sealed, with its status, until an operator takes it away.
SealedStays ==
    \A i \in Items : art[i].st = "sealed" => art'[i].st = "sealed" /\ art'[i].status = art[i].status

LEMMA SealedIsKept ==
    ASSUME TypeStore, SealOwned, ArtGoes, removals' = removals
    PROVE  SealedStays
<1>1. ASSUME NEW i \in Items, NEW a, ArtStep(i, a), art' = [art EXCEPT ![i] = a], art[i].st = "sealed"
      PROVE  a.st = "sealed" /\ a.status = art[i].status
  BY <1>1 DEF ArtStep, SealOwned
<1> QED  BY <1>1 DEF ArtGoes, SealedStays, TypeStore


-----------------------------------------------------------------------------
\* The boundary between the lanes.

AllScored(a) == \A i \in Cells("scored") : a[i].st = "sealed"
RowScored(a, r) == \A s \in Systems : a[<<"scored", r, s>>].st = "sealed"

\* An item of the plan is closed for good: there, whole and no fatal cell, or a
\* pair with a cell that is closed and not eligible.
Closed(a, i) ==
    \/ a[i].st = "sealed" /\ (IsCell(i) => a[i].status # "fatal")
    \/ i[1] = "pair" /\ \E s \in Sources[i] : a[s].st = "sealed" /\ a[s].status # "eligible"

RowClosed(a, lane, r) == \A k \in 1 .. Len(RowPlan(lane, r)) : Closed(a, RowPlan(lane, r)[k])

\* A campaign at work has closed everything before its step, and knows which
\* cells of its row are eligible; in the capture lane, everything scored is closed.
Progress(a, c) ==
    c.pc \in {"look", "launch", "wait"} =>
      /\ c.lane = "capture" => AllScored(a)
      /\ \A r \in Orders : r < c.row => RowClosed(a, c.lane, r)
      /\ c.row \in Orders =>
           /\ \A k \in 1 .. c.step - 1 : Closed(a, RowPlan(c.lane, c.row)[k])
           /\ \A k \in 1 .. 2 :
                LET s == SystemOrder(c.row)[k] IN
                k < c.step /\ a[<<c.lane, c.row, s>>].status = "eligible" => s \in c.got

\* What a launched program waits for.
Waited(a, i) ==
    /\ i[1] \in {"pair", "mechanism", "tum"} => RowScored(a, i[2])
    /\ i[1] \in {"capture", "geometry"} => AllScored(a)

Running(j) == j.step \in {"begin", "run", "evaluate", "seal"}

\* The inductive invariant behind BoundaryHolds and FinishedIsComplete.
BoundaryInv ==
    removals = 0 =>
      /\ \A p \in Ids : Progress(art, camp[p])
      /\ \A p \in Ids : Running(job[p]) => Waited(art, job[p].item)
      /\ \A r \in opened : RowScored(art, r)
      /\ (\E i \in Cells("capture") : claims[i] > 0) => AllScored(art)
      /\ \A lane \in finished : \A r \in Orders : RowClosed(art, lane, r)

\* Everything sealed in a is sealed in b, with the same status.
Keeps(a, b) == \A i \in Items : a[i].st = "sealed" => b[i].st = "sealed" /\ b[i].status = a[i].status

LEMMA ScoredKept ==
    ASSUME NEW a, NEW b, Keeps(a, b)
    PROVE  /\ AllScored(a) => AllScored(b)
           /\ \A r \in Orders : RowScored(a, r) => RowScored(b, r)
           /\ AllScored(a) => \A r \in Orders : RowScored(a, r)
<1>1. AllScored(a) => AllScored(b)
  BY DEF AllScored, Keeps, Items
<1>2. \A r \in Orders : RowScored(a, r) => RowScored(b, r)
  BY CellIsItem DEF RowScored, Keeps
<1>3. AllScored(a) => \A r \in Orders : RowScored(a, r)
  BY DEF AllScored, RowScored, Cells
<1> QED  BY <1>1, <1>2, <1>3

LEMMA ClosedKept ==
    ASSUME NEW a, NEW b, Keeps(a, b), NEW i \in Items, Closed(a, i)
    PROVE  Closed(b, i)
BY SourcesAreItems DEF Closed, Keeps

LEMMA RowKept ==
    ASSUME NEW a, NEW b, Keeps(a, b), NEW lane \in Lanes, NEW r \in Orders, RowClosed(a, lane, r)
    PROVE  RowClosed(b, lane, r)
<1>1. \A k \in 1 .. Len(RowPlan(lane, r)) : RowPlan(lane, r)[k] \in Items
  BY RowPlanShape, ElementOfSeq
<1> QED  BY <1>1, ClosedKept DEF RowClosed

\* What a campaign has behind it stays behind it.
LEMMA ProgressKept ==
    ASSUME NEW a, NEW b, Keeps(a, b), NEW c \in Camps, Placed(c), Progress(a, c)
    PROVE  Progress(b, c)
<1> SUFFICES ASSUME c.pc \in {"look", "launch", "wait"}
             PROVE  /\ c.lane = "capture" => AllScored(b)
                    /\ \A r \in Orders : r < c.row => RowClosed(b, c.lane, r)
                    /\ c.row \in Orders =>
                         /\ \A k \in 1 .. c.step - 1 : Closed(b, RowPlan(c.lane, c.row)[k])
                         /\ \A k \in 1 .. 2 :
                              LET s == SystemOrder(c.row)[k] IN
                              k < c.step /\ b[<<c.lane, c.row, s>>].status = "eligible" => s \in c.got
  BY DEF Progress
<1>1. c.lane \in Lanes /\ c.step \in Nat
  BY DEF Camps
<1>2. c.lane = "capture" => AllScored(b)
  BY ScoredKept DEF Progress
<1>3. \A r \in Orders : r < c.row => RowClosed(b, c.lane, r)
  BY <1>1, RowKept DEF Progress
<1>4. ASSUME c.row \in Orders, NEW k \in 1 .. c.step - 1
      PROVE  /\ Closed(b, RowPlan(c.lane, c.row)[k]) /\ Closed(a, RowPlan(c.lane, c.row)[k])
             /\ RowPlan(c.lane, c.row)[k] \in Items
  <2>1. k \in 1 .. Len(RowPlan(c.lane, c.row))
    BY <1>1, <1>4, RowPlanShape, LenProperties DEF Placed
  <2>2. RowPlan(c.lane, c.row)[k] \in Items
    BY <1>1, <1>4, <2>1, RowPlanShape, ElementOfSeq
  <2>3. Closed(a, RowPlan(c.lane, c.row)[k])
    BY <1>4 DEF Progress
  <2> QED  BY <2>2, <2>3, ClosedKept
<1>5. ASSUME c.row \in Orders, NEW k \in 1 .. 2, k < c.step,
             b[<<c.lane, c.row, SystemOrder(c.row)[k]>>].status = "eligible"
      PROVE  SystemOrder(c.row)[k] \in c.got
  <2> DEFINE i == <<c.lane, c.row, SystemOrder(c.row)[k]>>
  <2>1. i = RowPlan(c.lane, c.row)[k]
    BY <1>1, <1>5, RowPlanShape
  <2>2. Closed(a, i) /\ i \in Items
    <3>1. k \in 1 .. c.step - 1
      BY <1>1, <1>5
    <3> HIDE DEF i
    <3> QED  BY <1>4, <1>5, <2>1, <3>1
  <2>3. i[1] # "pair"
    BY <1>1 DEF Lanes
  <2>4. a[i].st = "sealed"
    BY <2>2, <2>3 DEF Closed
  <2>5. a[i].status = "eligible"
    BY <1>5, <2>2, <2>4 DEF Keeps
  <2> QED  BY <1>5, <2>5 DEF Progress
<1> QED  BY <1>2, <1>3, <1>4, <1>5

\* The two cells before the third step are sealed, so the row is scored.
LEMMA RowIsScored ==
    ASSUME NEW a, NEW c \in Camps, Progress(a, c), c.pc \in {"look", "launch", "wait"},
           c.row \in Orders, c.lane = "scored", c.step >= 3
    PROVE  RowScored(a, c.row)
<1>1. ASSUME NEW s \in Systems PROVE a[<<"scored", c.row, s>>].st = "sealed"
  <2>1. PICK k \in 1 .. 2 : s = SystemOrder(c.row)[k]
    BY OrderOfSystems
  <2>2. RowPlan("scored", c.row)[k] = <<"scored", c.row, s>>
    BY <2>1, RowPlanShape DEF Lanes
  <2>3. k \in 1 .. c.step - 1
    BY DEF Camps
  <2>4. Closed(a, <<"scored", c.row, s>>)
    BY <2>2, <2>3 DEF Progress
  <2> QED  BY <2>4 DEF Closed
<1> QED  BY <1>1 DEF RowScored

\* The item a campaign is at: a cell of its lane, or what follows the cells.
LEMMA ItemKind ==
    ASSUME TypeCamp, NEW p \in Ids, camp[p].row \in Orders
    PROVE  LET c == camp[p] IN
           /\ c.step \in 1 .. 2 => Item(p) = <<c.lane, c.row, SystemOrder(c.row)[c.step]>> /\ Item(p)[1] = c.lane
           /\ c.step \notin 1 .. 2 =>
                /\ c.step >= 3 /\ Item(p)[2] = c.row
                /\ c.lane = "scored" => Item(p)[1] \in {"pair", "mechanism", "tum"}
                /\ c.lane = "capture" => Item(p)[1] = "geometry"
<1> DEFINE lane == camp[p].lane
           row == camp[p].row
           step == camp[p].step
           plan == RowPlan(lane, row)
<1>1. lane \in Lanes /\ row \in Orders /\ step \in 1 .. Len(plan)
  BY DEF TypeCamp
<1>2. /\ Len(plan) \in Nat /\ \A k \in 1 .. 2 : plan[k] = <<lane, row, SystemOrder(row)[k]>>
      /\ \A k \in 3 .. Len(plan) :
           /\ plan[k][2] = row
           /\ lane = "scored" => plan[k][1] \in {"pair", "mechanism", "tum"}
           /\ lane = "capture" => plan[k][1] = "geometry"
  BY <1>1, RowPlanShape, LenProperties
<1>3. Item(p) = plan[step]
  BY DEF Item
<1> HIDE DEF plan, lane, row, step
<1>4. step \notin 1 .. 2 => step \in 3 .. Len(plan) /\ step >= 3
  BY <1>1, <1>2
<1>5. step \in 1 .. 2 => Item(p) = <<lane, row, SystemOrder(row)[step]>>
  BY <1>2, <1>3
<1>6. step \notin 1 .. 2 =>
        /\ step >= 3 /\ Item(p)[2] = row
        /\ lane = "scored" => Item(p)[1] \in {"pair", "mechanism", "tum"}
        /\ lane = "capture" => Item(p)[1] = "geometry"
  BY <1>2, <1>3, <1>4
<1> QED  BY <1>5, <1>6 DEF lane, row, step

\* What lets a campaign go on is closed for good.
LEMMA SettledIsClosed ==
    ASSUME TypeCamp, NEW p \in Ids, camp[p].pc \in {"look", "wait"}, camp[p].row \in Orders,
           Settled(p), Progress(art, camp[p])
    PROVE  Closed(art, Item(p))
<1> DEFINE c == camp[p]
<1>1. c \in Camps /\ Placed(c)
  BY DEF TypeCamp, Camps, Placed
<1>2. c.lane \in Lanes /\ c.step \in 1 .. Len(RowPlan(c.lane, c.row)) /\ c.got \subseteq Systems
  BY <1>1 DEF Camps, Placed
<1>3. CASE Skipped(p)
  <2>1. Item(p)[1] = "pair" /\ c.got # Systems /\ Item(p) \in Items
    BY <1>3, ItemTyped DEF Skipped
  <2>2. c.step \notin 1 .. 2
    BY <1>2, <2>1, ItemKind DEF Lanes
  <2>3. c.step >= 3 /\ c.lane = "scored" /\ Item(p)[2] = c.row
    BY <1>2, <2>1, <2>2, ItemKind DEF Lanes
  <2>4. PICK s \in Systems : s \notin c.got
    BY <1>2, <2>1
  <2>5. PICK k \in 1 .. 2 : s = SystemOrder(c.row)[k]
    BY OrderOfSystems
  <2>6. art[<<"scored", c.row, s>>].status # "eligible"
    <3>1. k < c.step
      BY <1>2, <2>3
    <3> QED  BY <2>3, <2>4, <2>5, <3>1 DEF Progress
  <2>7. art[<<"scored", c.row, s>>].st = "sealed"
    BY <1>1, <2>3, RowIsScored DEF RowScored
  <2>8. <<"scored", c.row, s>> \in Sources[Item(p)]
    BY <2>1, <2>3, SourcesAreItems
  <2> QED  BY <2>1, <2>6, <2>7, <2>8 DEF Closed
<1>4. CASE ~Skipped(p)
  BY <1>4 DEF Settled, Closed
<1> QED  BY <1>3, <1>4

LEMMA AdvanceProgress ==
    ASSUME TypeCamp, NEW p \in Ids, camp[p].pc \in {"look", "wait"}, camp[p].row \in Orders,
           Settled(p), NEW got, Counts(p, got), Progress(art, camp[p])
    PROVE  Progress(art, Advance(p, got))
<1> DEFINE c == camp[p]
           d == Advance(p, got)
           more == c.step < Len(RowPlan(c.lane, c.row))
<1>1. c \in Camps /\ Placed(c)
  BY DEF TypeCamp, Camps, Placed
<1>2. /\ c.lane \in Lanes /\ c.row \in Nat /\ c.step \in 1 .. Len(RowPlan(c.lane, c.row))
      /\ c.got \subseteq Systems /\ c.step \in Nat /\ Len(RowPlan(c.lane, c.row)) \in Nat
  BY <1>1, RowPlanShape, LenProperties DEF Camps, Placed, Orders
<1>3. Closed(art, Item(p)) /\ Item(p) = RowPlan(c.lane, c.row)[c.step] /\ Item(p) \in Items
  BY SettledIsClosed, ItemTyped DEF Item
<1>4. got \subseteq Systems /\ c.got \subseteq got
  BY <1>2, <1>3, ItemShape DEF Counts, IsCell
<1>5. d = [pc |-> "look", lane |-> c.lane, row |-> IF more THEN c.row ELSE c.row + 1,
           step |-> IF more THEN c.step + 1 ELSE 1, got |-> IF more THEN got ELSE {}]
  BY <1>4, AdvanceTyped
<1>6. \A k \in 1 .. c.step : Closed(art, RowPlan(c.lane, c.row)[k])
  BY <1>2, <1>3 DEF Progress
<1>7. \A r \in Orders : r < c.row => RowClosed(art, c.lane, r)
  BY DEF Progress
<1>8. c.lane = "capture" => AllScored(art)
  BY DEF Progress
<1>9. ASSUME more PROVE Progress(art, d)
  <2>1. d.lane = c.lane /\ d.row = c.row /\ d.step = c.step + 1 /\ d.got = got
    BY <1>5, <1>9
  <2>2. ASSUME NEW k \in 1 .. 2, k < c.step + 1,
               art[<<c.lane, c.row, SystemOrder(c.row)[k]>>].status = "eligible"
        PROVE  SystemOrder(c.row)[k] \in got
    <3>1. CASE k < c.step
      BY <1>4, <2>2, <3>1 DEF Progress
    <3>2. CASE k = c.step
      <4>1. Item(p) = <<c.lane, c.row, SystemOrder(c.row)[k]>>
        BY <3>2, ItemKind
      <4>2. Item(p)[1] \in {"scored", "capture"} /\ Item(p)[3] = SystemOrder(c.row)[k]
        BY <1>2, <4>1 DEF Lanes
      <4>3. ~Skipped(p) /\ IsCell(Item(p))
        BY <4>2 DEF Skipped, IsCell
      <4>4. art[Item(p)].status = "eligible"
        BY <2>2, <4>1
      <4> QED  BY <4>2, <4>3, <4>4 DEF Counts
    <3> QED  BY <1>2, <2>2, <3>1, <3>2
  <2> HIDE DEF d
  <2>3. \A k \in 1 .. d.step - 1 : Closed(art, RowPlan(d.lane, d.row)[k])
    BY <1>2, <1>6, <2>1
  <2> QED  BY <1>7, <1>8, <2>1, <2>2, <2>3 DEF Progress
<1>10. ASSUME ~more PROVE Progress(art, d)
  <2>1. d.lane = c.lane /\ d.row = c.row + 1 /\ d.step = 1
    BY <1>5, <1>10
  <2>2. c.step = Len(RowPlan(c.lane, c.row))
    BY <1>2, <1>10
  <2>3. RowClosed(art, c.lane, c.row)
    BY <1>6, <2>2 DEF RowClosed
  <2>4. \A r \in Orders : r < c.row + 1 => r < c.row \/ r = c.row
    BY <1>2 DEF Orders
  <2> HIDE DEF d
  <2>5. \A k \in 1 .. d.step - 1 : FALSE
    BY <2>1
  <2>6. \A k \in 1 .. 2 : ~(k < d.step)
    BY <2>1
  <2> QED  BY <1>7, <1>8, <2>1, <2>3, <2>4, <2>5, <2>6 DEF Progress
<1> QED  BY <1>9, <1>10


LEMMA CampProgress ==
    ASSUME TypeCamp, NEW p \in Ids, NEW d, CampStep(p, d), Progress(art, camp[p])
    PROVE  Progress(art, d)
<1> DEFINE c == camp[p]
<1>1. c \in Camps /\ Placed(c)
  BY DEF TypeCamp, Camps, Placed
<1>2. ASSUME d \in {Over("stopped"), Over("done")} PROVE Progress(art, d)
  BY <1>2 DEF Over, Progress
<1>3. ASSUME NEW lane, d = [c EXCEPT !.pc = "start", !.lane = lane] PROVE Progress(art, d)
  <2>1. d.pc = "start"
    BY <1>1, <1>3 DEF Camps
  <2> QED  BY <2>1 DEF Progress
<1>4. ASSUME c.pc \in {"start", "gate"}, NEW pc \in {"gate", "look"}, d = [c EXCEPT !.pc = pc],
             pc = "look" => c.lane # "capture" \/ AllScored(art)
      PROVE  Progress(art, d)
  <2>1. d.pc = pc /\ d.lane = c.lane /\ d.row = 1 /\ d.step = 1
    BY <1>1, <1>4 DEF Camps, Placed
  <2>2. /\ \A r \in Orders : ~(r < d.row)
        /\ \A k \in 1 .. d.step - 1 : FALSE
        /\ \A k \in 1 .. 2 : ~(k < d.step)
    BY <2>1 DEF Orders
  <2> QED  BY <1>4, <2>1, <2>2 DEF Progress
<1>5. ASSUME c.pc \in {"look", "launch"}, NEW pc \in {"launch", "wait"}, d = [c EXCEPT !.pc = pc]
      PROVE  Progress(art, d)
  <2>1. d.lane = c.lane /\ d.row = c.row /\ d.step = c.step /\ d.got = c.got
    BY <1>1, <1>5 DEF Camps
  <2> QED  BY <1>5, <2>1 DEF Progress
<1>6. ASSUME c.pc \in {"look", "wait"}, c.row \in Orders, Settled(p), NEW got, Counts(p, got), d = Advance(p, got)
      PROVE  Progress(art, d)
  BY <1>6, AdvanceProgress
<1>7. AllScored(art) <=> \A i \in Cells("scored") : art[i].st = "sealed"
  BY DEF AllScored
<1>8. c.pc = "start" /\ d = [c EXCEPT !.pc = IF c.lane = "capture" THEN "gate" ELSE "look"] => Progress(art, d)
  <2>1. CASE c.lane = "capture"
    BY <1>4, <2>1
  <2>2. CASE c.lane # "capture"
    BY <1>4, <2>2
  <2> QED  BY <2>1, <2>2
<1> QED  BY <1>2, <1>3, <1>4, <1>5, <1>6, <1>7, <1>8 DEF CampStep

\* What a campaign launches may be launched.
LEMMA LaunchWaited ==
    ASSUME TypeCamp, NEW p \in Ids, camp[p].pc = "launch", Progress(art, camp[p])
    PROVE  Waited(art, Item(p))
<1> DEFINE c == camp[p]
<1>1. c \in Camps /\ Placed(c)
  BY DEF TypeCamp, Camps, Placed
<1>2. c.lane \in Lanes /\ c.row \in Orders /\ c.step \in 1 .. Len(RowPlan(c.lane, c.row))
  BY <1>1 DEF Camps, Placed
<1>4. c.lane = "capture" => AllScored(art)
  BY DEF Progress
<1>5. CASE c.step \in 1 .. 2
  <2>1. Item(p)[1] = c.lane
    BY <1>2, <1>5, ItemKind
  <2> QED  BY <1>2, <1>4, <2>1 DEF Waited, Lanes
<1>6. CASE c.step \notin 1 .. 2
  <2>2. /\ c.step >= 3 /\ Item(p)[2] = c.row
        /\ c.lane = "scored" => Item(p)[1] \in {"pair", "mechanism", "tum"}
        /\ c.lane = "capture" => Item(p)[1] = "geometry"
    BY <1>2, <1>6, ItemKind
  <2>3. c.lane = "scored" => RowScored(art, c.row)
    BY <1>1, <1>2, <2>2, RowIsScored
  <2> QED  BY <1>2, <1>4, <2>2, <2>3 DEF Waited, Lanes
<1> QED  BY <1>5, <1>6

\* What the rest of a step may be: a reference is opened by a tool that begins, a
\* capture is created by its runner, a lane is finished behind its last row.
RestGoes ==
    /\ removals' = removals \/ removals' = removals + 1
    /\ opened' = opened \/ \E p \in Ids : /\ job[p].step = "begin" /\ ~IsCell(job[p].item)
                                          /\ opened' = opened \cup {job[p].item[2]}
    /\ \A i \in Cells("capture") :
         claims'[i] = claims[i] \/ \E p \in Ids : job[p].step = "begin" /\ job[p].item = i
    /\ finished' = finished \/ \E p \in Ids : /\ camp[p].pc = "look" /\ camp[p].row \notin Orders
                                              /\ finished' = finished \cup {camp[p].lane}

\* Every step is one of these.
LEMMA RestKinds ==
    ASSUME TypeStore, [Next]_vars
    PROVE  RestGoes
<1> DEFINE Goal == RestGoes
<1>1. ASSUME NEW p \in Ids, NEW lane \in {"scored", "capture"}, Start(p, lane) PROVE Goal
  BY <1>1 DEF Start, store, RestGoes
<1>2. ASSUME NEW p \in Ids, StartEvent(p) PROVE Goal
  <2>1. UNCHANGED <<removals, opened, claims, finished>>
    BY <1>2 DEF StartEvent, store, log
  <2> QED  BY <2>1 DEF RestGoes
<1>3. ASSUME NEW p \in Ids, CaptureGate(p) PROVE Goal
  <2>1. UNCHANGED <<removals, opened, claims, finished>>
    BY <1>3 DEF CaptureGate, store, log
  <2> QED  BY <2>1 DEF RestGoes
<1>4. ASSUME NEW p \in Ids, Look(p) PROVE Goal
  <2>1. UNCHANGED <<removals, opened, claims, finished>>
    BY <1>4 DEF Look, store, log
  <2> QED  BY <2>1 DEF RestGoes
<1>5. ASSUME NEW p \in Ids, Launch(p) PROVE Goal
  <2>1. UNCHANGED <<removals, opened, finished>>
    BY <1>5 DEF Launch, store, log
  <2>2. claims' = claims \/ (Item(p)[1] = "mechanism" /\ claims' = [claims EXCEPT ![Item(p)] = @ + 1])
    BY <1>5 DEF Launch, store
  <2>3. \A i \in Cells("capture") : i \in Items /\ i[1] = "capture"
    BY DEF Items, Cells
  <2>4. \A i \in Cells("capture") : claims'[i] = claims[i]
    BY <2>2, <2>3 DEF TypeStore
  <2> QED  BY <2>1, <2>4 DEF RestGoes
<1>6. ASSUME NEW p \in Ids, Close(p) PROVE Goal
  <2>1. UNCHANGED <<removals, opened, claims, finished>>
    BY <1>6 DEF Close, store, log
  <2> QED  BY <2>1 DEF RestGoes
<1>7. ASSUME NEW p \in Ids, Finish(p) PROVE Goal
  <2>1. UNCHANGED <<removals, opened, claims>>
    BY <1>7 DEF Finish, store
  <2>2. /\ camp[p].pc = "look" /\ camp[p].row \notin Orders
        /\ finished' = finished \/ finished' = finished \cup {camp[p].lane}
    BY <1>7 DEF Finish
  <2> QED  BY <2>1, <2>2 DEF RestGoes
<1>8. ASSUME NEW p \in Ids, Killed(p) PROVE Goal
  <2>1. UNCHANGED <<removals, opened, claims, finished>>
    BY <1>8 DEF Killed, store, log
  <2> QED  BY <2>1 DEF RestGoes
<1>9. ASSUME NEW p \in Ids, Claim(p) PROVE Goal
  <2>1. UNCHANGED <<removals, opened, finished>> /\ job[p].step = "begin"
    BY <1>9 DEF Claim, Outside, log
  <2>2. claims' = claims \/ claims' = [claims EXCEPT ![job[p].item] = @ + 1]
    BY <1>9 DEF Claim, Creates
  <2>3. \A i \in Cells("capture") : i \in Items
    BY DEF Items
  <2>4. \A i \in Cells("capture") : claims'[i] = claims[i] \/ job[p].item = i
    BY <2>2, <2>3 DEF TypeStore
  <2> QED  BY <2>1, <2>4 DEF RestGoes
<1>10. ASSUME NEW p \in Ids, CellRuns(p) PROVE Goal
  BY <1>10 DEF CellRuns, Outside, log, RestGoes
<1>11. ASSUME NEW p \in Ids, Seal(p) PROVE Goal
  BY <1>11 DEF Seal, Outside, log, RestGoes
<1>12. ASSUME NEW p \in Ids, Open(p) PROVE Goal
  <2>1. UNCHANGED <<removals, claims, finished>> /\ job[p].step = "begin" /\ ~IsCell(job[p].item)
    BY <1>12 DEF Open, Outside, log
  <2>2. opened' = opened \/ opened' = opened \cup {job[p].item[2]}
    BY <1>12 DEF Open
  <2> QED  BY <2>1, <2>2 DEF RestGoes
<1>13. ASSUME NEW p \in Ids, JobDies(p) PROVE Goal
  BY <1>13 DEF JobDies, Outside, log, RestGoes
<1>14. ASSUME NEW p \in Ids, PublishPair(p) PROVE Goal
  <2>1. UNCHANGED <<removals, opened, finished>> /\ job[p].item[1] = "pair"
    BY <1>14 DEF PublishPair, Evaluates, Outside, log
  <2>2. claims' = claims \/ claims' = [claims EXCEPT ![job[p].item] = @ + 1]
    BY <1>14 DEF PublishPair, Gives, GivesUp
  <2>3. \A i \in Cells("capture") : i \in Items /\ i[1] = "capture"
    BY DEF Items, Cells
  <2>4. \A i \in Cells("capture") : claims'[i] = claims[i]
    BY <2>1, <2>2, <2>3 DEF TypeStore
  <2> QED  BY <2>1, <2>4 DEF RestGoes
<1>15. ASSUME NEW p \in Ids, PublishMechanism(p) PROVE Goal
  <2>1. UNCHANGED <<removals, opened, finished>> /\ job[p].item[1] = "mechanism"
    BY <1>15 DEF PublishMechanism, Evaluates, Outside, log
  <2>2. claims' = claims \/ claims' = [claims EXCEPT ![job[p].item] = @ + 1]
    BY <1>15 DEF PublishMechanism, Gives, GivesUp
  <2>3. \A i \in Cells("capture") : i \in Items /\ i[1] = "capture"
    BY DEF Items, Cells
  <2>4. \A i \in Cells("capture") : claims'[i] = claims[i]
    BY <2>1, <2>2, <2>3 DEF TypeStore
  <2> QED  BY <2>1, <2>4 DEF RestGoes
<1>16. ASSUME NEW p \in Ids, PublishReference(p) PROVE Goal
  <2>1. UNCHANGED <<removals, opened, finished>> /\ job[p].item[1] = "tum"
    BY <1>16 DEF PublishReference, Evaluates, Outside, log
  <2>2. claims' = claims \/ claims' = [claims EXCEPT ![job[p].item] = @ + 1]
    BY <1>16 DEF PublishReference, Gives, GivesUp
  <2>3. \A i \in Cells("capture") : i \in Items /\ i[1] = "capture"
    BY DEF Items, Cells
  <2>4. \A i \in Cells("capture") : claims'[i] = claims[i]
    BY <2>1, <2>2, <2>3 DEF TypeStore
  <2> QED  BY <2>1, <2>4 DEF RestGoes
<1>17. ASSUME NEW p \in Ids, PublishBundle(p) PROVE Goal
  <2>1. UNCHANGED <<removals, opened, finished>> /\ job[p].item[1] = "geometry"
    BY <1>17 DEF PublishBundle, Evaluates, Outside, log
  <2>2. claims' = claims \/ claims' = [claims EXCEPT ![job[p].item] = @ + 1]
    BY <1>17 DEF PublishBundle, Gives, GivesUp
  <2>3. \A i \in Cells("capture") : i \in Items /\ i[1] = "capture"
    BY DEF Items, Cells
  <2>4. \A i \in Cells("capture") : claims'[i] = claims[i]
    BY <2>1, <2>2, <2>3 DEF TypeStore
  <2> QED  BY <2>1, <2>4 DEF RestGoes
<1>18. ASSUME NEW i \in Items, TakeAway(i) PROVE Goal
  BY <1>18 DEF TakeAway, log, RestGoes
<1>19. ASSUME NEW i \in Items, Edit(i) PROVE Goal
  BY <1>19 DEF Edit, log, RestGoes
<1>20. ASSUME Drift PROVE Goal
  BY <1>20 DEF Drift, store, log, RestGoes
<1>21. ASSUME AggregateCells PROVE Goal
  BY <1>21 DEF AggregateCells, store, log, RestGoes
<1>22. ASSUME AggregateDerived PROVE Goal
  BY <1>22 DEF AggregateDerived, store, log, RestGoes
<1>23. ASSUME UNCHANGED vars PROVE Goal
  BY <1>23 DEF vars, store, log, RestGoes
<1> HIDE DEF Goal
<1>24. ASSUME NEW p \in Ids,
             \/ \E lane \in {"scored", "capture"} : Start(p, lane)
             \/ StartEvent(p) \/ CaptureGate(p) \/ Look(p) \/ Launch(p) \/ Close(p) \/ Finish(p) \/ Killed(p)
             \/ Claim(p) \/ CellRuns(p) \/ Seal(p) \/ Open(p) \/ JobDies(p)
             \/ PublishPair(p) \/ PublishMechanism(p) \/ PublishReference(p) \/ PublishBundle(p)
      PROVE  Goal
  BY <1>24, <1>1, <1>2, <1>3, <1>4, <1>5, <1>6, <1>7, <1>8, <1>9, <1>10, <1>11, <1>12,
     <1>13, <1>14, <1>15, <1>16, <1>17
<1>25. ASSUME Next PROVE Goal
  BY <1>25, <1>24, <1>18, <1>19, <1>20, <1>21, <1>22 DEF Next
<1> QED  BY <1>23, <1>25 DEF Goal


LEMMA BoundaryStep ==
    ASSUME TypeOK, SealOwned, BoundaryInv, CampGoes, JobGoes, ArtGoes, RestGoes
    PROVE  BoundaryInv'
<1> SUFFICES ASSUME removals' = 0 PROVE BoundaryInv'
  BY DEF BoundaryInv
<1>1. removals = 0 /\ removals' = removals
  BY DEF RestGoes, TypeOK, TypeStore
<1>2. Keeps(art, art')
  BY <1>1, SealedIsKept DEF TypeOK, SealedStays, Keeps
<1>3. \A p \in Ids : camp[p] \in Camps /\ Placed(camp[p]) /\ Progress(art, camp[p])
  BY <1>1 DEF TypeOK, TypeCamp, Camps, Placed, BoundaryInv
<1>4. \A p \in Ids : Running(job[p]) => Waited(art, job[p].item) /\ job[p].item \in Items
  BY <1>1 DEF BoundaryInv, TypeOK, TypeJob, Running
<1>5. ASSUME NEW i \in Items, Waited(art, i) PROVE Waited(art', i)
  BY <1>2, <1>5, ScoredKept, ItemShape DEF Waited
<1>6. ASSUME NEW p \in Ids PROVE Progress(art', camp'[p])
  <2>1. \/ camp'[p] = camp[p]
        \/ CampStep(p, camp'[p])
    BY DEF CampGoes, TypeOK, TypeCamp
  <2>2. camp'[p] \in Camps /\ Placed(camp'[p]) /\ Progress(art, camp'[p])
    BY <2>1, <1>3, CampStepTyped, CampProgress DEF TypeOK
  <2> QED  BY <2>2, <1>2, ProgressKept
<1>7. ASSUME NEW p \in Ids, Running(job'[p]) PROVE Waited(art', job'[p].item)
  <2>1. \/ job'[p] = job[p]
        \/ JobStep(p, job'[p])
    BY DEF JobGoes, TypeOK, TypeJob
  <2>2. \/ Running(job[p]) /\ job'[p].item = job[p].item
        \/ camp[p].pc = "launch" /\ job'[p].item = Item(p)
    <3>1. CASE job'[p] = job[p]
      BY <1>7, <3>1
    <3>2. CASE JobStep(p, job'[p])
      BY <1>7, <3>2 DEF JobStep, Running, TypeOK, TypeJob, Jobs
    <3> QED  BY <2>1, <3>1, <3>2
  <2>3. CASE Running(job[p]) /\ job'[p].item = job[p].item
    BY <1>4, <1>5, <2>3
  <2>4. CASE camp[p].pc = "launch" /\ job'[p].item = Item(p)
    <3>1. Item(p) \in Items /\ Waited(art, Item(p))
      BY <1>3, <2>4, ItemTyped, LaunchWaited DEF TypeOK, Placed
    <3> QED  BY <1>5, <2>4, <3>1
  <2> QED  BY <2>2, <2>3, <2>4
<1>8. ASSUME NEW r \in opened' PROVE RowScored(art', r)
  <2>1. RowScored(art, r) /\ r \in Orders
    <3>1. CASE r \in opened
      BY <1>1, <3>1 DEF BoundaryInv, TypeOK, TypeLog
    <3>2. CASE r \notin opened
      <4>1. PICK p \in Ids : job[p].step = "begin" /\ ~IsCell(job[p].item) /\ r = job[p].item[2]
        BY <1>8, <3>2 DEF RestGoes
      <4>2. job[p].item \in Items /\ Waited(art, job[p].item)
        BY <1>4, <4>1 DEF Running
      <4>3. job[p].item[1] \in {"geometry", "pair", "mechanism", "tum"} /\ r \in Orders
        BY <4>1, <4>2, ItemShape DEF Kinds, IsCell
      <4> QED  BY <1>2, <4>1, <4>2, <4>3, ScoredKept DEF Waited
    <3> QED  BY <3>1, <3>2
  <2> QED  BY <1>2, <2>1, ScoredKept
<1>9. ASSUME NEW i \in Cells("capture"), claims'[i] > 0 PROVE AllScored(art')
  <2>1. AllScored(art)
    <3>1. CASE claims[i] > 0
      BY <1>1, <3>1 DEF BoundaryInv
    <3>2. CASE ~(claims[i] > 0)
      <4>1. PICK p \in Ids : job[p].step = "begin" /\ job[p].item = i
        BY <1>9, <3>2 DEF RestGoes
      <4>2. Waited(art, i) /\ i[1] = "capture"
        BY <1>4, <4>1 DEF Running, Cells
      <4> QED  BY <4>2 DEF Waited
    <3> QED  BY <3>1, <3>2
  <2> QED  BY <1>2, <2>1, ScoredKept
<1>10. ASSUME NEW lane \in finished', NEW r \in Orders PROVE RowClosed(art', lane, r)
  <2>1. RowClosed(art, lane, r) /\ lane \in Lanes
    <3>1. CASE lane \in finished
      BY <1>1, <3>1 DEF BoundaryInv, TypeOK, TypeLog
    <3>2. CASE lane \notin finished
      <4>1. PICK p \in Ids : camp[p].pc = "look" /\ camp[p].row \notin Orders /\ lane = camp[p].lane
        BY <1>10, <3>2 DEF RestGoes
      <4>2. camp[p].row \in 1 .. Len(Rows) + 1 /\ Len(Rows) \in Nat /\ lane \in Lanes
        BY <1>3, <4>1, LenProperties DEF Camps
      <4>3. r < camp[p].row
        BY <4>1, <4>2 DEF Orders
      <4> QED  BY <1>3, <4>1, <4>2, <4>3 DEF Progress
    <3> QED  BY <3>1, <3>2
  <2> QED  BY <1>2, <2>1, RowKept
<1> QED  BY <1>6, <1>7, <1>8, <1>9, <1>10 DEF BoundaryInv

-----------------------------------------------------------------------------
\* The aggregator.

\* What it has accepted hangs together: the captures it has read were made from
\* the scored results it has read, and so was everything it has published.
AggHolds ==
    /\ agg.pc # "cells" =>
         \A i \in Cells("capture") :
            LET s == <<"scored", i[2], i[3]>> IN agg.cells[i].of[s] = agg.cells[s].gen
    /\ agg.pc = "published" =>
         \A i \in DOMAIN agg.derived :
            agg.derived[i].edited = "no" /\ \A s \in Sources[i] : agg.derived[i].of[s] = agg.cells[s].gen

\* Every step keeps what the aggregator has accepted consistent.
LEMMA AggStep ==
    ASSUME TypeOK, WholeKinds, AggHolds, [Next]_vars
    PROVE  AggHolds'
<1> DEFINE Goal == AggHolds'
<1>1. ASSUME NEW p \in Ids, NEW lane \in {"scored", "capture"}, Start(p, lane) PROVE Goal
  BY <1>1 DEF Start, store, AggHolds
<1>2. ASSUME NEW p \in Ids, StartEvent(p) PROVE Goal
  BY <1>2 DEF StartEvent, store, AggHolds
<1>3. ASSUME NEW p \in Ids, CaptureGate(p) PROVE Goal
  BY <1>3 DEF CaptureGate, store, log, AggHolds
<1>4. ASSUME NEW p \in Ids, Look(p) PROVE Goal
  BY <1>4 DEF Look, store, AggHolds
<1>5. ASSUME NEW p \in Ids, Launch(p) PROVE Goal
  BY <1>5 DEF Launch, store, log, AggHolds
<1>6. ASSUME NEW p \in Ids, Close(p) PROVE Goal
  BY <1>6 DEF Close, store, AggHolds
<1>7. ASSUME NEW p \in Ids, Finish(p) PROVE Goal
  BY <1>7 DEF Finish, store, AggHolds
<1>8. ASSUME NEW p \in Ids, Killed(p) PROVE Goal
  BY <1>8 DEF Killed, store, AggHolds
<1>9. ASSUME NEW p \in Ids, Claim(p) PROVE Goal
  BY <1>9 DEF Claim, Outside, log, AggHolds
<1>10. ASSUME NEW p \in Ids, CellRuns(p) PROVE Goal
  BY <1>10 DEF CellRuns, Outside, log, AggHolds
<1>11. ASSUME NEW p \in Ids, Seal(p) PROVE Goal
  BY <1>11 DEF Seal, Outside, log, AggHolds
<1>12. ASSUME NEW p \in Ids, Open(p) PROVE Goal
  BY <1>12 DEF Open, Outside, log, AggHolds
<1>13. ASSUME NEW p \in Ids, JobDies(p) PROVE Goal
  BY <1>13 DEF JobDies, Outside, log, AggHolds
<1>14. ASSUME NEW p \in Ids, PublishPair(p) PROVE Goal
  BY <1>14 DEF PublishPair, Evaluates, Outside, log, AggHolds
<1>15. ASSUME NEW p \in Ids, PublishMechanism(p) PROVE Goal
  BY <1>15 DEF PublishMechanism, Evaluates, Outside, log, AggHolds
<1>16. ASSUME NEW p \in Ids, PublishReference(p) PROVE Goal
  BY <1>16 DEF PublishReference, Evaluates, Outside, log, AggHolds
<1>17. ASSUME NEW p \in Ids, PublishBundle(p) PROVE Goal
  BY <1>17 DEF PublishBundle, Evaluates, Outside, log, AggHolds
<1>18. ASSUME NEW i \in Items, TakeAway(i) PROVE Goal
  BY <1>18 DEF TakeAway, log, AggHolds
<1>19. ASSUME NEW i \in Items, Edit(i) PROVE Goal
  BY <1>19 DEF Edit, log, AggHolds
<1>20. ASSUME Drift PROVE Goal
  BY <1>20 DEF Drift, store, log, AggHolds
<1>21. ASSUME AggregateCells PROVE Goal
  <2> DEFINE cells == [i \in Cells("scored") \cup Cells("capture") |-> art[i]]
  <2>1. agg' = [agg EXCEPT !.pc = "derived", !.cells = cells] /\ \A i \in Cells("capture") : art[i].of = Gens(i)
    BY <1>21 DEF AggregateCells, CellsHold, CaptureLinked
  <2>2. agg'.pc \in {"cells", "derived"} /\ (agg'.pc = "derived" => agg'.cells = cells)
    BY <2>1, <1>21 DEF AggregateCells, TypeOK, TypeLog
  <2>3. ASSUME NEW i \in Cells("capture")
        PROVE  cells[i].of[<<"scored", i[2], i[3]>>] = cells[<<"scored", i[2], i[3]>>].gen
    <3> DEFINE s == <<"scored", i[2], i[3]>>
    <3>1. i \in Items /\ i[1] = "capture" /\ s \in Cells("scored")
      BY DEF Items, Cells
    <3>2. s \in Sources[i]
      BY <3>1, SourcesAreItems
    <3>3. cells[i] = art[i] /\ cells[s] = art[s]
      BY <3>1
    <3>4. Gens(i)[s] = art[s].gen
      BY <3>2 DEF Gens
    <3> HIDE DEF cells, s
    <3>5. cells[i].of[s] = cells[s].gen
      BY <2>1, <3>3, <3>4
    <3> QED  BY <3>5 DEF s
  <2> HIDE DEF cells
  <2>4. agg'.pc # "published"
    BY <2>2
  <2>5. agg'.pc # "cells" => agg'.cells = cells
    BY <2>2
  <2> QED  BY <2>3, <2>4, <2>5 DEF AggHolds
<1>22. ASSUME AggregateDerived PROVE Goal
  <2> DEFINE derived == [i \in Derived |-> art[i]]
  <2>1. CASE PairsHold /\ GeometryHolds /\ MechanismsHold
    <3>1. agg' = [agg EXCEPT !.pc = "published", !.derived = derived] /\ agg.pc = "derived"
      BY <1>22, <2>1 DEF AggregateDerived
    <3>2. agg'.cells = agg.cells /\ agg'.derived = derived
      BY <3>1 DEF TypeOK, TypeLog
    <3>3. ASSUME NEW i \in Derived
          PROVE  art[i].edited = "no" /\ art[i].of = Read(i)
      <4>1. i \in Items /\ ~IsCell(i) /\ i[1] # "tum" /\ art[i].st # "none" /\ art[i] \in Artifacts
        BY DEF Derived, TypeOK, TypeStore
      <4>2. i[1] \in {"geometry", "pair", "mechanism"}
        BY <4>1, ItemShape DEF Kinds, IsCell
      <4>3. art[i].edited \in {"no", "content", "extra"}
        BY <4>1 DEF Artifacts
      <4>4. CASE i[1] = "geometry"
        <5>1. i \in Cells("geometry")
          BY <4>1, <4>4 DEF Items, Cells, Pair, Mechanism, Reference
        <5> QED  BY <2>1, <4>3, <5>1 DEF GeometryHolds, AggregateDirectory, ChecksumSet
      <4>5. CASE i[1] = "mechanism"
        <5>1. PICK r \in {q \in Orders : Rows[q].rotation} : i = Mechanism(r)
          BY <4>1, <4>5 DEF Items, Cells, Pair, Reference
        <5> QED  BY <2>1, <4>1, <4>5, <5>1 DEF MechanismsHold, WholeKinds
      <4>6. CASE i[1] = "pair"
        <5>1. PICK r \in {q \in Orders : Rows[q].full} : i = Pair(r)
          BY <4>1, <4>6 DEF Items, Cells, Mechanism, Reference
        <5>2. art[i].st = "sealed"
          BY <4>1, <4>6 DEF WholeKinds
        <5>3. AggregateDirectory(i) /\ art[i].of = Read(i)
          BY <2>1, <5>1, <5>2 DEF PairsHold, Present
        <5> QED  BY <4>3, <5>3 DEF AggregateDirectory, ChecksumSet
      <4> QED  BY <4>2, <4>4, <4>5, <4>6
    <3>4. ASSUME NEW i \in DOMAIN derived
          PROVE  derived[i].edited = "no" /\ \A s \in Sources[i] : derived[i].of[s] = agg.cells[s].gen
      <4>1. i \in Derived /\ derived[i] = art[i]
        OBVIOUS
      <4>2. art[i].edited = "no" /\ art[i].of = Read(i)
        BY <3>3, <4>1
      <4>3. \A s \in Sources[i] : Read(i)[s] = agg.cells[s].gen
        BY DEF Read
      <4> QED  BY <4>1, <4>2, <4>3
    <3> HIDE DEF derived
    <3>5. agg.pc # "cells"
      BY <3>1
    <3> QED  BY <3>2, <3>4, <3>5 DEF AggHolds
  <2>2. CASE ~(PairsHold /\ GeometryHolds /\ MechanismsHold)
    <3>1. agg'.pc = "cells"
      BY <1>22, <2>2 DEF AggregateDerived, TypeOK, TypeLog
    <3> QED  BY <3>1 DEF AggHolds
  <2> QED  BY <2>1, <2>2
<1>23. ASSUME UNCHANGED vars PROVE Goal
  BY <1>23 DEF vars, AggHolds
<1> HIDE DEF Goal
<1>24. ASSUME NEW p \in Ids,
             \/ \E lane \in {"scored", "capture"} : Start(p, lane)
             \/ StartEvent(p) \/ CaptureGate(p) \/ Look(p) \/ Launch(p) \/ Close(p) \/ Finish(p) \/ Killed(p)
             \/ Claim(p) \/ CellRuns(p) \/ Seal(p) \/ Open(p) \/ JobDies(p)
             \/ PublishPair(p) \/ PublishMechanism(p) \/ PublishReference(p) \/ PublishBundle(p)
      PROVE  Goal
  BY <1>24, <1>1, <1>2, <1>3, <1>4, <1>5, <1>6, <1>7, <1>8, <1>9, <1>10, <1>11, <1>12,
     <1>13, <1>14, <1>15, <1>16, <1>17
<1>25. ASSUME Next PROVE Goal
  BY <1>25, <1>24, <1>18, <1>19, <1>20, <1>21, <1>22 DEF Next
<1> QED  BY <1>23, <1>25 DEF Goal

-----------------------------------------------------------------------------
IInv == TypeOK /\ WaitsForUnskipped /\ WholeKinds /\ SealOwned /\ BoundaryInv /\ AggHolds

LEMMA InitHolds == Init => IInv
<1> SUFFICES ASSUME Init PROVE IInv
  OBVIOUS
<1>1. TypeStore /\ WholeKinds
  BY NothingTyped DEF Init, TypeStore, WholeKinds, Nothing
<1>2. NoJob.step = "idle"
  BY DEF NoJob
<1>3. TypeJob /\ SealOwned
  BY <1>2, NoJobTyped DEF Init, TypeJob, SealOwned
<1>4. Over("new").pc = "new"
  BY DEF Over
<1>5. camp \in [Ids -> Camps] /\ \A p \in Ids : Placed(camp[p])
  <2>1. Over("new") \in Camps /\ Placed(Over("new"))
    BY FirstPlaced DEF Over, Lanes
  <2> QED  BY <2>1 DEF Init
<1>6. TypeCamp
  BY <1>5 DEF TypeCamp, Camps, Placed
<1>7. WaitsForUnskipped
  BY <1>4 DEF Init, WaitsForUnskipped
<1>8. TypeLog /\ AggHolds
  BY DEF Init, TypeLog, AggHolds
<1>9. BoundaryInv
  <2>1. \A p \in Ids : Progress(art, camp[p])
    BY <1>4 DEF Init, Progress
  <2>2. \A p \in Ids : ~Running(job[p])
    BY <1>2 DEF Init, Running
  <2>3. opened = {} /\ finished = {} /\ \A i \in Cells("capture") : claims[i] = 0
    BY DEF Init, Items
  <2> QED  BY <2>1, <2>2, <2>3 DEF BoundaryInv
<1> QED  BY <1>1, <1>3, <1>6, <1>7, <1>8, <1>9 DEF IInv, TypeOK

\* The invariant is inductive: one fact for each of its conjuncts.
LEMMA InvKept ==
    ASSUME IInv, [Next]_vars
    PROVE  IInv'
<1>1. TypeStore /\ TypeJob /\ TypeCamp /\ TypeLog /\ TypeOK /\ WaitsForUnskipped /\ WholeKinds
      /\ SealOwned /\ BoundaryInv /\ AggHolds
  BY DEF IInv, TypeOK
<1>2. JobGoes
  BY <1>1, JobKinds
<1>3. CampGoes
  BY <1>1, CampKinds
<1>4. ArtGoes
  BY <1>1, ArtKinds
<1>5. RestGoes
  BY <1>1, RestKinds
<1>6. TypeOK'
  BY <1>1, <1>2, <1>3, StoreTyped, JobTyped, CampTyped, LogTyped DEF TypeOK
<1>7. WaitsForUnskipped' /\ WholeKinds'
  BY <1>1, <1>3, <1>4, WaitsKept, WholeKept
<1>8. SealOwned'
  BY <1>1, OwnedKept
<1>9. BoundaryInv'
  BY <1>1, <1>2, <1>3, <1>4, <1>5, BoundaryStep
<1>10. AggHolds'
  BY <1>1, AggStep
<1> QED  BY <1>6, <1>7, <1>8, <1>9, <1>10 DEF IInv

LEMMA InvAlways == Spec => []IInv
<1>1. Init => IInv
  BY InitHolds
<1>2. IInv /\ [Next]_vars => IInv'
  BY InvKept
<1> QED  BY <1>1, <1>2, PTL DEF Spec

\* The campaign processes, what they launch, the result directories, the log and
\* the aggregator stay in their ranges, each campaign at a step of its lane.
THEOREM TypeCorrect == Spec => []TypeOK
<1>1. IInv => TypeOK
  BY DEF IInv
<1> QED  BY <1>1, InvAlways, PTL

\* No reference is opened (Open), and no capture reaches its estimators (Claim),
\* before the scored cells it waits for are closed for good, whatever dies, is
\* started again or runs at the same time: for any matrix and any number of
\* campaigns and faults.
THEOREM BoundaryAlways == Spec => []BoundaryHolds
<1>1. IInv => BoundaryHolds
  BY DEF IInv, BoundaryInv, BoundaryHolds, AllScored, RowScored
<1> QED  BY <1>1, InvAlways, PTL

\* A finish event (Finish) stands for the whole lane, whoever made its results.
THEOREM FinishedAlways == Spec => []FinishedIsComplete
<1>1. ASSUME IInv, removals = 0, NEW lane \in finished, NEW r \in Orders, NEW k \in DOMAIN RowPlan(lane, r)
      PROVE  LET i == RowPlan(lane, r)[k] IN
             \/ art[i].st = "sealed" /\ (IsCell(i) => art[i].status # "fatal")
             \/ (i[1] = "pair" /\ \E s \in Sources[i] : art[s].status # "eligible")
  <2>1. lane \in Lanes /\ RowClosed(art, lane, r)
    BY <1>1 DEF IInv, TypeOK, TypeLog, BoundaryInv
  <2>2. DOMAIN RowPlan(lane, r) = 1 .. Len(RowPlan(lane, r))
    BY <2>1, RowPlanShape, LenProperties
  <2>3. Closed(art, RowPlan(lane, r)[k])
    BY <2>1, <2>2 DEF RowClosed
  <2> QED  BY <2>3 DEF Closed
<1>2. IInv => FinishedIsComplete
  BY <1>1 DEF FinishedIsComplete
<1> QED  BY <1>2, InvAlways, PTL

\* A published report (AggregateDerived) lists only what was made from the very
\* results it lists, whatever was taken away, made again, edited or adopted
\* before and while the aggregator read.
THEOREM ReportAlways == Spec => []ReportIsOneStory
<1>1. IInv => ReportIsOneStory
  BY DEF IInv, AggHolds, ReportIsOneStory
<1> QED  BY <1>1, InvAlways, PTL
=============================================================================
