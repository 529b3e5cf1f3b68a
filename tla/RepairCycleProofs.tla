------------------------- MODULE RepairCycleProofs -------------------------
(***************************************************************************)
(* The repair cycle is never dropped, and what it publishes is true, for   *)
(* every set of contents, batch size, number of catch-up rounds and        *)
(* failure budget, and any number of changes, failures and restarts.       *)
(***************************************************************************)
EXTENDS RepairCycle, FiniteSetTheorems, SequenceTheorems, TLAPS

Cycles == [cids : Seq(Cids), index : Nat, refreshes : Nat, resumed : BOOLEAN, on : BOOLEAN]
PassTypes == [at : {"none", "select", "scan", "visit", "save"}, batch : Seq(Cids),
              completed : BOOLEAN, uncovered : BOOLEAN, proven : BOOLEAN,
              cursor : Cids \cup {NoCursor}, missing : BOOLEAN, scan : SUBSET Cids]

TypeOK == /\ cand \subseteq Cids
          /\ cycle \in Cycles
          /\ evidence \in Evidence /\ disk \in Evidence
          /\ pass \in PassTypes
          /\ proc \in {"booted", "running", "stopping"}
          /\ timer \in BOOLEAN
          /\ failures \in Nat
          /\ visited \subseteq Cids /\ found \subseteq Cids
          /\ faults \in Nat

\* Whoever works on a cycle, or is about to, has failures left.
DriverOK == /\ failures <= MaxConsecutiveFailures
            /\ timer \/ active => failures < MaxConsecutiveFailures
            /\ active => proc # "booted"

\* Where a pass is, and where it left the list.
PassOK == /\ cycle.index <= Len(cycle.cids)
          /\ pass.at = "scan" => /\ cycle.on /\ cycle.index = Len(cycle.cids)
                                 /\ pass.proven = ~cycle.resumed
          /\ pass.completed => pass.at \in {"visit", "save"} /\ ~cycle.on

\* What has been visited, or will be before the pass saves.
Reached == visited \cup (IF pass.at \in {"scan", "visit"} THEN ToSet(pass.batch) ELSE {})

\* What was found is in the evidence, or will be when the pass saves.
Reported == found # {} => evidence.missing \/ (pass.at = "save" /\ pass.missing)

\* A list that was built from the head of a cycle: what it has handed out has
\* been visited.  The list moves before the visit, so the pass counts too.
Walked == cycle.on /\ ~cycle.resumed =>
            /\ \A j \in 1..cycle.index : cycle.cids[j] \in Reached
            /\ Reported

\* The last pass of a cycle has dropped the list.
Ending == pass.completed /\ pass.proven =>
            /\ ~pass.uncovered => pass.scan \subseteq Reached
            /\ Reported

WalkOK == faults = 0 => Walked /\ Ending

IInv == TypeOK /\ DriverOK /\ CycleOwned /\ PassOK /\ WalkOK

-----------------------------------------------------------------------------
\* candidateCids: sorting a set of CIDs keeps its elements and adds none.
LEMMA SortedKeeps ==
  ASSUME NEW S \in SUBSET Cids
  PROVE  sorted(S) \in Seq(S) /\ ToSet(sorted(S)) = S
<1> DEFINE n == Cardinality(S)
           r == [c \in S |-> rank(S, c)]
<1>1. IsFiniteSet(S) /\ S \subseteq Nat
  BY CidsAssumption, FS_Subset
<1>2. n \in Nat
  BY <1>1, FS_CardinalityType
<1>3. \A c \in S : rank(S, c) \in 0..(n - 1)
  <2> TAKE c \in S
  <2> DEFINE L == {d \in S : d < c}
  <2>1. L \in SUBSET S /\ c \notin L
    BY <1>1
  <2>2. IsFiniteSet(L) /\ Cardinality(L) <= n /\ Cardinality(L) # n
    BY <1>1, <2>1, FS_Subset
  <2>3. Cardinality(L) \in Nat
    BY <2>2, FS_CardinalityType
  <2> QED
    BY <1>2, <2>2, <2>3 DEF rank
<1>4. \A c, d \in S : c < d => rank(S, c) < rank(S, d)
  <2> SUFFICES ASSUME NEW c \in S, NEW d \in S, c < d PROVE rank(S, c) < rank(S, d)
    OBVIOUS
  <2> DEFINE L == {e \in S : e < c}  M == {e \in S : e < d}
  <2>0. c \in Nat /\ d \in Nat /\ (\A e \in S : e < c => e < d) /\ ~(c < c)
    BY <1>1
  <2>1. L \in SUBSET M /\ c \in M /\ c \notin L
    BY <2>0
  <2>2. IsFiniteSet(M)
    BY <1>1, FS_Subset
  <2>3. Cardinality(L) <= Cardinality(M) /\ Cardinality(M) # Cardinality(L) /\ IsFiniteSet(L)
    BY <2>1, <2>2, FS_Subset
  <2>4. Cardinality(L) \in Nat /\ Cardinality(M) \in Nat
    BY <2>2, <2>3, FS_CardinalityType
  <2> QED
    BY <2>3, <2>4 DEF rank
<1>5. \A c, d \in S : rank(S, c) = rank(S, d) => c = d
  <2> SUFFICES ASSUME NEW c \in S, NEW d \in S, rank(S, c) = rank(S, d), c # d PROVE FALSE
    OBVIOUS
  <2>1. c < d \/ d < c
    BY <1>1
  <2>2. rank(S, c) \in Nat /\ rank(S, d) \in Nat
    BY <1>3
  <2> QED
    BY <1>4, <2>1, <2>2
<1>6. r \in Injection(S, 0..(n - 1))
  BY <1>3, <1>5 DEF Injection, IsInjective
<1>7. IsFiniteSet(0..(n - 1)) /\ Cardinality(0..(n - 1)) = n
  <2>1. 0 \in Int /\ n - 1 \in Int
    BY <1>2
  <2> QED
    BY <1>2, <2>1, FS_Interval
<1>8. r \in Surjection(S, 0..(n - 1))
  BY <1>6, <1>7, FS_Injection
<1>9. \A i \in 1..n : \E c \in S : rank(S, c) = i - 1
  <2> TAKE i \in 1..n
  <2>1. i - 1 \in 0..(n - 1)
    BY <1>2
  <2> QED
    BY <1>8, <2>1 DEF Surjection
<1>10. \A i \in 1..n : sorted(S)[i] \in S /\ rank(S, sorted(S)[i]) = i - 1
  BY <1>9 DEF sorted
<1>11. sorted(S) \in [1..n -> S]
  BY <1>10 DEF sorted
<1>12. sorted(S) \in Seq(S)
  BY <1>2, <1>11
<1>13. \A c \in S : \E i \in 1..n : sorted(S)[i] = c
  <2> TAKE c \in S
  <2>1. rank(S, c) + 1 \in 1..n /\ (rank(S, c) + 1) - 1 = rank(S, c)
    BY <1>2, <1>3
  <2> QED
    BY <1>5, <1>10, <2>1
<1>14. DOMAIN sorted(S) = 1..n
  BY <1>11
<1> QED
  BY <1>10, <1>12, <1>13, <1>14 DEF ToSet

LEMMA CandidatesTyped ==
  ASSUME TypeOK
  PROVE  candidateCids \in Seq(Cids) /\ ToSet(candidateCids) = cand
<1>1. candidateCids \in Seq(cand) /\ ToSet(candidateCids) = cand
  BY SortedKeeps DEF TypeOK, candidateCids
<1> QED
  BY <1>1 DEF TypeOK

LEMMA RecordTypes ==
  /\ NoCycle \in Cycles /\ NoCycle.on = FALSE /\ NoCycle.index = 0 /\ NoCycle.cids = <<>>
  /\ NoPass \in PassTypes /\ NoPass.at = "none" /\ NoPass.completed = FALSE
  /\ emptyEvidence \in Evidence /\ emptyEvidence.cursor = NoCursor
BY DEF NoCycle, Cycles, NoPass, PassTypes, NoCursor, emptyEvidence, Evidence

LEMMA PassBegun ==
  /\ [NoPass EXCEPT !.at = "select"] \in PassTypes
  /\ [NoPass EXCEPT !.at = "select"].at = "select"
  /\ [NoPass EXCEPT !.at = "select"].completed = FALSE
<1>1. \A p \in PassTypes : /\ [p EXCEPT !.at = "select"] \in PassTypes
                           /\ [p EXCEPT !.at = "select"].at = "select"
                           /\ [p EXCEPT !.at = "select"].completed = p.completed
  BY DEF PassTypes
<1> QED
  BY <1>1, RecordTypes

LEMMA SavedTyped ==
  ASSUME TypeOK
  PROVE  /\ saved(pass) \in Evidence
         /\ pass.completed => saved(pass).cursor = NoCursor
         /\ ~pass.completed => saved(pass).missing = aggregate(pass)
<1>1. /\ pass.completed \in BOOLEAN /\ pass.uncovered \in BOOLEAN /\ pass.proven \in BOOLEAN
      /\ pass.missing \in BOOLEAN /\ pass.cursor \in Cids \cup {NoCursor}
  BY DEF TypeOK, PassTypes
<1>2. aggregate(pass) \in BOOLEAN /\ superseded(pass) \in BOOLEAN /\ publishes(pass) \in BOOLEAN
  BY DEF aggregate, superseded, publishes
<1>3. CASE pass.completed
  <2> DEFINE age  == IF publishes(pass) THEN "fresh" ELSE evidence.completed
             good == IF publishes(pass) THEN ~aggregate(pass) ELSE evidence.successful
  <2>1. saved(pass) = [emptyEvidence EXCEPT !.completed = age, !.successful = good]
    BY <1>3 DEF saved
  <2>2. age \in {"never", "fresh", "stale"}
    BY DEF TypeOK, Evidence
  <2>3. good \in BOOLEAN
    BY <1>2 DEF TypeOK, Evidence
  <2> HIDE DEF age, good
  <2>4. saved(pass) \in Evidence /\ saved(pass).cursor = emptyEvidence.cursor
    BY <2>1, <2>2, <2>3, RecordTypes DEF Evidence
  <2> QED
    BY <1>3, <2>4, RecordTypes
<1>4. CASE ~pass.completed
  BY <1>1, <1>2, <1>4 DEF saved, Evidence, TypeOK
<1> QED
  BY <1>3, <1>4

\* A slice of a list of CIDs, from behind position a up to position b.
LEMMA Slice ==
  ASSUME NEW s \in Seq(Cids), NEW a \in Nat, NEW b \in Nat, a <= b, b <= Len(s)
  PROVE  /\ SubSeq(s, a + 1, b) \in Seq(Cids)
         /\ Len(SubSeq(s, a + 1, b)) = b - a
         /\ \A k \in 1..(b - a) : SubSeq(s, a + 1, b)[k] = s[a + k]
<1> DEFINE m == a + 1  t == SubSeq(s, m, b)
<1>1. m \in Int /\ b \in Int /\ Len(s) \in Nat
  OBVIOUS
<1>2. \A i \in m..b : s[i] \in Cids
  BY <1>1, ElementOfSeq
<1>3. /\ t \in Seq(Cids)
      /\ Len(t) = IF m <= b THEN b - m + 1 ELSE 0
      /\ \A i \in 1..(b - m + 1) : t[i] = s[m + i - 1]
  <2> HIDE DEF m
  <2> QED
    BY <1>1, <1>2, SubSeqProperties
<1>4. \A k \in Nat : m + k - 1 = a + k
  OBVIOUS
<1>5. b - m + 1 = b - a
  OBVIOUS
<1> HIDE DEF t
<1>6. \A k \in 1..(b - a) : t[k] = s[a + k]
  BY <1>3, <1>4, <1>5
<1>7. Len(t) = b - a
  BY <1>3
<1> QED
  BY <1>3, <1>6, <1>7 DEF t

\* The list a pass takes its batch from, and what the batch is.
LEMMA BatchTaken ==
  ASSUME NEW cy \in Cycles, cy.index <= Len(cy.cids), NEW upto,
         upto = IF cy.index + BatchSize < Len(cy.cids) THEN cy.index + BatchSize ELSE Len(cy.cids)
  PROVE  LET batch == SubSeq(cy.cids, cy.index + 1, upto) IN
         /\ upto \in Nat /\ cy.index <= upto /\ upto <= Len(cy.cids)
         /\ batch \in Seq(Cids)
         /\ \A j \in (cy.index + 1)..upto : cy.cids[j] \in ToSet(batch)
         /\ batch # <<>> => Last(batch) \in Cids
<1> DEFINE batch == SubSeq(cy.cids, cy.index + 1, upto)
<1>1. /\ cy.cids \in Seq(Cids) /\ cy.index \in Nat /\ Len(cy.cids) \in Nat
      /\ BatchSize \in Nat \ {0}
  BY BoundAssumption DEF Cycles
<1>2. upto \in Nat /\ cy.index <= upto /\ upto <= Len(cy.cids)
  BY <1>1
<1>3. /\ batch \in Seq(Cids) /\ Len(batch) = upto - cy.index
      /\ \A k \in 1..(upto - cy.index) : batch[k] = cy.cids[cy.index + k]
  <2> DEFINE l == cy.cids  a == cy.index
  <2>1. l \in Seq(Cids) /\ a \in Nat /\ upto \in Nat /\ a <= upto /\ upto <= Len(l)
    BY <1>1, <1>2
  <2> HIDE DEF l, a
  <2>2. /\ SubSeq(l, a + 1, upto) \in Seq(Cids)
        /\ Len(SubSeq(l, a + 1, upto)) = upto - a
        /\ \A k \in 1..(upto - a) : SubSeq(l, a + 1, upto)[k] = l[a + k]
    BY <2>1, Slice
  <2> QED
    BY <2>2 DEF l, a
<1> HIDE DEF batch
<1>4. ASSUME NEW j \in (cy.index + 1)..upto
      PROVE  cy.cids[j] \in ToSet(batch)
  <2> DEFINE k == j - cy.index
  <2>1. k \in 1..(upto - cy.index) /\ cy.index + k = j
    BY <1>1, <1>2
  <2> HIDE DEF k
  <2>2. batch[k] = cy.cids[j] /\ k \in 1..Len(batch)
    BY <1>3, <2>1
  <2>3. DOMAIN batch = 1..Len(batch)
    BY <1>3, LenProperties
  <2> QED
    BY <2>2, <2>3 DEF ToSet
<1>5. batch # <<>> => Last(batch) \in Cids
  BY <1>3 DEF Last
<1> QED
  BY <1>2, <1>3, <1>4, <1>5 DEF batch

\* resumeIndex: a new cycle starts at the head of its list, a resumed one
\* within it.
LEMMA BuiltTyped ==
  ASSUME TypeOK, NEW cursor \in Cids \cup {NoCursor}
  PROVE  /\ built(cursor) \in Cycles /\ built(cursor).on = TRUE
         /\ built(cursor).index <= Len(built(cursor).cids)
         /\ built(cursor).resumed = (cursor # NoCursor)
         /\ cursor = NoCursor => built(cursor).index = 0
<1> DEFINE s == candidateCids
           I == {i \in 1..Len(s) : s[i] <= cursor}
<1>1. s \in Seq(Cids) /\ Len(s) \in Nat
  BY CandidatesTyped
<1> HIDE DEF s
<1>2. IsFiniteSet(1..Len(s)) /\ Cardinality(1..Len(s)) = Len(s)
  BY <1>1, FS_Interval
<1>3. IsFiniteSet(I) /\ Cardinality(I) <= Len(s)
  BY <1>2, FS_Subset
<1>4. Cardinality(I) \in Nat
  BY <1>3, FS_CardinalityType
<1>5. cursor = NoCursor => Cardinality(I) = 0
  <2> SUFFICES ASSUME cursor = 0 PROVE I = {}
    BY FS_EmptySet DEF NoCursor
  <2>1. \A i \in 1..Len(s) : s[i] \in Nat \ {0}
    BY <1>1, CidsAssumption, ElementOfSeq
  <2> QED
    BY <2>1
<1>6. resumeIndex(s, cursor) = Cardinality(I)
  BY DEF resumeIndex
<1>7. built(cursor) = [cids |-> s, index |-> resumeIndex(s, cursor), refreshes |-> 0,
                       resumed |-> cursor # NoCursor, on |-> TRUE]
  BY DEF built, s
<1> QED
  BY <1>1, <1>3, <1>4, <1>5, <1>6, <1>7 DEF Cycles

-----------------------------------------------------------------------------
LEMMA Initially == Init => IInv
<1> SUFFICES ASSUME Init PROVE IInv
  OBVIOUS
<1>1. TypeOK
  BY RecordTypes DEF Init, TypeOK
<1>2. MaxConsecutiveFailures \in Nat \ {0}
  BY BoundAssumption
<1>3. DriverOK /\ CycleOwned
  BY <1>2, RecordTypes DEF Init, DriverOK, CycleOwned, active, stopped
<1>4. PassOK /\ WalkOK
  BY RecordTypes DEF Init, PassOK, WalkOK, Walked, Ending
<1> QED
  BY <1>1, <1>3, <1>4 DEF IInv

\* A pass begins: by the schedule, on request, or to continue.
LEMMA RunStep ==
  ASSUME IInv, ~active, NEW trigger, run(trigger),
         proc' \in {"running", "stopping"}, timer' \in BOOLEAN,
         trigger = "continuation" => timer
  PROVE  IInv'
<1>1. /\ pass' = [NoPass EXCEPT !.at = "select"]
      /\ failures' = IF trigger = "continuation" THEN failures ELSE 0
      /\ UNCHANGED <<cand, cycle, evidence, disk, visited, found, faults>>
  BY DEF run, history, bounds
<1>2. pass' \in PassTypes /\ pass'.at = "select" /\ pass'.completed = FALSE
  BY <1>1, PassBegun
<1>3. pass.at = "none"
  BY DEF active
<1>4. MaxConsecutiveFailures \in Nat \ {0} /\ failures \in Nat
  BY BoundAssumption DEF IInv, TypeOK
<1>5. failures' \in Nat /\ failures' < MaxConsecutiveFailures
  BY <1>1, <1>4 DEF IInv, DriverOK
<1>6. TypeOK'
  BY <1>1, <1>2, <1>5 DEF IInv, TypeOK
<1>7. DriverOK' /\ CycleOwned'
  BY <1>2, <1>4, <1>5 DEF DriverOK, CycleOwned, active
<1>8. PassOK'
  BY <1>1, <1>2 DEF IInv, PassOK
<1>9. WalkOK'
  BY <1>1, <1>2, <1>3 DEF IInv, WalkOK, Walked, Ending, Reached, Reported
<1> QED
  BY <1>6, <1>7, <1>8, <1>9 DEF IInv

LEMMA TakeBatchStep ==
  ASSUME IInv, TakeBatch
  PROVE  IInv'
<1> DEFINE cursor == evidence.cursor
           anew  == ~cycle.on \/ cursor = NoCursor
           cy    == IF anew THEN built(cursor) ELSE cycle
           upto  == IF cy.index + BatchSize < Len(cy.cids) THEN cy.index + BatchSize ELSE Len(cy.cids)
           batch == SubSeq(cy.cids, cy.index + 1, upto)
<1>1. /\ pass.at = "select"
      /\ cycle' = [cy EXCEPT !.index = upto]
      /\ pass' = [pass EXCEPT !.at = IF upto < Len(cy.cids) THEN "visit" ELSE "scan",
                              !.batch = batch, !.proven = ~cy.resumed,
                              !.cursor = IF batch = <<>> THEN cursor ELSE Last(batch)]
      /\ IF cursor = NoCursor THEN visited' = {} /\ found' = {} ELSE UNCHANGED <<visited, found>>
      /\ UNCHANGED <<cand, evidence, disk, proc, timer, failures, faults>>
  BY DEF TakeBatch, driverVars, bounds, history
<1>2. cursor \in Cids \cup {NoCursor} /\ cycle \in Cycles /\ pass \in PassTypes
  BY DEF IInv, TypeOK, Evidence
<1>3. /\ cy \in Cycles /\ cy.index <= Len(cy.cids) /\ cy.on = TRUE
      /\ \/ cy = cycle /\ cursor # NoCursor
         \/ cy.resumed = (cursor # NoCursor) /\ (cursor = NoCursor => cy.index = 0)
  <2>1. CASE anew
    BY <1>2, <2>1, BuiltTyped DEF IInv
  <2>2. CASE ~anew
    BY <1>2, <2>2 DEF IInv, PassOK, Cycles
  <2> QED
    BY <2>1, <2>2
<1> HIDE DEF cy
<1>4. /\ upto \in Nat /\ cy.index <= upto /\ upto <= Len(cy.cids)
      /\ batch \in Seq(Cids)
      /\ \A j \in (cy.index + 1)..upto : cy.cids[j] \in ToSet(batch)
      /\ batch # <<>> => Last(batch) \in Cids
  BY <1>3, BatchTaken
<1> HIDE DEF upto, batch
<1>5. /\ cycle' \in Cycles /\ cycle'.index = upto /\ cycle'.cids = cy.cids /\ cycle'.on = TRUE
      /\ cycle'.resumed = cy.resumed
  BY <1>1, <1>3, <1>4 DEF Cycles
<1>6. cy.resumed \in BOOLEAN /\ cy.cids \in Seq(Cids) /\ cy.index \in Nat /\ Len(cy.cids) \in Nat
  BY <1>3 DEF Cycles
<1>7. /\ pass' \in PassTypes /\ pass'.batch = batch /\ pass'.proven = ~cy.resumed
      /\ pass'.at = IF upto < Len(cy.cids) THEN "visit" ELSE "scan"
      /\ pass'.completed = pass.completed
  <2> DEFINE next   == IF upto < Len(cy.cids) THEN "visit" ELSE "scan"
             proven == ~cy.resumed
             behind == IF batch = <<>> THEN cursor ELSE Last(batch)
  <2>1. behind \in Cids \cup {NoCursor} /\ next \in {"visit", "scan"} /\ proven \in BOOLEAN
    BY <1>2, <1>4
  <2>2. pass' = [pass EXCEPT !.at = next, !.batch = batch, !.proven = proven, !.cursor = behind]
    BY <1>1
  <2> HIDE DEF next, proven, behind
  <2>3. /\ pass' \in PassTypes /\ pass'.batch = batch /\ pass'.proven = proven
        /\ pass'.at = next /\ pass'.completed = pass.completed
    BY <1>2, <1>4, <2>1, <2>2 DEF PassTypes
  <2> QED
    BY <2>3 DEF next, proven
<1>8. pass.completed = FALSE
  BY <1>1, <1>2 DEF IInv, PassOK, PassTypes
<1>9. TypeOK'
  BY <1>1, <1>5, <1>7 DEF IInv, TypeOK
<1>10. DriverOK' /\ CycleOwned'
  BY <1>1, <1>7 DEF IInv, DriverOK, CycleOwned, active, stopped
<1>11. PassOK'
  BY <1>4, <1>5, <1>6, <1>7, <1>8 DEF PassOK
<1>12. ASSUME faults = 0, ~cy.resumed
       PROVE  /\ \A j \in 1..upto : cy.cids[j] \in visited' \cup ToSet(batch)
              /\ found' # {} => evidence.missing
  <2>1. CASE cursor = NoCursor
    BY <1>1, <1>3, <1>4, <1>6, <1>12, <2>1
  <2>2. CASE cursor # NoCursor
    <3>1. cy = cycle /\ UNCHANGED <<visited, found>>
      BY <1>1, <1>3, <1>12, <2>2
    <3>2. (\A j \in 1..cy.index : cy.cids[j] \in visited) /\ (found # {} => evidence.missing)
      BY <1>1, <1>3, <1>12, <3>1 DEF IInv, WalkOK, Walked, Reached, Reported
    <3>3. \A j \in 1..upto : j \in 1..cy.index \/ j \in (cy.index + 1)..upto
      BY <1>4, <1>6
    <3> QED
      BY <1>4, <3>1, <3>2, <3>3
  <2> QED
    BY <2>1, <2>2
<1>13. Reached' = visited' \cup ToSet(batch)
  BY <1>7 DEF Reached
<1>14. WalkOK'
  BY <1>1, <1>5, <1>7, <1>8, <1>12, <1>13 DEF WalkOK, Walked, Ending, Reported
<1> QED
  BY <1>9, <1>10, <1>11, <1>14 DEF IInv

LEMMA ScanEndStep ==
  ASSUME IInv, ScanEnd
  PROVE  IInv'
<1> DEFINE fresh == sorted(cand \ ToSet(cycle.cids))
<1>1. /\ pass.at = "scan"
      /\ UNCHANGED <<cand, evidence, disk, proc, timer, failures, visited, found, faults>>
  BY DEF ScanEnd, driverVars, bounds, history
<1>2. /\ cycle \in Cycles /\ pass \in PassTypes /\ cand \subseteq Cids
      /\ cycle.cids \in Seq(Cids) /\ cycle.index \in Nat
  BY DEF IInv, TypeOK, Cycles
<1>3. /\ cycle.on /\ cycle.index = Len(cycle.cids) /\ pass.proven = ~cycle.resumed
      /\ pass.completed = FALSE
  BY <1>1, <1>2 DEF IInv, PassOK, PassTypes
<1>4. fresh \in Seq(Cids) /\ ToSet(fresh) = cand \ ToSet(cycle.cids)
  <2>1. cand \ ToSet(cycle.cids) \in SUBSET Cids
    BY <1>2
  <2>2. fresh \in Seq(cand \ ToSet(cycle.cids)) /\ ToSet(fresh) = cand \ ToSet(cycle.cids)
    BY <2>1, SortedKeeps
  <2> HIDE DEF fresh
  <2> QED
    BY <2>1, <2>2
<1>5. \/ /\ cycle' = [cycle EXCEPT !.cids = @ \o fresh, !.refreshes = @ + 1]
         /\ pass' = [pass EXCEPT !.at = "visit"]
      \/ /\ cycle' = NoCycle
         /\ pass' = [pass EXCEPT !.at = "visit", !.completed = TRUE, !.cursor = NoCursor,
                                 !.uncovered = fresh # <<>>, !.scan = cand]
  BY DEF ScanEnd
<1> HIDE DEF fresh
<1>6. pass' \in PassTypes /\ pass'.at = "visit" /\ pass'.batch = pass.batch
  <2>1. CASE pass' = [pass EXCEPT !.at = "visit"]
    BY <1>2, <2>1 DEF PassTypes
  <2>2. CASE pass' = [pass EXCEPT !.at = "visit", !.completed = TRUE, !.cursor = NoCursor,
                                  !.uncovered = fresh # <<>>, !.scan = cand]
    <3> DEFINE late == fresh # <<>>
    <3>1. late \in BOOLEAN /\ NoCursor \in Cids \cup {NoCursor} /\ cand \in SUBSET Cids
      BY <1>2
    <3>2. pass' = [pass EXCEPT !.at = "visit", !.completed = TRUE, !.cursor = NoCursor,
                               !.uncovered = late, !.scan = cand]
      BY <2>2
    <3> HIDE DEF late
    <3> QED
      BY <1>2, <3>1, <3>2 DEF PassTypes
  <2> QED
    BY <1>5, <2>1, <2>2
<1>7. DriverOK' /\ CycleOwned'
  BY <1>1, <1>6 DEF IInv, DriverOK, CycleOwned, active, stopped
<1>8. Reached' = Reached
  BY <1>1, <1>6 DEF Reached
<1>9. CASE /\ cycle' = [cycle EXCEPT !.cids = @ \o fresh, !.refreshes = @ + 1]
           /\ pass' = [pass EXCEPT !.at = "visit"]
  <2>1. /\ cycle.cids \o fresh \in Seq(Cids)
        /\ Len(cycle.cids) <= Len(cycle.cids \o fresh)
        /\ \A j \in 1..cycle.index : (cycle.cids \o fresh)[j] = cycle.cids[j]
    BY <1>2, <1>3, <1>4, ConcatProperties
  <2>2. /\ cycle' \in Cycles /\ cycle'.cids = cycle.cids \o fresh
        /\ cycle'.index = cycle.index /\ cycle'.on = cycle.on /\ cycle'.resumed = cycle.resumed
    <3> DEFINE list == cycle.cids \o fresh  n == cycle.refreshes + 1
    <3>1. list \in Seq(Cids) /\ n \in Nat
      BY <1>2, <2>1 DEF Cycles
    <3>2. cycle' = [cycle EXCEPT !.cids = list, !.refreshes = n]
      BY <1>9
    <3> HIDE DEF list, n
    <3>3. /\ cycle' \in Cycles /\ cycle'.cids = list
          /\ cycle'.index = cycle.index /\ cycle'.on = cycle.on /\ cycle'.resumed = cycle.resumed
      BY <1>2, <3>1, <3>2 DEF Cycles
    <3> QED
      BY <3>3 DEF list
  <2>3. pass'.completed = FALSE
    BY <1>2, <1>3, <1>9 DEF PassTypes
  <2>4. TypeOK'
    BY <1>1, <1>6, <2>2 DEF IInv, TypeOK
  <2>5. PassOK'
    BY <1>3, <1>6, <2>1, <2>2, <2>3 DEF PassOK
  <2>6. WalkOK'
    BY <1>1, <1>6, <1>8, <2>1, <2>2, <2>3 DEF IInv, WalkOK, Walked, Ending, Reported
  <2> QED
    BY <1>7, <2>4, <2>5, <2>6 DEF IInv
<1>10. CASE /\ cycle' = NoCycle
            /\ pass' = [pass EXCEPT !.at = "visit", !.completed = TRUE, !.cursor = NoCursor,
                                    !.uncovered = fresh # <<>>, !.scan = cand]
  <2>1. /\ pass'.proven = pass.proven /\ pass'.uncovered = (fresh # <<>>)
        /\ pass'.scan = cand
    BY <1>2, <1>10 DEF PassTypes
  <2>2. TypeOK' /\ PassOK'
    BY <1>1, <1>6, <1>10, RecordTypes DEF IInv, TypeOK, PassOK
  <2>3. ASSUME faults = 0, pass.proven, fresh = <<>> PROVE cand \subseteq Reached
    <3>1. cand \subseteq ToSet(cycle.cids)
      BY <1>4, <2>3 DEF ToSet
    <3>2. ToSet(cycle.cids) = {cycle.cids[j] : j \in 1..cycle.index}
      BY <1>2, <1>3 DEF ToSet
    <3>3. \A j \in 1..cycle.index : cycle.cids[j] \in Reached
      BY <1>3, <2>3 DEF IInv, WalkOK, Walked
    <3> QED
      BY <3>1, <3>2, <3>3
  <2>4. ASSUME faults = 0, pass.proven PROVE Reported'
    BY <1>1, <1>3, <1>6, <2>4 DEF IInv, WalkOK, Walked, Reported
  <2>5. WalkOK'
    BY <1>1, <1>8, <1>10, <2>1, <2>3, <2>4, RecordTypes DEF WalkOK, Walked, Ending
  <2> QED
    BY <1>7, <2>2, <2>5 DEF IInv
<1> QED
  BY <1>5, <1>9, <1>10

LEMMA VisitStep ==
  ASSUME IInv, Visit
  PROVE  IInv'
<1>1. /\ pass.at = "visit"
      /\ UNCHANGED <<cand, cycle, evidence, disk, proc, timer, failures, faults>>
  BY DEF Visit, driverVars, bounds
<1>2. PICK bad \in SUBSET (ToSet(pass.batch) \cap cand) :
        /\ visited' = visited \cup ToSet(pass.batch)
        /\ found' = found \cup bad
        /\ pass' = [pass EXCEPT !.at = "save", !.missing = bad # {}]
  BY DEF Visit
<1>3. pass \in PassTypes /\ pass.batch \in Seq(Cids)
  BY DEF IInv, TypeOK, PassTypes
<1>4. ToSet(pass.batch) \subseteq Cids
  BY <1>3, LenProperties, ElementOfSeq DEF ToSet
<1>5. /\ pass' \in PassTypes /\ pass'.at = "save" /\ pass'.missing = (bad # {})
      /\ pass'.completed = pass.completed /\ pass'.proven = pass.proven
      /\ pass'.uncovered = pass.uncovered /\ pass'.scan = pass.scan
  <2>1. (bad # {}) \in BOOLEAN
    OBVIOUS
  <2> QED
    BY <1>2, <1>3, <2>1 DEF PassTypes
<1>6. TypeOK'
  BY <1>1, <1>2, <1>4, <1>5 DEF IInv, TypeOK
<1>7. DriverOK' /\ CycleOwned'
  BY <1>1, <1>5 DEF IInv, DriverOK, CycleOwned, active, stopped
<1>8. PassOK'
  BY <1>1, <1>5 DEF IInv, PassOK
<1>9. Reached' = Reached
  BY <1>1, <1>2, <1>5 DEF Reached
<1>10. Reported => Reported'
  BY <1>1, <1>2, <1>5 DEF Reported
<1>11. WalkOK'
  BY <1>1, <1>5, <1>9, <1>10 DEF IInv, WalkOK, Walked, Ending
<1> QED
  BY <1>6, <1>7, <1>8, <1>11 DEF IInv

LEMMA SavePassStep ==
  ASSUME IInv, SavePass
  PROVE  IInv'
<1>1. /\ pass.at = "save" /\ pass' = NoPass /\ failures' = 0
      /\ evidence' = saved(pass) /\ disk' = saved(pass)
      /\ timer' = (~pass.completed /\ ~stopped)
      /\ UNCHANGED <<cand, cycle, proc, visited, found, faults>>
  BY DEF SavePass, history, bounds
<1>2. /\ saved(pass) \in Evidence
      /\ pass.completed => saved(pass).cursor = NoCursor
      /\ ~pass.completed => saved(pass).missing = aggregate(pass)
  BY SavedTyped DEF IInv
<1>3. MaxConsecutiveFailures \in Nat \ {0}
  BY BoundAssumption
<1>4. timer' \in BOOLEAN
  BY <1>1
<1>5. TypeOK'
  BY <1>1, <1>2, <1>4, RecordTypes DEF IInv, TypeOK
<1>6. DriverOK'
  BY <1>1, <1>3, RecordTypes DEF DriverOK, active
<1>7. CycleOwned'
  <2>1. CASE pass.completed
    BY <1>1, <1>2, <2>1 DEF CycleOwned
  <2>2. CASE ~pass.completed
    BY <1>1, <2>2 DEF CycleOwned, stopped
  <2> QED
    BY <2>1, <2>2
<1>8. PassOK'
  BY <1>1, RecordTypes DEF IInv, PassOK
<1>9. ASSUME faults = 0, cycle.on, ~cycle.resumed PROVE Walked'
  <2>1. ~pass.completed
    BY <1>9 DEF IInv, PassOK
  <2>2. Walked
    BY <1>9 DEF IInv, WalkOK
  <2>3. \A j \in 1..cycle.index : cycle.cids[j] \in visited
    BY <1>1, <1>9, <2>2 DEF Walked, Reached
  <2>4. found # {} => aggregate(pass)
    BY <1>1, <1>9, <2>2 DEF Walked, Reported, aggregate
  <2>5. found # {} => evidence'.missing
    BY <1>1, <1>2, <2>1, <2>4
  <2> QED
    BY <1>1, <2>3, <2>5 DEF Walked, Reached, Reported
<1>10. WalkOK'
  BY <1>1, <1>9, RecordTypes DEF WalkOK, Walked, Ending
<1> QED
  BY <1>5, <1>6, <1>7, <1>8, <1>10 DEF IInv

\* After a failure nothing is claimed of the cycle but that it goes on.
LEMMA FailPassStep ==
  ASSUME IInv, FailPass
  PROVE  IInv'
<1>1. /\ active /\ faults' = faults + 1 /\ pass' = NoPass
      /\ failures' = failures + 1
      /\ timer' = (failures + 1 < MaxConsecutiveFailures /\ ~stopped)
      /\ UNCHANGED <<cand, cycle, evidence, proc>>
  BY DEF FailPass, onPassFailed
<1>2. disk' \in Evidence
  BY SavedTyped DEF FailPass, IInv, TypeOK
<1>3. visited' \subseteq Cids /\ found' \subseteq Cids
  <2>1. visited \subseteq Cids /\ found \subseteq Cids /\ cand \subseteq Cids /\ pass.batch \in Seq(Cids)
    BY DEF IInv, TypeOK, PassTypes
  <2>2. ASSUME NEW n \in 0..Len(pass.batch)
        PROVE  ToSet(SubSeq(pass.batch, 1, n)) \subseteq Cids
    <3> DEFINE t == SubSeq(pass.batch, 0 + 1, n)
    <3>1. n \in Nat /\ 0 <= n /\ n <= Len(pass.batch)
      BY <2>1, LenProperties
    <3>2. t \in Seq(Cids)
      BY <2>1, <3>1, Slice
    <3>3. t = SubSeq(pass.batch, 1, n)
      OBVIOUS
    <3> HIDE DEF t
    <3>4. ToSet(t) \subseteq Cids
      BY <3>2, LenProperties, ElementOfSeq DEF ToSet
    <3> QED
      BY <3>3, <3>4
  <2>3. CASE UNCHANGED <<visited, found>>
    BY <2>1, <2>3
  <2>4. CASE \E n \in 0..Len(pass.batch) :
               LET seen == ToSet(SubSeq(pass.batch, 1, n)) IN
               /\ visited' = visited \cup seen
               /\ \E bad \in SUBSET (seen \cap cand) : found' = found \cup bad
    BY <2>1, <2>2, <2>4
  <2> QED
    BY <2>3, <2>4 DEF FailPass, history
<1>4. /\ MaxConsecutiveFailures \in Nat \ {0} /\ failures \in Nat /\ faults \in Nat
      /\ failures < MaxConsecutiveFailures
  BY <1>1, BoundAssumption DEF IInv, TypeOK, DriverOK
<1>5. timer' \in BOOLEAN
  BY <1>1
<1>6. TypeOK'
  BY <1>1, <1>2, <1>3, <1>4, <1>5, RecordTypes DEF IInv, TypeOK
<1>7. DriverOK' /\ CycleOwned'
  <2>1. failures' \in Nat /\ failures' <= MaxConsecutiveFailures
    BY <1>1, <1>4
  <2>2. ~active'
    BY <1>1, RecordTypes DEF active
  <2>3. failures' < MaxConsecutiveFailures \/ failures' = MaxConsecutiveFailures
    BY <1>4, <2>1
  <2>4. timer' => failures' < MaxConsecutiveFailures
    BY <1>1
  <2>5. ~stopped' => timer' \/ failures' = MaxConsecutiveFailures
    BY <1>1, <2>3 DEF stopped
  <2> QED
    BY <2>1, <2>2, <2>4, <2>5 DEF DriverOK, CycleOwned
<1>8. PassOK'
  BY <1>1, RecordTypes DEF IInv, PassOK
<1>9. WalkOK'
  BY <1>1, <1>4 DEF WalkOK
<1> QED
  BY <1>6, <1>7, <1>8, <1>9 DEF IInv

\* Records come and go, evidence grows older, the driver is stopped: the
\* position of the cycle and what it has reported stay.
LEMMA QuietStep ==
  ASSUME IInv, UNCHANGED <<cycle, pass, failures, visited, found, faults>>,
         cand' \subseteq Cids, evidence' \in Evidence, disk' \in Evidence,
         evidence'.cursor = evidence.cursor, evidence'.missing = evidence.missing,
         \/ UNCHANGED <<proc, timer>>
         \/ proc' = "stopping" /\ timer' = FALSE
  PROVE  IInv'
<1>1. TypeOK'
  BY DEF IInv, TypeOK
<1>2. DriverOK' /\ CycleOwned'
  BY DEF IInv, DriverOK, CycleOwned, active, stopped
<1>3. PassOK'
  BY DEF IInv, PassOK
<1>4. WalkOK'
  BY DEF IInv, WalkOK, Walked, Ending, Reached, Reported
<1> QED
  BY <1>1, <1>2, <1>3, <1>4 DEF IInv

LEMMA RestartStep ==
  ASSUME IInv, Restart
  PROVE  IInv'
<1>1. /\ evidence' \in {disk, emptyEvidence}
      /\ cycle' = NoCycle /\ pass' = NoPass
      /\ proc' = "booted" /\ timer' = FALSE /\ failures' = 0
      /\ UNCHANGED <<cand, disk, visited, found, faults>>
  BY DEF Restart, history
<1>2. MaxConsecutiveFailures \in Nat \ {0}
  BY BoundAssumption
<1>3. TypeOK'
  BY <1>1, RecordTypes DEF IInv, TypeOK
<1>4. DriverOK' /\ CycleOwned'
  BY <1>1, <1>2, RecordTypes DEF DriverOK, CycleOwned, active, stopped
<1>5. PassOK' /\ WalkOK'
  BY <1>1, RecordTypes DEF PassOK, WalkOK, Walked, Ending
<1> QED
  BY <1>3, <1>4, <1>5 DEF IInv

LEMMA Inductive == IInv /\ [Next]_vars => IInv'
<1> SUFFICES ASSUME IInv, [Next]_vars PROVE IInv'
  OBVIOUS
<1>0. /\ cand \subseteq Cids /\ evidence \in Evidence /\ disk \in Evidence
      /\ proc \in {"booted", "running", "stopping"} /\ timer \in BOOLEAN
  BY DEF IInv, TypeOK
<1>1. CASE UNCHANGED vars
  BY <1>0, <1>1, QuietStep DEF vars, driverVars, history, bounds
<1>2. CASE \E c \in Cids : ChangeRegistry(c)
  BY <1>0, <1>2, QuietStep DEF ChangeRegistry, driverVars, history
<1>3. CASE Age
  <2>1. /\ evidence' = [evidence EXCEPT !.completed = "stale"]
        /\ disk' = [disk EXCEPT !.completed = IF disk.completed = "fresh" THEN "stale"
                                              ELSE disk.completed]
        /\ UNCHANGED <<cand, cycle, pass, failures, visited, found, faults, proc, timer>>
    BY <1>3 DEF Age, driverVars, history, bounds
  <2>2. /\ evidence' \in Evidence /\ disk' \in Evidence
        /\ evidence'.cursor = evidence.cursor /\ evidence'.missing = evidence.missing
    BY <1>0, <2>1 DEF Evidence
  <2> QED
    BY <1>0, <2>1, <2>2, QuietStep
<1>4. CASE TakeBatch
  BY <1>4, TakeBatchStep
<1>5. CASE ScanEnd
  BY <1>5, ScanEndStep
<1>6. CASE Visit
  BY <1>6, VisitStep
<1>7. CASE SavePass
  BY <1>7, SavePassStep
<1>8. CASE FailPass
  BY <1>8, FailPassStep
<1>9. CASE start
  <2>1. ~active
    BY <1>9 DEF start, IInv, DriverOK
  <2> QED
    BY <1>0, <1>9, <2>1, RunStep DEF start
<1>10. CASE triggerSchedule
  BY <1>0, <1>10, RunStep DEF triggerSchedule, stopped
<1>11. CASE runManual
  BY <1>0, <1>11, RunStep DEF runManual, stopped
<1>12. CASE Continue
  BY <1>0, <1>12, RunStep DEF Continue, stopped
<1>13. CASE stop
  BY <1>0, <1>13, QuietStep DEF stop, history, bounds
<1>14. CASE Restart
  BY <1>14, RestartStep
<1> QED
  BY <1>1, <1>2, <1>3, <1>4, <1>5, <1>6, <1>7, <1>8, <1>9, <1>10, <1>11, <1>12, <1>13, <1>14
  DEF Next, PassStep

-----------------------------------------------------------------------------
\* repairCycleDriver.ts: an unfinished cycle of a running node always has a pass
\* at work or a continuation scheduled, unless its failure budget is used up;
\* for every budget, whichever triggers, failures and restarts come together.
THEOREM CycleNeverDropped == Spec => []CycleOwned
<1>1. Init => IInv
  BY Initially
<1>2. IInv /\ [Next]_vars => IInv'
  BY Inductive
<1>3. IInv => CycleOwned
  BY DEF IInv
<1> QED
  BY <1>1, <1>2, <1>3, PTL DEF Spec

\* Whatever saves evidence that publishes a cycle, while no pass has failed,
\* stands where everything scanned was visited and everything found reported.
LEMMA PublishedTrue ==
  ASSUME IInv, Publishing, faults = 0
  PROVE  /\ pass.scan \subseteq visited
         /\ evidence'.successful => found = {}
<1>1. /\ pass.at = "save" /\ pass.completed /\ pass.proven /\ ~pass.uncovered
      /\ evidence' = saved(pass) /\ publishes(pass)
  BY DEF Publishing, publishes, superseded
<1>2. Ending
  BY DEF IInv, WalkOK
<1>3. pass.scan \subseteq visited
  BY <1>1, <1>2 DEF Ending, Reached
<1>4. found # {} => aggregate(pass)
  BY <1>1, <1>2 DEF Ending, Reported, aggregate
<1>5. evidence'.successful = ~aggregate(pass)
  BY <1>1 DEF saved, emptyEvidence
<1> QED
  BY <1>3, <1>4, <1>5

\* repairCycle.ts, replication.cron.ts: a published cycle visited every record
\* that was a candidate at its last scan, and one published as successful found
\* none that lacks copies, as long as no pass has failed on its datastore; for
\* every batch size and number of catch-up rounds, while records come and go
\* and the process restarts.
THEOREM PublishedCyclesTrue == Spec => PublishedIsTrue
<1>1. Init => IInv
  BY Initially
<1>2. IInv /\ [Next]_vars => IInv'
  BY Inductive
<1>3. IInv => (Publishing /\ faults = 0 => pass.scan \subseteq visited)
  BY PublishedTrue
<1>4. IInv => (Publishing /\ faults = 0 /\ evidence'.successful => found = {})
  BY PublishedTrue
<1> QED
  BY <1>1, <1>2, <1>3, <1>4, PTL DEF Spec, PublishedIsTrue, FaultlessCoversAll, PublishedHonestly
=============================================================================
