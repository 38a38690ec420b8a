------------------------ MODULE ScannerSignalsProofs ------------------------
(***************************************************************************)
(* What ScannerSignals keeps for any stocks, users, number of scans and    *)
(* faults: no repeated signal without an overlap, none missed without one. *)
(***************************************************************************)
EXTENDS ScannerSignals, TLAPS, WellFoundedInduction

-----------------------------------------------------------------------------
(* Least and greatest elements.                                             *)

LEMMA LessThan == \E R : /\ IsWellFoundedOn(R, Nat)
                         /\ \A x, y \in Nat : x < y => <<x, y>> \in R
<1>1. \A x, y \in Nat : x < y => <<x, y>> \in OpToRel(<, Nat)
  BY DEF OpToRel
<1>2. QED
  BY <1>1, NatLessThanWellFounded, Zenon

\* A nonempty set of natural numbers has a least element.
LEMMA HasLeast == ASSUME NEW T, T \subseteq Nat, T # {}
                  PROVE  \E x \in T : \A y \in T : x <= y
<1>1. PICK R : /\ IsWellFoundedOn(R, Nat)
               /\ \A x, y \in Nat : x < y => <<x, y>> \in R
  BY LessThan
<1>2. IsWellFoundedOn(R, Nat)
  BY <1>1
<1>3. PICK x \in T : \A y \in T : ~ (<<y, x>> \in R)
  BY <1>2, WFMin, Zenon
<1>4. ASSUME NEW y \in T PROVE x <= y
  <2>1. x \in Nat /\ y \in Nat
    OBVIOUS
  <2>2. ~(y < x)
    BY <1>1, <1>3, <2>1
  <2>3. QED
    BY <2>1, <2>2
<1>5. QED
  BY <1>4

\* A nonempty bounded one has a greatest.
LEMMA HasGreatest == ASSUME NEW n \in Int, NEW S \in SUBSET (1..n), S # {}
                     PROVE  \E x \in S : \A y \in S : y <= x
<1> DEFINE T == {n - q : q \in S}
<1>1. T \subseteq Nat /\ T # {}
  <2>1. \A q \in S : n - q \in Nat
    OBVIOUS
  <2>2. QED
    BY <2>1
<1>2. PICK x \in T : \A y \in T : x <= y
  BY <1>1, HasLeast
<1>3. PICK q \in S : x = n - q
  BY <1>2
<1>4. \A p \in S : n - p \in T
  OBVIOUS
<1>5. \A p \in S : p <= q
  BY <1>2, <1>3, <1>4
<1>6. QED
  BY <1>5

-----------------------------------------------------------------------------
(* The previous classification of a stock.                                  *)

\* It is that of an earlier run which has a row, with no row in between.
LEMMA PreviousRow ==
    ASSUME TypeOK, NEW r \in Runs, NEW s \in Stocks, Earlier(r, s) # {}
    PROVE  \E q \in 1..(r - 1) :
             /\ class[q][s] # NoClass /\ Previous(r, s) = class[q][s]
             /\ \A p \in (q + 1)..(r - 1) : class[p][s] = NoClass
<1>1. Earlier(r, s) \in SUBSET (1..(r - 1)) /\ r - 1 \in Int
  BY DEF Earlier, Runs
<1>2. PICK m \in Earlier(r, s) : \A p \in Earlier(r, s) : p <= m
  BY <1>1, HasGreatest
<1> DEFINE q == Newest(Earlier(r, s))
<1>3. q \in Earlier(r, s) /\ \A p \in Earlier(r, s) : p <= q
  BY <1>2 DEF Newest
<1>4. \A p \in (q + 1)..(r - 1) : class[p][s] = NoClass
  BY <1>1, <1>3 DEF Earlier
<1>5. Previous(r, s) = class[q][s]
  BY DEF Previous
<1>6. QED
  BY <1>1, <1>3, <1>4, <1>5 DEF Earlier

\* Only the rows of earlier runs count.
LEMMA PreviousStable ==
    ASSUME NEW r \in Runs, NEW s \in Stocks,
           \A q \in 1..(r - 1) : class'[q][s] = class[q][s]
    PROVE  Previous(r, s)' = Previous(r, s)
<1>1. Earlier(r, s)' = Earlier(r, s)
  BY DEF Earlier
<1>2. CASE Earlier(r, s) = {}
  BY <1>1, <1>2 DEF Previous
<1>3. CASE Earlier(r, s) # {}
  <2>1. PICK m \in Earlier(r, s) : \A p \in Earlier(r, s) : p <= m
    <3>1. Earlier(r, s) \in SUBSET (1..(r - 1)) /\ r - 1 \in Int
      BY DEF Earlier, Runs
    <3>2. QED
      BY <1>3, <3>1, HasGreatest
  <2>2. Newest(Earlier(r, s)) \in Earlier(r, s)
    BY <2>1 DEF Newest
  <2>3. Newest(Earlier(r, s)) \in 1..(r - 1)
    BY <2>2 DEF Earlier
  <2>4. QED
    BY <1>1, <1>3, <2>3 DEF Previous
<1>4. QED
  BY <1>2, <1>3

-----------------------------------------------------------------------------
(* The inductive invariant, one lemma per conjunct.                         *)

LEMMA RunFacts ==
    /\ Runs \subseteq Nat /\ \A r \in Runs : r >= 1 /\ r <= MaxRuns /\ 1..r \subseteq Runs
    /\ MaxRuns \in Nat
BY BoundsAssumption DEF Runs

LEMMA TypeStep == ASSUME TypeOK, [Next]_vars PROVE TypeOK'
<1> USE RunFacts
<1>1. CASE StartScan
  BY <1>1 DEF StartScan, TypeOK, Stages, Active, Runs
<1>2. ASSUME NEW r \in Runs, NEW s \in Stocks, ScanStock(r, s) PROVE TypeOK'
  BY <1>2 DEF ScanStock, TypeOK
<1>3. ASSUME NEW r \in Runs, NEW s \in Stocks, LookAt(r, s) PROVE TypeOK'
  BY <1>3 DEF LookAt, TypeOK
<1>4. ASSUME NEW r \in Runs, NEW u \in Users, MakeSignal(r, u) PROVE TypeOK'
  BY <1>4 DEF MakeSignal, TypeOK
<1>5. ASSUME NEW r \in Runs, FinishScan(r) PROVE TypeOK'
  BY <1>5 DEF FinishScan, TypeOK, Stages, Rows
<1>6. ASSUME NEW r \in Runs, NextClassification(r) PROVE TypeOK'
  BY <1>6 DEF NextClassification, TypeOK, Stages, Rows
<1>7. ASSUME NEW rs \in SUBSET Runs, End(rs), rs # {} PROVE TypeOK'
  BY <1>7 DEF End, TypeOK, Stages, NoStock
<1>8. CASE UNCHANGED vars
  BY <1>8 DEF vars, TypeOK
<1>9. QED
  BY <1>1, <1>2, <1>3, <1>4, <1>5, <1>6, <1>7, <1>8
     DEF Next, ScanStep, ScanFails, Crash, Active

\* The rows of a run change only while it scans; the runs it overlaps with are
\* known when it starts; what is finished stays so.
LEMMA Settled ==
    ASSUME TypeOK, RunsInv, [Next]_vars, NEW r \in Runs
    PROVE  /\ scan[r] # "scanning" => class'[r] = class[r]
           /\ Finished(r) => Finished(r)'
           /\ Committed(r) => Committed(r)'
           /\ scan[r] = "broken" => scan'[r] = "broken"
           /\ \A q \in Runs : <<q, r>> \in overlaps => <<q, r>> \in overlaps'
<1> DEFINE Rows0 == scan[r] # "scanning" => class'[r] = class[r]
           Stage == /\ Finished(r) => Finished(r)'
                    /\ Committed(r) => Committed(r)'
                    /\ scan[r] = "broken" => scan'[r] = "broken"
           Pairs == overlaps \subseteq overlaps'
<1> USE RunFacts
<1>1. ASSUME StartScan PROVE Rows0 /\ Stage /\ Pairs
  <2>1. started + 1 # r \/ scan[r] = "absent"
    BY DEF RunsInv, TypeOK
  <2>2. QED
    BY <1>1, <2>1 DEF StartScan, TypeOK, Finished, Committed
<1>2. ASSUME NEW t \in Runs, NEW s \in Stocks, ScanStock(t, s) PROVE Rows0 /\ Stage /\ Pairs
  BY <1>2 DEF ScanStock, TypeOK, Finished, Committed
<1>3. ASSUME NEW t \in Runs, NEW s \in Stocks, LookAt(t, s) PROVE Rows0 /\ Stage /\ Pairs
  BY <1>3 DEF LookAt, Finished, Committed
<1>4. ASSUME NEW t \in Runs, NEW u \in Users, MakeSignal(t, u) PROVE Rows0 /\ Stage /\ Pairs
  BY <1>4 DEF MakeSignal, Finished, Committed
<1>5. ASSUME NEW t \in Runs, FinishScan(t) \/ NextClassification(t) PROVE Rows0 /\ Stage /\ Pairs
  BY <1>5 DEF FinishScan, NextClassification, TypeOK, Finished, Committed
<1>6. ASSUME NEW rs, End(rs) PROVE Rows0 /\ Stage /\ Pairs
  BY <1>6 DEF End, TypeOK, Finished, Committed
<1>7. ASSUME UNCHANGED vars PROVE Rows0 /\ Stage /\ Pairs
  BY <1>7 DEF vars, Finished, Committed
<1> HIDE DEF Rows0, Stage, Pairs
<1>8. Rows0 /\ Stage /\ Pairs
  <2>1. CASE StartScan
    BY <1>1, <2>1
  <2>2. CASE Crash
    BY <1>6, <2>2 DEF Crash
  <2>3. ASSUME NEW t \in Runs, ScanStep(t) PROVE Rows0 /\ Stage /\ Pairs
    BY <1>2, <1>3, <1>4, <1>5, <2>3 DEF ScanStep
  <2>4. ASSUME NEW t \in Runs, ScanFails(t) PROVE Rows0 /\ Stage /\ Pairs
    BY <1>6, <2>4 DEF ScanFails
  <2>5. QED
    BY <1>7, <2>1, <2>2, <2>3, <2>4 DEF Next
<1>9. QED
  BY <1>8 DEF Rows0, Stage, Pairs

LEMMA RunsInvStep == ASSUME TypeOK, RunsInv, [Next]_vars PROVE RunsInv'
<1> USE RunFacts DEF Finished
<1>1. CASE StartScan
  <2> DEFINE t == started + 1
  <2>1. /\ t \in Runs /\ started \in Nat /\ started' = t /\ scan[t] = "absent"
        /\ scan' = [scan EXCEPT ![t] = "scanning"] /\ scan \in [Runs -> Stages]
        /\ class' = class /\ todo' = [todo EXCEPT ![t] = Stocks]
        /\ overlaps' = overlaps \cup {<<q, t>> : q \in Active}
    BY <1>1 DEF StartScan, TypeOK, Runs, RunsInv
  <2>2. ASSUME NEW q \in Runs, NEW r \in Runs, q < r, r <= t, <<q, r>> \notin overlaps'
        PROVE  Finished(q)'
    <3>1. CASE r <= started
      BY <2>1, <2>2, <3>1 DEF RunsInv
    <3>2. CASE r = t
      BY <2>1, <2>2, <3>2 DEF RunsInv, Active, Stages
    <3>3. QED
      BY <2>1, <2>2, <3>1, <3>2
  <2>3. \A r \in Runs : scan'[r] = "absent" <=> r > started'
    BY <2>1 DEF RunsInv
  <2>4. \A q, r \in Runs : <<q, r>> \in overlaps' => r <= started'
    BY <2>1 DEF RunsInv
  <2>5. QED
    BY <2>1, <2>2, <2>3, <2>4 DEF RunsInv
<1>2. ASSUME NEW t \in Runs, NEW s \in Stocks, ScanStock(t, s) PROVE RunsInv'
  BY <1>2 DEF ScanStock, TypeOK, RunsInv
<1>3. ASSUME NEW t \in Runs, NEW s \in Stocks, LookAt(t, s) PROVE RunsInv'
  BY <1>3 DEF LookAt, TypeOK, RunsInv
<1>4. ASSUME NEW t \in Runs, NEW u \in Users, MakeSignal(t, u) PROVE RunsInv'
  BY <1>4 DEF MakeSignal, TypeOK, RunsInv
<1>5. ASSUME NEW t \in Runs, FinishScan(t) PROVE RunsInv'
  BY <1>5 DEF FinishScan, TypeOK, Rows, RunsInv
<1>6. ASSUME NEW t \in Runs, NextClassification(t) PROVE RunsInv'
  BY <1>6 DEF NextClassification, TypeOK, Rows, RunsInv
<1>7. ASSUME NEW rs \in SUBSET Active, End(rs) PROVE RunsInv'
  BY <1>7 DEF End, TypeOK, Active, RunsInv
<1>8. CASE UNCHANGED vars
  BY <1>8 DEF vars, RunsInv
<1>9. QED
  BY <1>1, <1>2, <1>3, <1>4, <1>5, <1>6, <1>7, <1>8
     DEF Next, ScanStep, ScanFails, Crash

\* That a signal was news when it was made stays true: the runs that count were
\* finished then.
LEMMA NewStable ==
    ASSUME TypeOK, RunsInv, [Next]_vars, NEW r \in Runs, NEW s \in Stocks, New(r, s)
    PROVE  New(r, s)'
<1> USE RunFacts
<1>1. /\ Committed(r) /\ Committed(r)' /\ class'[r] = class[r]
      /\ class[r][s] \in Qualified /\ r <= started
  BY Settled DEF New, Committed, RunsInv, TypeOK
<1>2. ASSUME NEW q \in 1..(r - 1), class'[q][s] # NoClass,
             \A p \in q..(r - 1) : <<p, r>> \notin overlaps'
      PROVE  ~SameStreak(q, r, s)'
  <2>1. ASSUME NEW p \in q..(r - 1) PROVE <<p, r>> \notin overlaps /\ class'[p] = class[p]
    <3>1. p \in Runs /\ p < r
      BY DEF Runs
    <3>2. <<p, r>> \notin overlaps
      BY <1>2, <3>1, Settled
    <3>3. Finished(p)
      BY <1>1, <3>1, <3>2 DEF RunsInv
    <3>4. QED
      BY <3>1, <3>2, <3>3, Settled DEF Finished
  <2>2. q \in q..(r - 1) /\ q \in Nat /\ r \in Nat
    OBVIOUS
  <2>3. ~SameStreak(q, r, s)
    BY <1>2, <2>1, <2>2 DEF New
  <2>4. PICK p \in q..r : class[p][s] \notin {class[r][s], NoClass}
    BY <2>3 DEF SameStreak
  <2>5. class'[p] = class[p]
    <3>1. p = r \/ p \in q..(r - 1)
      BY <2>2, <2>4
    <3>2. QED
      BY <1>1, <2>1, <3>1
  <2>6. QED
    BY <1>1, <2>4, <2>5 DEF SameStreak
<1>3. QED
  BY <1>1, <1>2 DEF New

\* A stock whose previous row says otherwise is news.
LEMMA NewWhenChanged ==
    ASSUME TypeOK, NEW r \in Runs, NEW s \in Stocks, Committed(r),
           class[r][s] \in Qualified, Previous(r, s) # class[r][s]
    PROVE  New(r, s)
<1> USE RunFacts
<1>1. ASSUME NEW q \in 1..(r - 1), class[q][s] # NoClass, SameStreak(q, r, s) PROVE FALSE
  <2>1. Earlier(r, s) # {}
    BY <1>1 DEF Earlier
  <2>2. PICK m \in 1..(r - 1) :
           /\ class[m][s] # NoClass /\ Previous(r, s) = class[m][s]
           /\ \A p \in (m + 1)..(r - 1) : class[p][s] = NoClass
    BY <2>1, PreviousRow
  <2>3. m \in q..r
    BY <1>1, <2>2
  <2>4. QED
    BY <1>1, <2>2, <2>3 DEF SameStreak
<1>2. QED
  BY <1>1 DEF New

LEMMA NewInvStep == ASSUME TypeOK, RunsInv, NewInv, [Next]_vars PROVE NewInv'
<1> USE RunFacts
<1> DEFINE Making(r) == scan[r] \in {"calls", "puts"}
<1>1. ASSUME NEW t \in Runs, NEW s \in Stocks, LookAt(t, s) PROVE NewInv'
  <2>1. signals' = signals /\ scan' = scan /\ class' = class /\ overlaps' = overlaps
    BY <1>1 DEF LookAt
  <2>2. \A r \in Runs, z \in Stocks : New(r, z)' <=> New(r, z)
    BY <2>1 DEF New, Committed, SameStreak
  <2>3. Previous(t, s) # class[t][s] => New(t, s)
    BY <1>1, NewWhenChanged DEF LookAt, RunsInv, Committed, Qualified
  <2>4. \A r \in Runs : current'[r].users # {} => New(r, current'[r].stock) /\ Making(r)
    BY <1>1, <2>3 DEF LookAt, TypeOK, NewInv
  <2>5. current' \in [Runs -> [users : SUBSET Users, stock : Stocks]]
    BY TypeStep DEF TypeOK
  <2>6. signals \subseteq [run : Runs, stock : Stocks, user : Users]
    BY DEF TypeOK
  <2>7. \A x \in signals' : New(x.run, x.stock)'
    BY <2>1, <2>2, <2>6 DEF NewInv
  <2>8. \A r \in Runs : (current[r].users # {} => New(r, current[r].stock) /\ Making(r))'
    BY <2>1, <2>2, <2>4, <2>5
  <2>9. QED
    BY <2>7, <2>8 DEF NewInv
<1>2. ASSUME /\ \A x \in signals' : \/ x \in signals
                                     \/ \E t \in Runs : /\ current[t].users # {}
                                                       /\ x.run = t /\ x.stock = current[t].stock,
             \A r \in Runs : current'[r].users # {} =>
                 current'[r].stock = current[r].stock /\ current[r].users # {} /\ Making(r)'
      PROVE  NewInv'
  <2>1. ASSUME NEW r \in Runs, NEW s \in Stocks, New(r, s) PROVE New(r, s)'
    BY <2>1, NewStable
  <2>2. \A x \in signals' : x.run \in Runs /\ x.stock \in Stocks /\ New(x.run, x.stock)
    <3>1. signals' \subseteq [run : Runs, stock : Stocks, user : Users]
      BY TypeStep DEF TypeOK
    <3>2. QED
      BY <1>2, <3>1 DEF NewInv
  <2>3. \A r \in Runs : current'[r].users # {} =>
           current'[r].stock \in Stocks /\ New(r, current'[r].stock)
    <3>1. current' \in [Runs -> [users : SUBSET Users, stock : Stocks]]
      BY TypeStep DEF TypeOK
    <3>2. QED
      BY <1>2, <3>1 DEF NewInv
  <2>4. \A x \in signals' : New(x.run, x.stock)'
    BY <2>1, <2>2
  <2>5. \A r \in Runs : (current[r].users # {} => New(r, current[r].stock))'
    BY <2>1, <2>3
  <2>6. QED
    BY <1>2, <2>4, <2>5 DEF NewInv
<1>3. CASE StartScan
  <2>1. \A r \in Runs : scan'[r] # scan[r] => scan[r] = "absent"
    BY <1>3 DEF StartScan, TypeOK, RunsInv
  <2>2. signals' = signals /\ current' = current
    BY <1>3 DEF StartScan
  <2>3. QED
    BY <1>2, <2>1, <2>2 DEF NewInv
<1>4. ASSUME NEW t \in Runs, NEW s \in Stocks, ScanStock(t, s) PROVE NewInv'
  <2>1. UNCHANGED <<signals, current, scan>>
    BY <1>4 DEF ScanStock
  <2>2. QED
    BY <1>2, <2>1 DEF NewInv
<1>5. ASSUME NEW t \in Runs, NEW u \in Users, MakeSignal(t, u) PROVE NewInv'
  <2>1. current[t].users # {} /\ scan' = scan
    BY <1>5 DEF MakeSignal
  <2>2. \A x \in signals' : x \in signals \/ (x.run = t /\ x.stock = current[t].stock)
    BY <1>5 DEF MakeSignal
  <2>3. \A r \in Runs : current'[r].users # {} =>
           current'[r].stock = current[r].stock /\ current[r].users # {}
    BY <1>5, <2>1 DEF MakeSignal, TypeOK
  <2>4. QED
    BY <1>2, <2>1, <2>2, <2>3 DEF NewInv
<1>6. ASSUME NEW t \in Runs, FinishScan(t) PROVE NewInv'
  <2>1. signals' = signals /\ current' = current
    BY <1>6 DEF FinishScan
  <2>2. \A r \in Runs : current[r].users # {} => Making(r)'
    BY <1>6 DEF FinishScan, TypeOK, NewInv
  <2>3. QED
    BY <1>2, <2>1, <2>2 DEF NewInv
<1>7. ASSUME NEW t \in Runs, NextClassification(t) PROVE NewInv'
  <2>1. signals' = signals /\ current' = current /\ current[t].users = {}
    BY <1>7 DEF NextClassification, Idle
  <2>2. \A r \in Runs : current[r].users # {} => Making(r)'
    BY <1>7, <2>1 DEF NextClassification, TypeOK, NewInv
  <2>3. QED
    BY <1>2, <2>1, <2>2 DEF NewInv
<1>8. ASSUME NEW rs, End(rs) PROVE NewInv'
  <2>1. signals' = signals
    BY <1>8 DEF End
  <2>2. \A r \in Runs : current'[r].users # {} => current'[r] = current[r] /\ scan'[r] = scan[r]
    BY <1>8 DEF End, NoStock
  <2>3. QED
    BY <1>2, <2>1, <2>2 DEF NewInv
<1>9. CASE UNCHANGED vars
  <2>1. UNCHANGED <<signals, current, scan>>
    BY <1>9 DEF vars
  <2>2. QED
    BY <1>2, <2>1 DEF NewInv
<1>10. QED
  <2>1. ASSUME NEW t \in Runs, ScanStep(t) PROVE NewInv'
    BY <1>1, <1>4, <1>5, <1>6, <1>7, <2>1 DEF ScanStep
  <2>2. ASSUME NEW t \in Runs, ScanFails(t) PROVE NewInv'
    BY <1>8, <2>2 DEF ScanFails
  <2>3. CASE Crash
    BY <1>8, <2>3 DEF Crash
  <2>4. QED
    BY <1>3, <1>9, <2>1, <2>2, <2>3 DEF Next

\* What a run has left to do, or has done, of one stock; WorkInv says it of all.
Handled(r, s) ==
    \A u \in Users :
        \/ [run |-> r, stock |-> s, user |-> u] \in signals
        \/ current[r].stock = s /\ u \in current[r].users
Accounted(r, s) == Pending(r, s) \/ Previous(r, s) = class[r][s] \/ Handled(r, s)

LEMMA WorkInvStep ==
    ASSUME TypeOK, RunsInv, NewInv, WorkInv, [Next]_vars PROVE WorkInv'
<1> USE RunFacts
<1> SUFFICES ASSUME NEW r \in Runs, NEW s \in Stocks,
                    scan'[r] # "broken", Alone(r)', class'[r][s] \in Qualified
             PROVE  Accounted(r, s)'
  BY DEF WorkInv, Accounted, Handled
<1>1. Alone(r)
  BY Settled DEF Alone
<1>2. CASE scan[r] = "scanning"
  <2>1. CASE scan'[r] = "scanning"
    BY <2>1 DEF Accounted, Pending
  <2>2. CASE scan'[r] # "scanning"
    <3>1. FinishScan(r)
      BY <1>2, <2>2 DEF Next, ScanStep, ScanFails, Crash, vars, StartScan, ScanStock, LookAt,
                        MakeSignal, FinishScan, NextClassification, End, TypeOK, Active, RunsInv
    <3>2. class' = class
      BY <3>1 DEF FinishScan
    <3>3. CASE Users = {}
      BY <3>3 DEF Accounted, Handled
    <3>4. CASE Users # {}
      <4>1. scan'[r] = "calls" /\ todo'[r] = Rows(r, "CE_QUALIFIED")
        BY <3>1, <3>4 DEF FinishScan, TypeOK
      <4>2. QED
        BY <3>2, <4>1 DEF Accounted, Pending, Rows, Qualified
    <3>5. QED
      BY <3>3, <3>4
  <2>3. QED
    BY <2>1, <2>2
<1>3. CASE scan[r] = "absent"
  <2>1. class[r][s] = NoClass /\ class'[r] = class[r]
    BY <1>3, Settled DEF RunsInv
  <2>2. QED
    BY <2>1 DEF Qualified, NoClass
<1>4. CASE scan[r] \in {"calls", "puts", "done"}
  <2>1. class'[r] = class[r] /\ r <= started /\ class[r][s] \in Qualified
    BY <1>4, Settled DEF RunsInv, TypeOK
  <2>2. Previous(r, s)' = Previous(r, s)
    <3>1. ASSUME NEW q \in 1..(r - 1) PROVE class'[q][s] = class[q][s]
      <4>1. q \in Runs /\ q < r /\ <<q, r>> \notin overlaps
        BY <1>1 DEF Alone, Runs
      <4>2. Finished(q)
        BY <2>1, <4>1 DEF RunsInv
      <4>3. QED
        BY <4>1, <4>2, Settled DEF Finished
    <3>2. QED
      BY <3>1, PreviousStable
  <2>3. Accounted(r, s)
    BY <1>1, <1>4, <2>1 DEF WorkInv, Accounted, Handled
  <2>4. CASE Previous(r, s) = class[r][s]
    BY <2>1, <2>2, <2>4 DEF Accounted
  <2>5. ASSUME UNCHANGED <<scan[r], todo[r], current[r]>>, signals \subseteq signals'
        PROVE  Accounted(r, s)'
    <3>1. Pending(r, s) => Pending(r, s)'
      BY <2>1, <2>5 DEF Pending
    <3>2. Handled(r, s) => Handled(r, s)'
      BY <2>5 DEF Handled
    <3>3. QED
      BY <2>3, <2>4, <3>1, <3>2 DEF Accounted
  <2>6. CASE StartScan
    <3>1. UNCHANGED <<scan[r], todo[r], current[r], signals>>
      BY <2>1, <2>6 DEF StartScan, TypeOK
    <3>2. QED
      BY <2>5, <3>1
  <2>7. ASSUME NEW t \in Runs, NEW z \in Stocks, ScanStock(t, z) PROVE Accounted(r, s)'
    <3>1. UNCHANGED <<scan[r], todo[r], current[r], signals>>
      BY <1>4, <2>7 DEF ScanStock, TypeOK
    <3>2. QED
      BY <2>5, <3>1
  <2>8. ASSUME NEW t \in Runs, FinishScan(t) PROVE Accounted(r, s)'
    <3>1. UNCHANGED <<scan[r], todo[r], current[r], signals>>
      BY <1>4, <2>8 DEF FinishScan, TypeOK
    <3>2. QED
      BY <2>5, <3>1
  <2>9. ASSUME NEW t \in Runs, NEW z \in Stocks, LookAt(t, z) PROVE Accounted(r, s)'
    <3>1. CASE t # r
      <4>1. UNCHANGED <<scan[r], todo[r], current[r], signals>>
        BY <2>9, <3>1 DEF LookAt, TypeOK
      <4>2. QED
        BY <2>5, <4>1
    <3>2. CASE t = r
      <4>1. UNCHANGED <<scan, class, signals>> /\ current[r].users = {} /\ todo'[r] = todo[r] \ {z}
        BY <2>9, <3>2 DEF LookAt, Idle, TypeOK
      <4>2. CASE z = s
        <5>1. CASE Previous(r, s) # class[r][s]
          <6>1. current'[r] = [users |-> Users, stock |-> s]
            BY <2>9, <3>2, <4>2, <5>1 DEF LookAt, TypeOK
          <6>2. QED
            BY <6>1 DEF Accounted, Handled
        <5>2. QED
          BY <2>4, <5>1
      <4>3. CASE z # s
        <5>1. Pending(r, s) => Pending(r, s)'
          BY <4>1, <4>3 DEF Pending
        <5>2. Handled(r, s) => Handled(r, s)'
          BY <4>1 DEF Handled
        <5>3. QED
          BY <2>3, <2>4, <5>1, <5>2 DEF Accounted
      <4>4. QED
        BY <4>2, <4>3
    <3>3. QED
      BY <3>1, <3>2
  <2>10. ASSUME NEW t \in Runs, NEW u \in Users, MakeSignal(t, u) PROVE Accounted(r, s)'
    <3>1. UNCHANGED <<scan, todo, class>> /\ signals \subseteq signals'
      BY <2>10 DEF MakeSignal
    <3>2. CASE t # r
      <4>1. current'[r] = current[r]
        BY <2>10, <3>2 DEF MakeSignal, TypeOK
      <4>2. QED
        BY <2>5, <3>1, <4>1
    <3>3. CASE t = r
      <4>1. /\ current'[r].stock = current[r].stock
            /\ current'[r].users = current[r].users \ {u}
            /\ [run |-> r, stock |-> current[r].stock, user |-> u] \in signals'
        BY <2>10, <3>3 DEF MakeSignal, TypeOK
      <4>2. Pending(r, s) => Pending(r, s)'
        BY <3>1 DEF Pending
      <4>3. Handled(r, s) => Handled(r, s)'
        BY <3>1, <4>1 DEF Handled
      <4>4. QED
        BY <2>3, <2>4, <4>2, <4>3 DEF Accounted
    <3>4. QED
      BY <3>2, <3>3
  <2>11. ASSUME NEW t \in Runs, NextClassification(t) PROVE Accounted(r, s)'
    <3>1. CASE t # r
      <4>1. UNCHANGED <<scan[r], todo[r], current[r], signals>>
        BY <2>11, <3>1 DEF NextClassification, TypeOK
      <4>2. QED
        BY <2>5, <4>1
    <3>2. CASE t = r
      <4>1. UNCHANGED <<current, class, signals>> /\ todo[r] = {} /\ scan[r] \in {"calls", "puts"}
        BY <2>11, <3>2 DEF NextClassification
      <4>2. scan[r] = "calls" => scan'[r] = "puts" /\ todo'[r] = Rows(r, "PE_QUALIFIED")
        BY <2>11, <3>2 DEF NextClassification, TypeOK
      <4>3. Pending(r, s) => Pending(r, s)'
        BY <4>1, <4>2 DEF Pending, Rows
      <4>4. Handled(r, s) => Handled(r, s)'
        BY <4>1 DEF Handled
      <4>5. QED
        BY <2>3, <2>4, <4>3, <4>4 DEF Accounted
    <3>3. QED
      BY <3>1, <3>2
  <2>12. ASSUME NEW rs, End(rs) PROVE Accounted(r, s)'
    <3>1. r \notin rs
      BY <2>12 DEF End
    <3>2. UNCHANGED <<scan[r], todo[r], current[r], signals>>
      BY <2>12, <3>1 DEF End
    <3>3. QED
      BY <2>5, <3>2
  <2>13. CASE UNCHANGED vars
    <3>1. UNCHANGED <<scan[r], todo[r], current[r], signals>>
      BY <2>13 DEF vars
    <3>2. QED
      BY <2>5, <3>1
  <2>14. QED
    <3>1. ASSUME NEW t \in Runs, ScanStep(t) PROVE Accounted(r, s)'
      BY <2>7, <2>8, <2>9, <2>10, <2>11, <3>1 DEF ScanStep
    <3>2. ASSUME NEW t \in Runs, ScanFails(t) PROVE Accounted(r, s)'
      BY <2>12, <3>2 DEF ScanFails
    <3>3. CASE Crash
      BY <2>12, <3>3 DEF Crash
    <3>4. QED
      BY <2>6, <2>13, <3>1, <3>2, <3>3 DEF Next
<1>5. CASE scan[r] = "broken"
  BY <1>5, Settled
<1>6. QED
  BY <1>2, <1>3, <1>4, <1>5 DEF TypeOK, Stages

LEMMA ScanInit == ASSUME Init PROVE ScanInv
<1> USE RunFacts
<1>1. TypeOK
  BY UniverseAssumption DEF Init, TypeOK, Stages, NoStock
<1>2. RunsInv
  BY DEF Init, RunsInv, NoClass
<1>3. NewInv
  BY DEF Init, NewInv, NoStock
<1>4. WorkInv
  BY DEF Init, WorkInv, Qualified, NoClass
<1>5. QED
  BY <1>1, <1>2, <1>3, <1>4 DEF ScanInv

-----------------------------------------------------------------------------
(* The theorems.                                                            *)

(* The invariant: the rows, stages and signals of all scans agree in every  *)
(* reachable state (scanner.py:23-111, scanner_signals.py:23-46).           *)
THEOREM ScanHolds == Spec => []ScanInv
<1>1. ASSUME ScanInv, [Next]_vars PROVE ScanInv'
  BY <1>1, TypeStep, RunsInvStep, NewInvStep, WorkInvStep DEF ScanInv
<1>2. QED
  BY ScanInit, <1>1, PTL DEF Spec

(* A user gets a second signal of one period only of a run that was under   *)
(* way together with an earlier one of it (scanner_signals.py:36-45).       *)
THEOREM RepeatsMeanOverlaps == Spec => []RepeatMeansOverlap
<1>1. ASSUME ScanInv PROVE RepeatMeansOverlap
  <2> SUFFICES ASSUME NEW x \in signals, NEW y \in signals,
                      x.stock = y.stock, x.user = y.user, x.run < y.run,
                      SameStreak(x.run, y.run, x.stock)
               PROVE  \E q \in x.run..(y.run - 1) : <<q, y.run>> \in overlaps
    BY DEF RepeatMeansOverlap
  <2>1. New(x.run, x.stock) /\ New(y.run, y.stock)
    BY <1>1 DEF ScanInv, NewInv
  <2>2. x.run \in Nat /\ y.run \in Nat /\ x.run \in 1..(y.run - 1)
    BY <1>1 DEF ScanInv, TypeOK, Runs
  <2>3. class[x.run][x.stock] # NoClass
    BY <2>1 DEF New, Qualified, NoClass
  <2>4. QED
    BY <2>1, <2>2, <2>3 DEF New
<1>2. QED
  BY <1>1, ScanHolds, PTL

(* When the runs of a period were done, alone and unbroken, every user has  *)
(* a signal of it (scanner_signals.py:9-10).                                *)
THEOREM StreaksAreSignaled == Spec => []StreakIsSignaled
<1>1. ASSUME ScanInv PROVE StreakIsSignaled
  <2> SUFFICES ASSUME NEW r \in Runs, NEW s \in Stocks, NEW u \in Users,
                      class[r][s] \in Qualified,
                      \A q \in 1..r : InStreak(q, r, s) => scan[q] = "done" /\ Alone(q)
               PROVE  \E q \in 1..r : /\ InStreak(q, r, s)
                                      /\ [run |-> q, stock |-> s, user |-> u] \in signals
    BY DEF StreakIsSignaled
  <2> USE RunFacts
  <2> DEFINE T == {q \in 1..r : InStreak(q, r, s)}
  <2>1. T \subseteq Nat /\ r \in T
    BY DEF InStreak, SameStreak
  <2>2. PICK f \in T : \A q \in T : f <= q
    BY <2>1, HasLeast
  <2>3. f \in Runs /\ scan[f] = "done" /\ Alone(f) /\ class[f][s] = class[r][s]
    BY <2>2 DEF InStreak
  <2>4. Previous(f, s) # class[f][s]
    <3> SUFFICES ASSUME Previous(f, s) = class[f][s] PROVE FALSE
      OBVIOUS
    <3>1. Earlier(f, s) # {}
      BY <2>3 DEF Previous, Qualified, NoClass
    <3>2. PICK m \in 1..(f - 1) :
             /\ Previous(f, s) = class[m][s]
             /\ \A p \in (m + 1)..(f - 1) : class[p][s] = NoClass
      BY <1>1, <2>3, <3>1, PreviousRow DEF ScanInv
    <3>3. ASSUME NEW p \in m..r PROVE class[p][s] \in {class[r][s], NoClass}
      <4>1. p = m \/ p \in (m + 1)..(f - 1) \/ p \in f..r
        BY <2>3, <3>2
      <4>2. QED
        BY <2>2, <2>3, <3>2, <4>1 DEF InStreak, SameStreak
    <3>4. m \in T
      BY <2>3, <3>2, <3>3 DEF InStreak, SameStreak
    <3>5. QED
      BY <2>2, <3>2, <3>4
  <2>5. current[f].users = {}
    BY <1>1, <2>3 DEF ScanInv, NewInv
  <2>6. [run |-> f, stock |-> s, user |-> u] \in signals
    BY <1>1, <2>3, <2>4, <2>5 DEF ScanInv, WorkInv, Pending
  <2>7. QED
    BY <2>2, <2>6
<1>2. QED
  BY <1>1, ScanHolds, PTL
=============================================================================
