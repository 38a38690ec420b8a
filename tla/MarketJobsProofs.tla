-------------------------- MODULE MarketJobsProofs --------------------------
(* What the nightly jobs keep for any universe, downloads, days, requests, evaluations and faults: the lock admits one run
   at a time, so what is stored never goes back and a day's rows are one ranking's; a mark means saved data; a look-up's
   market is never older than its row; and the score it leads to is a percentage, the same as its mirror image's. *)
EXTENDS MarketJobs, TLAPS, FiniteSetTheorems, WellFoundedInduction

------------------------------------------------------------------------------
(* Instants and their order *)

LEMMA Reflexive == ASSUME NEW t \in Instant PROVE NotBefore(t, t)
BY SessionsAssumption DEF Instant, NotBefore

LEMMA Transitive ==
  ASSUME NEW s \in Instant, NEW t \in Instant, NEW u \in Instant, NotBefore(s, t), NotBefore(t, u)
  PROVE  NotBefore(s, u)
BY SessionsAssumption DEF Instant, NotBefore

LEMMA TickForward ==
  ASSUME clock \in Instant, Tick
  PROVE  clock' \in Instant /\ NotBefore(clock', clock) /\ clock.day <= clock'.day
<1>1. clock.day \in 0..MaxDay /\ clock.slot \in 0..MaxSlot /\ MaxDay \in Nat /\ MaxSlot \in Nat
  BY SessionsAssumption DEF Instant
<1>2. CASE clock.slot < MaxSlot
  BY <1>1, <1>2 DEF Tick, Instant, NotBefore
<1>3. CASE ~(clock.slot < MaxSlot)
  <2>1. clock.day # MaxDay
    BY <1>1, <1>3 DEF Tick, Instant
  <2>2. QED
    BY <1>1, <1>3, <2>1 DEF Tick, Instant, NotBefore
<1>4. QED
  BY <1>2, <1>3

LEMMA LessThan == \E R : /\ IsWellFoundedOn(R, Nat)
                         /\ \A x, y \in Nat : x < y => <<x, y>> \in R
<1>1. \A x, y \in Nat : x < y => <<x, y>> \in OpToRel(<, Nat)
  BY DEF OpToRel
<1>2. QED
  BY <1>1, NatLessThanWellFounded, Zenon

\* A set of days has a last one.
LEMMA LastDay == ASSUME NEW S \in SUBSET Days, S # {}
                 PROVE  \E d \in S : \A e \in S : e <= d
<1> DEFINE Left == {MaxDay - d : d \in S}
<1>1. MaxDay \in Nat /\ \A d \in S : d \in 0..MaxDay
  BY SessionsAssumption DEF Days
<1>2. Left \subseteq Nat /\ Left # {}
  BY <1>1
<1> HIDE DEF Left
<1>3. PICK R : IsWellFoundedOn(R, Nat) /\ \A x, y \in Nat : x < y => <<x, y>> \in R
  BY LessThan
<1>4. IsWellFoundedOn(R, Nat)
  BY <1>3
<1>5. PICK x \in Left : \A y \in Left : ~(<<y, x>> \in R)
  BY <1>2, <1>4, WFMin, Zenon
<1>6. PICK d \in S : x = MaxDay - d
  BY <1>5 DEF Left
<1>7. ASSUME NEW e \in S PROVE e <= d
  <2>1. MaxDay - e \in Left
    BY DEF Left
  <2>2. ~(MaxDay - e < x)
    BY <1>2, <1>3, <1>5, <2>1
  <2>3. QED
    BY <1>1, <1>6, <2>2
<1>8. QED
  BY <1>7

------------------------------------------------------------------------------
(* What is stored of a ranking *)

LEMMA RankingFields ==
  ASSUME NEW k \in Rankings
  PROVE  /\ k.seen \in Instant
         /\ StoredSummary(k).seen = k.seen /\ StoredSummary(k) # None
         /\ \A d \in Days : \A r \in StoredRows(k, d) : r.as_of = d /\ r.seen = k.seen /\ r # None
<1>1. PICK got \in Downloads, t \in Instant : k = Ranking(got, t)
  BY DEF Rankings
<1>2. k.seen \in Instant
  BY <1>1 DEF Ranking
<1>3. \A d \in Days : \A r \in StoredRows(k, d) : r.as_of = d /\ r.seen = k.seen
  BY DEF StoredRows
<1>4. StoredSummary(k).seen = k.seen
  BY DEF StoredSummary
<1>5. StoredSummary(k) # None /\ \A d \in Days : \A r \in StoredRows(k, d) : r # None
  BY NoneAssumption
<1>6. QED
  BY <1>2, <1>3, <1>4, <1>5

------------------------------------------------------------------------------
(* The invariant *)

RunState == [job : Jobs, pc : {"fetch", "save", "mark"}, ranking : Rankings \cup {None}, seen : Instant \cup {None},
             as_of : Days \cup {None}]
Summaries == {StoredSummary(k) : k \in Rankings}

TypeInv ==
  /\ clock \in Instant
  /\ todo \in [Callers -> Seq(Jobs)]
  /\ run \in [Callers -> RunState \cup {None}]
  /\ summary \in [Days -> Summaries \cup {None}]
  /\ interest \in [Days -> Instant \cup {None}]
  /\ done \in [Jobs -> Days \cup {None}]

\* The lock.
OneRun == \A c, d \in Callers : Running(c) /\ Running(d) => c = d

\* A run is of the first job its caller has to do.
Queued == \A c \in Callers : Running(c) => todo[c] # <<>>

\* Nothing stored is of the future, and later days have later data.
SummaryBy(t) == \A d \in Days : summary[d] # None => NotBefore(t, summary[d].seen)
InterestBy(t) == \A d \in Days : interest[d] # None => NotBefore(t, interest[d])
StoredInv ==
  /\ SummaryBy(clock) /\ InterestBy(clock)
  /\ \A d \in Days : summary[d] # None => d <= clock.day
  /\ \A d, e \in Days : summary[d] # None /\ summary[e] # None /\ d <= e => NotBefore(summary[e].seen, summary[d].seen)

\* What a run holds is no older than what is stored, and what it is about to mark is stored.
RunOk(r) ==
  /\ r.pc = "save" /\ r.job = Context =>
       r.ranking \in Rankings /\ NotBefore(clock, r.ranking.seen) /\ SummaryBy(r.ranking.seen)
  /\ r.pc = "save" /\ r.job = Interest => r.seen \in Instant /\ NotBefore(clock, r.seen) /\ InterestBy(r.seen)
  /\ r.pc = "mark" => /\ r.as_of \in Days
                      /\ r.job = Context => summary[r.as_of] # None
                      /\ r.job = Interest => interest[r.as_of] # None
RunInv == \A c \in Callers : Running(c) => RunOk(run[c])

\* A row, in the table or read from it, has a summary of its day that is no older.
Covered(r) ==
  /\ r # None /\ r.as_of \in Days /\ r.seen \in Instant
  /\ summary[r.as_of] # None /\ NotBefore(summary[r.as_of].seen, r.seen)
RowsInv == \A r \in stock : Covered(r)
LookupInv ==
  /\ lookup = [l \in Lookups |-> lookup[l]]
  /\ \A l \in Lookups : lookup[l] # None /\ lookup[l].row # None => Covered(lookup[l].row)

JobsInv == TypeInv /\ OneRun /\ Queued /\ StoredInv /\ RunInv /\ DoneMeansSaved /\ RowsInv /\ LookupInv

\* What a step may do to what is stored.
Forward ==
  \A d \in Days : /\ summary[d] # None => NotBefore(summary'[d].seen, summary[d].seen)
                  /\ interest[d] # None => NotBefore(interest'[d], interest[d])

LEMMA StoredTypes ==
  ASSUME TypeInv, NEW d \in Days
  PROVE  (summary[d] # None => summary[d].seen \in Instant) /\ (interest[d] # None => interest[d] \in Instant)
BY RankingFields DEF TypeInv, Summaries

LEMMA Still == ASSUME TypeInv, UNCHANGED <<summary, interest>> PROVE Forward
BY StoredTypes, Reflexive DEF Forward

------------------------------------------------------------------------------
(* Initially, and over the steps that leave runs and tables alone *)

LEMMA Initially == Init => JobsInv
<1> SUFFICES ASSUME Init PROVE JobsInv
  OBVIOUS
<1>1. TypeInv
  BY SessionsAssumption DEF Init, Start, Instant, TypeInv
<1>2. \A d \in Days : summary[d] = None /\ interest[d] = None
  BY DEF Init
<1>3. \A c \in Callers : ~Running(c)
  BY DEF Init, Running
<1>4. DoneMeansSaved
  BY DEF Init, DoneMeansSaved, Jobs
<1>5. StoredInv
  BY <1>2 DEF StoredInv, SummaryBy, InterestBy
<1>6. LookupInv /\ RowsInv
  BY DEF Init, LookupInv, RowsInv
<1>7. QED
  BY <1>1, <1>3, <1>4, <1>5, <1>6 DEF JobsInv, OneRun, Queued, RunInv

LEMMA Unmoved ==
  ASSUME JobsInv, todo' \in [Callers -> Seq(Jobs)], Queued',
         UNCHANGED <<clock, run, stock, summary, interest, done, lookup>>
  PROVE  JobsInv' /\ Forward
<1>1. TypeInv' /\ OneRun' /\ DoneMeansSaved'
  BY DEF JobsInv, TypeInv, OneRun, Running, DoneMeansSaved
<1>2. StoredInv'
  BY DEF JobsInv, StoredInv, SummaryBy, InterestBy
<1>3. RunInv'
  BY DEF JobsInv, RunInv, RunOk, Running, SummaryBy, InterestBy
<1>4. RowsInv' /\ LookupInv'
  BY DEF JobsInv, RowsInv, LookupInv, Covered
<1>5. Forward
  BY Still DEF JobsInv
<1>6. QED
  BY <1>1, <1>2, <1>3, <1>4, <1>5 DEF JobsInv

LEMMA TypedJobs == Context \in Jobs /\ Interest \in Jobs /\ Context # Interest /\ Loop \in Callers /\ DueJobs \in Seq(Jobs)
<1>1. Context \in Jobs /\ Interest \in Jobs /\ Context # Interest /\ Loop \in Callers
  BY DEF Jobs, Context, Interest, Callers
<1>2. <<>> \in Seq(Jobs) /\ <<Context>> \in Seq(Jobs) /\ <<Interest>> \in Seq(Jobs)
  BY <1>1
<1>3. \A s, t \in Seq(Jobs) : s \o t \in Seq(Jobs)
  OBVIOUS
<1>4. QED
  BY <1>1, <1>2, <1>3 DEF DueJobs

LEMMA LoopSteps ==
  ASSUME JobsInv,
         Boot \/ BootFails \/ LookForDueJobs \/ SkipJob \/ TryJob \/ RetryElapses \/ \E r \in Requests : Refresh(r)
  PROVE  JobsInv' /\ Forward
<1>1. todo \in [Callers -> Seq(Jobs)] /\ <<Context>> \in Seq(Jobs) /\ <<Context, Interest>> \in Seq(Jobs)
  BY TypedJobs DEF JobsInv, TypeInv
<1>2. ASSUME NEW c \in Callers, NEW jobs \in Seq(Jobs), todo' = [todo EXCEPT ![c] = jobs], jobs # <<>> \/ ~Running(c),
             UNCHANGED run
      PROVE  todo' \in [Callers -> Seq(Jobs)] /\ Queued'
  BY <1>1, <1>2 DEF JobsInv, Queued, Running
<1>3. ASSUME UNCHANGED <<todo, run>>
      PROVE  todo' \in [Callers -> Seq(Jobs)] /\ Queued'
  BY <1>1, <1>3 DEF JobsInv, Queued, Running
<1>4. CASE Boot
  <2>1. todo' = todo \/ todo' = [todo EXCEPT ![Loop] = <<Context>>]
    BY <1>4 DEF Boot
  <2>2. UNCHANGED <<clock, run, stock, summary, interest, done, lookup>>
    BY <1>4 DEF Boot
  <2>3. todo' \in [Callers -> Seq(Jobs)] /\ Queued'
    BY <1>1, <1>2, <1>3, <2>1, <2>2, TypedJobs
  <2>4. QED
    BY <2>2, <2>3, Unmoved
<1>5. CASE LookForDueJobs
  <2>1. ~Running(Loop)
    BY <1>5, TypedJobs DEF JobsInv, Queued, LookForDueJobs
  <2>2. todo' = [todo EXCEPT ![Loop] = DueJobs] /\ UNCHANGED <<clock, run, stock, summary, interest, done, lookup>>
    BY <1>5 DEF LookForDueJobs
  <2>3. todo' \in [Callers -> Seq(Jobs)] /\ Queued'
    BY <1>2, <2>1, <2>2, TypedJobs
  <2>4. QED
    BY <2>2, <2>3, Unmoved
<1>6. CASE SkipJob
  <2>1. todo' = [todo EXCEPT ![Loop] = Tail(todo[Loop])] /\ todo[Loop] # <<>> /\ ~Running(Loop)
    BY <1>6 DEF SkipJob
  <2>2. Tail(todo[Loop]) \in Seq(Jobs)
    BY <1>1, <2>1, TypedJobs
  <2>3. UNCHANGED <<clock, run, stock, summary, interest, done, lookup>>
    BY <1>6 DEF SkipJob
  <2>4. todo' \in [Callers -> Seq(Jobs)] /\ Queued'
    BY <1>2, <2>1, <2>2, <2>3, TypedJobs
  <2>5. QED
    BY <2>3, <2>4, Unmoved
<1>7. CASE TryJob \/ RetryElapses
  BY <1>3, <1>7, Unmoved DEF TryJob, RetryElapses
<1>8. ASSUME NEW r \in Requests, Refresh(r) PROVE JobsInv' /\ Forward
  <2>1. r \in Callers /\ <<Context, Interest>> # <<>>
    BY DEF Callers
  <2>2. todo' = [todo EXCEPT ![r] = <<Context, Interest>>] /\ UNCHANGED <<clock, run, stock, summary, interest, done, lookup>>
    BY <1>8 DEF Refresh
  <2>3. todo' \in [Callers -> Seq(Jobs)] /\ Queued'
    BY <1>1, <1>2, <2>1, <2>2
  <2>4. QED
    BY <2>2, <2>3, Unmoved
<1>9. CASE BootFails
  BY <1>3, <1>9, Unmoved DEF BootFails
<1>10. QED
  BY <1>4, <1>5, <1>6, <1>7, <1>8, <1>9

------------------------------------------------------------------------------
(* The steps of a run *)

\* A run changes its own state, and the tables stay.
LEMMA RunMoves ==
  ASSUME JobsInv, NEW c \in Callers, NEW s \in RunState \cup {None},
         run' = [run EXCEPT ![c] = s], todo' \in [Callers -> Seq(Jobs)],
         \A d \in Callers : todo'[d] = todo[d] \/ (d = c /\ s = None), todo[c] # <<>>,
         s # None => RunOk(s) /\ \A d \in Callers : Running(d) => d = c,
         UNCHANGED <<clock, stock, summary, interest, done, lookup>>
  PROVE  JobsInv' /\ Forward
<1>1. run \in [Callers -> RunState \cup {None}]
  BY DEF JobsInv, TypeInv
<1>2. TypeInv'
  BY <1>1 DEF JobsInv, TypeInv
<1>3. \A d \in Callers : run'[d] = IF d = c THEN s ELSE run[d]
  BY <1>1
<1>4. OneRun' /\ Queued'
  BY <1>3 DEF JobsInv, OneRun, Queued, Running
<1>5. \A r : RunOk(r) => RunOk(r)'
  BY DEF RunOk, SummaryBy, InterestBy
<1>6. RunInv'
  <2>1. SUFFICES ASSUME NEW d \in Callers, run'[d] # None PROVE RunOk(run[d])'
    BY DEF RunInv, Running
  <2>2. CASE d = c
    BY <1>3, <1>5, <2>1, <2>2
  <2>3. CASE d # c
    BY <1>3, <1>5, <2>1, <2>3 DEF JobsInv, RunInv, Running
  <2>4. QED
    BY <2>2, <2>3
<1>7. StoredInv' /\ DoneMeansSaved'
  BY DEF JobsInv, StoredInv, SummaryBy, InterestBy, DoneMeansSaved
<1>8. RowsInv' /\ LookupInv'
  BY DEF JobsInv, RowsInv, LookupInv, Covered
<1>9. Forward
  BY Still DEF JobsInv
<1>10. QED
  BY <1>2, <1>4, <1>6, <1>7, <1>8, <1>9 DEF JobsInv

LEMMA RunTypes ==
  ASSUME JobsInv, NEW c \in Callers, Running(c)
  PROVE  /\ run[c] \in RunState /\ RunOk(run[c]) /\ todo[c] # <<>>
         /\ \A d \in Callers : Running(d) => d = c
         /\ run \in [Callers -> RunState \cup {None}] /\ todo \in [Callers -> Seq(Jobs)] /\ clock \in Instant
         /\ clock.day \in Days
BY DEF JobsInv, TypeInv, Running, RunInv, OneRun, Queued, Instant, Days

LEMMA AcquireStep ==
  ASSUME JobsInv, NEW c \in Callers, Acquire(c)
  PROVE  JobsInv' /\ Forward
<1> DEFINE s == [job |-> Head(todo[c]), pc |-> "fetch", ranking |-> None, seen |-> None, as_of |-> None]
<1>1. todo \in [Callers -> Seq(Jobs)] /\ todo[c] # <<>>
  BY DEF JobsInv, TypeInv, Acquire, AtTheLock
<1>2. s \in RunState
  BY <1>1 DEF RunState
<1>3. RunOk(s)
  BY DEF RunOk
<1>4. \A d \in Callers : ~Running(d)
  BY DEF Acquire, Locked
<1>5. /\ run' = [run EXCEPT ![c] = s] /\ todo' = todo
      /\ UNCHANGED <<clock, stock, summary, interest, done, lookup>>
  BY DEF Acquire
<1> HIDE DEF s
<1>6. QED
  BY <1>1, <1>2, <1>3, <1>4, <1>5, RunMoves

LEMMA DownloadStep ==
  ASSUME JobsInv, NEW c \in Callers, Download(c)
  PROVE  JobsInv' /\ Forward
<1>1. PICK ranking \in Rankings :
        ranking.seen = clock /\ run' = [run EXCEPT ![c].pc = "save", ![c].ranking = ranking]
  BY DEF Download
<1>2. Running(c) /\ run[c].job = Context /\ UNCHANGED <<clock, todo, stock, summary, interest, done, lookup>>
  BY DEF Download
<1> DEFINE s == [run[c] EXCEPT !.pc = "save", !.ranking = ranking]
<1>3. s \in RunState /\ s.job = Context /\ s.pc = "save" /\ s.ranking = ranking
  BY <1>2, RunTypes DEF RunState
<1>4. run' = [run EXCEPT ![c] = s]
  BY <1>1, <1>2, RunTypes
<1>5. NotBefore(clock, clock) /\ SummaryBy(clock)
  BY Reflexive DEF JobsInv, TypeInv, StoredInv
<1> HIDE DEF s
<1>6. RunOk(s)
  BY <1>1, <1>3, <1>5, TypedJobs DEF RunOk
<1>7. QED
  BY <1>2, <1>3, <1>4, <1>6, RunTypes, RunMoves

LEMMA FetchInterestStep ==
  ASSUME JobsInv, NEW c \in Callers, FetchInterest(c)
  PROVE  JobsInv' /\ Forward
<1>1. /\ run' = [run EXCEPT ![c].pc = "save", ![c].seen = clock]
      /\ Running(c) /\ run[c].job = Interest /\ UNCHANGED <<clock, todo, stock, summary, interest, done, lookup>>
  BY DEF FetchInterest
<1> DEFINE s == [run[c] EXCEPT !.pc = "save", !.seen = clock]
<1>2. s \in RunState /\ s.job = Interest /\ s.pc = "save" /\ s.seen = clock
  BY <1>1, RunTypes DEF RunState
<1>3. run' = [run EXCEPT ![c] = s]
  BY <1>1, RunTypes
<1>4. NotBefore(clock, clock) /\ InterestBy(clock)
  BY Reflexive DEF JobsInv, TypeInv, StoredInv
<1> HIDE DEF s
<1>5. RunOk(s)
  BY <1>1, <1>2, <1>4, RunTypes, TypedJobs DEF RunOk
<1>6. QED
  BY <1>1, <1>2, <1>3, <1>5, RunTypes, RunMoves

LEMMA RunEndsStep ==
  ASSUME JobsInv, NEW c \in Callers, RunEnds(c)
  PROVE  JobsInv' /\ Forward
<1>1. /\ Running(c) /\ run' = [run EXCEPT ![c] = None] /\ todo' = [todo EXCEPT ![c] = Tail(@)]
      /\ UNCHANGED <<clock, stock, summary, interest, done, lookup>>
  BY DEF RunEnds
<1>2. todo' \in [Callers -> Seq(Jobs)]
  BY <1>1, RunTypes
<1>3. todo[c] # <<>> /\ \A d \in Callers : d # c => todo'[d] = todo[d]
  BY <1>1, RunTypes
<1>4. QED
  BY <1>1, <1>2, <1>3, RunMoves

------------------------------------------------------------------------------
(* The steps that write tables *)

\* Coverage lasts while summaries only go forward.
LEMMA StaysCovered ==
  ASSUME JobsInv, NEW r, Covered(r), \A d \in Days : summary'[d] = summary[d] \/ summary'[d] \in Summaries, Forward
  PROVE  Covered(r)'
<1>1. r.as_of \in Days /\ r.seen \in Instant /\ summary[r.as_of] # None /\ NotBefore(summary[r.as_of].seen, r.seen)
  BY DEF Covered
<1>2. summary[r.as_of].seen \in Instant
  BY <1>1, StoredTypes DEF JobsInv
<1>3. summary'[r.as_of] # None /\ summary'[r.as_of].seen \in Instant
  BY <1>1, <1>2, RankingFields DEF Summaries
<1>4. NotBefore(summary'[r.as_of].seen, summary[r.as_of].seen)
  BY <1>1 DEF Forward
<1>5. QED
  BY <1>1, <1>2, <1>3, <1>4, Transitive DEF Covered

LEMMA SaveContextStep ==
  ASSUME JobsInv, NEW c \in Callers, SaveContext(c)
  PROVE  JobsInv' /\ Forward
<1> DEFINE k == run[c].ranking
           today == clock.day
           s == [run[c] EXCEPT !.pc = "mark", !.as_of = today, !.ranking = None]
<1>1. Running(c) /\ run[c].pc = "save" /\ run[c].job = Context
  BY DEF SaveContext
<1>2. k \in Rankings /\ NotBefore(clock, k.seen) /\ SummaryBy(k.seen) /\ clock \in Instant /\ today \in Days
  BY <1>1, RunTypes DEF RunOk
<1>3. /\ stock' \subseteq stock \cup StoredRows(k, today)
      /\ summary' = [summary EXCEPT ![today] = StoredSummary(k)]
      /\ run' = [run EXCEPT ![c].pc = "mark", ![c].as_of = today, ![c].ranking = None]
      /\ UNCHANGED <<clock, todo, interest, done, lookup>>
  BY DEF SaveContext, Replaced, NewSummary
<1>4. k.seen \in Instant /\ StoredSummary(k).seen = k.seen /\ StoredSummary(k) \in Summaries /\ StoredSummary(k) # None
  BY <1>2, RankingFields DEF Summaries
<1>5. s \in RunState /\ s.job = Context /\ s.pc = "mark" /\ s.as_of = today /\ run' = [run EXCEPT ![c] = s]
  BY <1>1, <1>2, <1>3, RunTypes DEF RunState
<1> HIDE DEF s, k, today
<1>6. \A d \in Days : summary'[d] = IF d = today THEN StoredSummary(k) ELSE summary[d]
  BY <1>3 DEF JobsInv, TypeInv
<1>7. TypeInv'
  <2>1. run' \in [Callers -> RunState \cup {None}]
    BY <1>1, <1>5, RunTypes
  <2>2. summary' \in [Days -> Summaries \cup {None}]
    BY <1>3, <1>4 DEF JobsInv, TypeInv
  <2>3. QED
    BY <1>3, <2>1, <2>2 DEF JobsInv, TypeInv
<1>8. Forward
  <2>1. SUFFICES ASSUME NEW d \in Days
                 PROVE  /\ summary[d] # None => NotBefore(summary'[d].seen, summary[d].seen)
                        /\ interest[d] # None => NotBefore(interest'[d], interest[d])
    BY DEF Forward
  <2>2. interest[d] # None => NotBefore(interest'[d], interest[d])
    BY <1>3, StoredTypes, Reflexive DEF JobsInv
  <2>3. CASE d = today
    BY <1>2, <1>4, <1>6, <2>2, <2>3 DEF SummaryBy
  <2>4. CASE d # today
    BY <1>6, <2>2, <2>4, StoredTypes, Reflexive DEF JobsInv
  <2>5. QED
    BY <2>3, <2>4
<1>9. ASSUME NEW r, Covered(r) PROVE Covered(r)'
  BY <1>4, <1>6, <1>8, <1>9, StaysCovered
<1>10. RowsInv' /\ LookupInv'
  <2>1. ASSUME NEW r \in StoredRows(k, today) PROVE Covered(r)'
    BY <1>2, <1>4, <1>6, <2>1, RankingFields, Reflexive DEF Covered
  <2>2. QED
    BY <1>3, <1>9, <2>1 DEF JobsInv, RowsInv, LookupInv
<1>11. OneRun' /\ Queued' /\ RunInv'
  <2>1. run'[c] = s /\ \A d \in Callers : run'[d] # None => d = c
    BY <1>1, <1>5, RunTypes DEF Running
  <2>2. RunOk(run[c])'
    BY <1>2, <1>4, <1>5, <1>6, <2>1, TypedJobs DEF RunOk
  <2>3. todo'[c] # <<>>
    BY <1>1, <1>3, RunTypes
  <2>4. QED
    BY <2>1, <2>2, <2>3 DEF OneRun, Queued, RunInv, Running
<1>12. StoredInv'
  <2>1. \A d \in Days : summary[d] # None => d <= today
    BY DEF JobsInv, StoredInv, today
  <2>2. SummaryBy(clock)' /\ InterestBy(clock)' /\ \A d \in Days : summary'[d] # None => d <= clock'.day
    BY <1>2, <1>3, <1>4, <1>6, <2>1 DEF JobsInv, StoredInv, SummaryBy, InterestBy, Days, today
  <2>3. ASSUME NEW d \in Days, NEW e \in Days, summary'[d] # None, summary'[e] # None, d <= e
        PROVE  NotBefore(summary'[e].seen, summary'[d].seen)
    <3>1. CASE e = today /\ d = today
      BY <1>4, <1>6, <3>1, Reflexive
    <3>2. CASE e = today /\ d # today
      BY <1>2, <1>4, <1>6, <2>3, <3>2 DEF SummaryBy
    <3>3. CASE e # today
      <4>1. e <= today
        BY <1>6, <2>1, <2>3, <3>3
      <4>2. d # today
        BY <1>2, <2>3, <3>3, <4>1, SessionsAssumption DEF Days
      <4>3. QED
        BY <1>6, <2>3, <3>3, <4>2 DEF JobsInv, StoredInv
    <3>4. QED
      BY <3>1, <3>2, <3>3
  <2>4. QED
    BY <2>2, <2>3 DEF StoredInv
<1>13. DoneMeansSaved'
  BY <1>3, <1>4, <1>6, TypedJobs DEF JobsInv, TypeInv, DoneMeansSaved
<1>14. QED
  BY <1>7, <1>8, <1>10, <1>11, <1>12, <1>13 DEF JobsInv

LEMMA SaveInterestStep ==
  ASSUME JobsInv, NEW c \in Callers, SaveInterest(c)
  PROVE  JobsInv' /\ Forward
<1> DEFINE seen == run[c].seen
           today == clock.day
           s == [run[c] EXCEPT !.pc = "mark", !.as_of = today, !.seen = None]
<1>1. Running(c) /\ run[c].pc = "save" /\ run[c].job = Interest
  BY DEF SaveInterest
<1>2. seen \in Instant /\ NotBefore(clock, seen) /\ InterestBy(seen) /\ clock \in Instant /\ today \in Days
  BY <1>1, RunTypes DEF RunOk
<1>3. /\ interest' = [interest EXCEPT ![today] = seen]
      /\ run' = [run EXCEPT ![c].pc = "mark", ![c].as_of = today, ![c].seen = None]
      /\ UNCHANGED <<clock, todo, stock, summary, done, lookup>>
  BY DEF SaveInterest
<1>4. s \in RunState /\ s.job = Interest /\ s.pc = "mark" /\ s.as_of = today /\ run' = [run EXCEPT ![c] = s]
  BY <1>1, <1>2, <1>3, RunTypes DEF RunState
<1>5. seen # None
  BY <1>2, NoneAssumption
<1> HIDE DEF s, seen, today
<1>6. \A d \in Days : interest'[d] = IF d = today THEN seen ELSE interest[d]
  BY <1>3 DEF JobsInv, TypeInv
<1>7. TypeInv'
  <2>1. run' \in [Callers -> RunState \cup {None}]
    BY <1>1, <1>4, RunTypes
  <2>2. interest' \in [Days -> Instant \cup {None}]
    BY <1>2, <1>3 DEF JobsInv, TypeInv
  <2>3. QED
    BY <1>3, <2>1, <2>2 DEF JobsInv, TypeInv
<1>8. Forward
  BY <1>2, <1>3, <1>6, StoredTypes, Reflexive DEF JobsInv, Forward, InterestBy
<1>9. RowsInv' /\ LookupInv'
  BY <1>3 DEF JobsInv, RowsInv, LookupInv, Covered
<1>10. OneRun' /\ Queued' /\ RunInv'
  <2>1. run'[c] = s /\ \A d \in Callers : run'[d] # None => d = c
    BY <1>1, <1>4, RunTypes DEF Running
  <2>2. RunOk(run[c])'
    BY <1>2, <1>4, <1>5, <1>6, <2>1, TypedJobs DEF RunOk
  <2>3. todo'[c] # <<>>
    BY <1>1, <1>3, RunTypes
  <2>4. QED
    BY <2>1, <2>2, <2>3 DEF OneRun, Queued, RunInv, Running
<1>11. StoredInv'
  BY <1>2, <1>3, <1>6 DEF JobsInv, StoredInv, SummaryBy, InterestBy
<1>12. DoneMeansSaved'
  BY <1>3, <1>5, <1>6, TypedJobs DEF JobsInv, TypeInv, DoneMeansSaved
<1>13. QED
  BY <1>7, <1>8, <1>9, <1>10, <1>11, <1>12 DEF JobsInv

LEMMA MarkStep ==
  ASSUME JobsInv, NEW c \in Callers, Mark(c)
  PROVE  JobsInv' /\ Forward
<1>1. Running(c) /\ run[c].pc = "mark"
  BY DEF Mark
<1>2. /\ done' = [done EXCEPT ![run[c].job] = run[c].as_of]
      /\ todo' = [todo EXCEPT ![c] = Tail(@)] /\ run' = [run EXCEPT ![c] = None]
      /\ UNCHANGED <<clock, stock, summary, interest, lookup>>
  BY DEF Mark
<1>3. /\ run[c].as_of \in Days /\ run[c].job \in Jobs
      /\ run[c].job = Context => summary[run[c].as_of] # None
      /\ run[c].job = Interest => interest[run[c].as_of] # None
  BY <1>1, RunTypes DEF RunOk, RunState
<1>4. DoneMeansSaved'
  <2>1. \A j \in Jobs : done'[j] = IF j = run[c].job THEN run[c].as_of ELSE done[j]
    BY <1>2 DEF JobsInv, TypeInv
  <2>2. done'[Context] # None => summary'[done'[Context]] # None
    BY <1>2, <1>3, <2>1, TypedJobs DEF JobsInv, DoneMeansSaved
  <2>3. done'[Interest] # None => interest'[done'[Interest]] # None
    BY <1>2, <1>3, <2>1, TypedJobs DEF JobsInv, DoneMeansSaved
  <2>4. QED
    BY <2>2, <2>3 DEF DoneMeansSaved
<1>5. TypeInv'
  <2>1. todo' \in [Callers -> Seq(Jobs)] /\ run' \in [Callers -> RunState \cup {None}]
    BY <1>1, <1>2, RunTypes
  <2>2. done' \in [Jobs -> Days \cup {None}]
    BY <1>2, <1>3 DEF JobsInv, TypeInv
  <2>3. QED
    BY <1>2, <2>1, <2>2 DEF JobsInv, TypeInv
<1>6. OneRun' /\ Queued' /\ RunInv'
  BY <1>1, <1>2, RunTypes DEF OneRun, Queued, RunInv, Running
<1>7. StoredInv'
  BY <1>2 DEF JobsInv, StoredInv, SummaryBy, InterestBy
<1>8. RowsInv' /\ LookupInv' /\ Forward
  BY <1>2, Still DEF JobsInv, RowsInv, LookupInv, Covered
<1>9. QED
  BY <1>4, <1>5, <1>6, <1>7, <1>8 DEF JobsInv

------------------------------------------------------------------------------
(* The steps of the others *)

LEMMA LookupSteps == ASSUME JobsInv, LookupStep PROVE JobsInv' /\ Forward
<1>1. UNCHANGED <<clock, todo, run, stock, summary, interest, done>>
  BY DEF LookupStep, ReadRow, Evaluate
<1>2. TypeInv' /\ OneRun' /\ Queued' /\ DoneMeansSaved' /\ StoredInv' /\ RunInv'
  <2>1. TypeInv' /\ OneRun' /\ Queued' /\ DoneMeansSaved'
    BY <1>1 DEF JobsInv, TypeInv, OneRun, Queued, Running, DoneMeansSaved
  <2>2. StoredInv' /\ RunInv'
    BY <1>1 DEF JobsInv, StoredInv, RunInv, RunOk, Running, SummaryBy, InterestBy
  <2>3. QED
    BY <2>1, <2>2
<1>3. RowsInv' /\ Forward
  BY <1>1, Still DEF JobsInv, RowsInv, Covered
<1>4. \A r : Covered(r) => Covered(r)'
  BY <1>1 DEF Covered
<1>5. ASSUME NEW l \in Lookups, NEW symbol \in Asked, ReadRow(l, symbol)
      PROVE  LookupInv'
  <2> DEFINE mine == {r \in stock : r.symbol = symbol}
             row == IF mine = {} THEN None ELSE CHOOSE r \in mine : \A q \in mine : q.as_of <= r.as_of
  <2>1. lookup' = [lookup EXCEPT ![l] = [row |-> row]]
    BY <1>5 DEF ReadRow
  <2>2. mine # {} => row \in mine
    <3>1. SUFFICES ASSUME mine # {} PROVE \E r \in mine : \A q \in mine : q.as_of <= r.as_of
      OBVIOUS
    <3>2. {r.as_of : r \in mine} \in SUBSET Days /\ {r.as_of : r \in mine} # {}
      BY <3>1 DEF JobsInv, RowsInv, Covered
    <3>3. PICK d \in {r.as_of : r \in mine} : \A e \in {r.as_of : r \in mine} : e <= d
      BY <3>2, LastDay
    <3>4. QED
      BY <3>3
  <2>3. row # None => Covered(row)
    BY <2>2 DEF JobsInv, RowsInv
  <2> HIDE DEF row
  <2>4. \A m \in Lookups : lookup'[m] = IF m = l THEN [row |-> row] ELSE lookup[m]
    BY <2>1 DEF JobsInv, LookupInv
  <2>5. DOMAIN lookup' = Lookups
    BY <2>1 DEF JobsInv, LookupInv
  <2>6. ASSUME NEW m \in Lookups, lookup'[m] # None, lookup'[m].row # None PROVE Covered(lookup[m].row)'
    <3>1. CASE m = l
      <4>1. lookup'[m].row = row
        BY <2>4, <3>1
      <4>2. QED
        BY <1>1, <2>3, <2>6, <4>1 DEF Covered
    <3>2. CASE m # l
      <4>1. lookup'[m] = lookup[m]
        BY <2>4, <3>2
      <4>2. QED
        BY <1>1, <2>6, <4>1 DEF JobsInv, LookupInv, Covered
    <3>3. QED
      BY <3>1, <3>2
  <2>7. lookup' = [m \in Lookups |-> lookup'[m]]
    BY <2>1, <2>5 DEF JobsInv, LookupInv
  <2>8. QED
    BY <2>6, <2>7 DEF LookupInv
<1>6. ASSUME NEW l \in Lookups, Evaluate(l)
      PROVE  LookupInv'
  <2>1. lookup' = [lookup EXCEPT ![l] = None]
    BY <1>6 DEF Evaluate
  <2>2. QED
    BY <1>1, <2>1 DEF JobsInv, LookupInv, Covered
<1>7. LookupInv'
  BY <1>5, <1>6 DEF LookupStep
<1>8. QED
  BY <1>2, <1>3, <1>7 DEF JobsInv

LEMMA TimeStep == ASSUME JobsInv, TimePasses PROVE JobsInv' /\ Forward
<1>1. UNCHANGED <<todo, run, stock, summary, interest, done, lookup>> /\ Tick
  BY DEF TimePasses
<1>2. clock \in Instant /\ clock' \in Instant /\ NotBefore(clock', clock) /\ clock.day <= clock'.day
  BY <1>1, TickForward DEF JobsInv, TypeInv
<1>3. \A t \in Instant : NotBefore(clock, t) => NotBefore(clock', t)
  BY <1>2, Transitive
<1>4. TypeInv' /\ OneRun' /\ Queued' /\ DoneMeansSaved'
  BY <1>1, <1>2 DEF JobsInv, TypeInv, OneRun, Queued, Running, DoneMeansSaved
<1>5. StoredInv'
  <2>1. SummaryBy(clock)' /\ InterestBy(clock)'
    BY <1>1, <1>3, StoredTypes DEF JobsInv, StoredInv, SummaryBy, InterestBy
  <2>2. \A d \in Days : summary'[d] # None => d <= clock'.day
    BY <1>1, <1>2, SessionsAssumption DEF JobsInv, StoredInv, Days, Instant
  <2>3. QED
    BY <1>1, <2>1, <2>2 DEF JobsInv, StoredInv
<1>6. RunInv'
  <2>1. SUFFICES ASSUME NEW c \in Callers, Running(c) PROVE RunOk(run[c])'
    BY <1>1 DEF RunInv, Running
  <2>2. RunOk(run[c])
    BY <2>1, RunTypes
  <2>3. \A k \in Rankings : k.seen \in Instant
    BY RankingFields
  <2>4. QED
    BY <1>1, <1>3, <2>2, <2>3 DEF RunOk, SummaryBy, InterestBy
<1>7. RowsInv' /\ LookupInv' /\ Forward
  BY <1>1, Still DEF JobsInv, RowsInv, LookupInv, Covered
<1>8. QED
  BY <1>4, <1>5, <1>6, <1>7 DEF JobsInv

LEMMA RestartStep == ASSUME JobsInv, Restart PROVE JobsInv' /\ Forward
<1>1. /\ todo' = [c \in Callers |-> <<>>] /\ run' = [c \in Callers |-> None] /\ lookup' = [l \in Lookups |-> None]
      /\ UNCHANGED <<clock, stock, summary, interest, done>>
  BY DEF Restart
<1>2. TypeInv' /\ DoneMeansSaved'
  BY <1>1 DEF JobsInv, TypeInv, DoneMeansSaved
<1>3. OneRun' /\ Queued' /\ RunInv'
  BY <1>1 DEF OneRun, Queued, RunInv, Running
<1>4. StoredInv'
  BY <1>1 DEF JobsInv, StoredInv, SummaryBy, InterestBy
<1>5. RowsInv' /\ LookupInv' /\ Forward
  BY <1>1, Still DEF JobsInv, RowsInv, LookupInv, Covered
<1>6. QED
  BY <1>2, <1>3, <1>4, <1>5 DEF JobsInv

LEMMA OtherStep == ASSUME JobsInv, UNCHANGED <<clock, jobVars>> PROVE JobsInv' /\ Forward
<1>1. UNCHANGED <<clock, todo, run, stock, summary, interest, done, lookup>>
  BY DEF jobVars
<1>2. todo' \in [Callers -> Seq(Jobs)] /\ Queued'
  BY <1>1 DEF JobsInv, TypeInv, Queued, Running
<1>3. QED
  BY <1>1, <1>2, Unmoved

LEMMA Preserved == ASSUME JobsInv, [Next]_vars PROVE JobsInv' /\ Forward
<1>1. ASSUME NEW c \in Callers, RunStep(c) PROVE JobsInv' /\ Forward
  BY <1>1, AcquireStep, DownloadStep, SaveContextStep, FetchInterestStep, SaveInterestStep, MarkStep, RunEndsStep DEF RunStep
<1>2. CASE JobStep
  BY <1>1, <1>2, LoopSteps DEF JobStep
<1>3. CASE BrokerStep /\ UNCHANGED jobVars
  <2>1. UNCHANGED clock
    BY <1>3 DEF BrokerStep, SaveCredentials, StartCallback, FinishCallback, CallbackFails, PasteToken, Disconnect
  <2>2. QED
    BY <1>3, <2>1, OtherStep
<1>4. CASE UNCHANGED vars
  BY <1>4, OtherStep DEF vars
<1>5. QED
  BY <1>2, <1>3, <1>4, LookupSteps, TimeStep, RestartStep DEF Next

------------------------------------------------------------------------------
(* Theorems *)

\* The tables, the runs, what they hold and the marks agree at every step.
THEOREM JobsHold == Spec => []JobsInv
<1>1. JobsInv /\ [Next]_vars => JobsInv'
  BY Preserved
<1>2. QED
  BY Initially, <1>1, PTL DEF Spec

\* A job marked done for a day has its data of that day in the tables (market_context.py:198-201, 231-234).
THEOREM MarksAreTrue == Spec => []DoneMeansSaved
<1>1. JobsInv => DoneMeansSaved
  BY DEF JobsInv
<1>2. QED
  BY JobsHold, <1>1, PTL

\* Under the lock, what is stored of a day is never replaced by something fetched earlier (main.py:106-107).
THEOREM StoresGoForward == Spec => NeverGoesBack
<1>1. JobsInv /\ [Next]_vars => [Forward]_vars
  BY Preserved
<1>2. QED
  BY JobsHold, <1>1, PTL DEF Spec, NeverGoesBack, Forward

\* A row that was looked up never meets an older market (market_context.py:146-151).
THEOREM MarketsAreNotOlder == Spec => []SummaryNotOlder
<1>1. ASSUME JobsInv PROVE SummaryNotOlder
  <2>1. SUFFICES ASSUME NEW l \in Lookups, lookup[l] # None, lookup[l].row # None
                 PROVE  LatestSummary # None /\ NotBefore(LatestSummary.seen, lookup[l].row.seen)
    BY DEF SummaryNotOlder
  <2> DEFINE row == lookup[l].row
  <2>2. row.as_of \in Days /\ row.seen \in Instant /\ summary[row.as_of] # None /\ NotBefore(summary[row.as_of].seen, row.seen)
    BY <1>1, <2>1 DEF JobsInv, LookupInv, Covered
  <2>3. row.as_of \in SummaryDays /\ SummaryDays \in SUBSET Days
    BY <2>2 DEF SummaryDays
  <2>4. Latest(SummaryDays) \in SummaryDays /\ \A e \in SummaryDays : e <= Latest(SummaryDays)
    BY <2>3, LastDay DEF Latest
  <2> DEFINE last == Latest(SummaryDays)
  <2> HIDE DEF last
  <2>5. last \in Days /\ summary[last] # None /\ row.as_of <= last /\ LatestSummary = summary[last]
    BY <2>3, <2>4 DEF SummaryDays, LatestSummary, last
  <2>6. NotBefore(summary[last].seen, summary[row.as_of].seen)
    BY <1>1, <2>2, <2>5 DEF JobsInv, StoredInv
  <2>7. summary[last].seen \in Instant /\ summary[row.as_of].seen \in Instant
    BY <1>1, <2>2, <2>5, StoredTypes DEF JobsInv
  <2>8. QED
    BY <2>2, <2>5, <2>6, <2>7, Transitive
<1>2. QED
  BY JobsHold, <1>1, PTL

------------------------------------------------------------------------------
(* What a ranking is made of *)

LEMMA RoundedType == ASSUME NEW n \in Int, NEW d \in Nat \ {0} PROVE Rounded(n, d) \in Int
BY DEF Rounded

\* A percentile rank is one of 1 to 99, whatever ties and however small the universe.
LEMMA PercentileBounds ==
  ASSUME NEW returns, IsFiniteSet(DOMAIN returns), NEW s \in DOMAIN returns
  PROVE  Percentile(returns, s) \in 1..99
<1> DEFINE n     == Cardinality(DOMAIN returns)
           below == Cardinality({t \in DOMAIN returns : returns[t] < returns[s]})
           equal == Cardinality({t \in DOMAIN returns : returns[t] = returns[s]})
           place == Rounded(2 * (n - 1) + 98 * (2 * below + equal - 1), 2 * (n - 1))
<1>1. n \in Nat /\ n # 0
  BY FS_CardinalityType, FS_EmptySet
<1>2. below \in Nat /\ equal \in Nat
  BY FS_Subset, FS_CardinalityType
<1>3. Percentile(returns, s) = IF n = 1 THEN 50 ELSE IF place < 1 THEN 1 ELSE IF place > 99 THEN 99 ELSE place
  BY DEF Percentile
<1>4. n # 1 => place \in Int
  <2> HIDE DEF n, below, equal
  <2>1. SUFFICES ASSUME n # 1 PROVE place \in Int
    OBVIOUS
  <2>2. 2 * (n - 1) \in Nat \ {0} /\ 2 * (n - 1) + 98 * (2 * below + equal - 1) \in Int
    BY <1>1, <1>2, <2>1
  <2>3. QED
    BY <2>2, RoundedType
<1> HIDE DEF place, n
<1>5. QED
  BY <1>3, <1>4

\* The rows of a ranking: of symbols of the universe, each with a rank and a stage.
LEMMA RankingRows ==
  ASSUME NEW k \in Rankings, NEW r \in k.rows
  PROVE  r.symbol \in DOMAIN Sector /\ r.rs \in 1..99 /\ r.stage \in 1..4
<1>1. PICK got \in Downloads, t \in Instant : k = Ranking(got, t)
  BY DEF Rankings
<1> DEFINE closes  == [s \in got |-> Closes(t)[s]]
           returns == [s \in {u \in DOMAIN closes : closes[u].long} |-> closes[s].ret]
<1>2. k.rows = Ranked(closes)
  BY <1>1 DEF Ranking
<1>3. PICK s \in DOMAIN returns :
        r = [symbol |-> s, rs |-> Percentile(returns, s), stage |-> Stage(closes[s]), ext |-> closes[s].ext]
  BY <1>2 DEF Ranked
<1>4. DOMAIN returns \subseteq got /\ got \subseteq DOMAIN Sector /\ IsFiniteSet(DOMAIN returns)
  BY DownloadsAssumption, FS_Subset
<1>5. Percentile(returns, s) \in 1..99
  BY <1>4, PercentileBounds
<1>6. Stage(closes[s]) \in 1..4
  BY DEF Stage
<1>7. QED
  BY <1>3, <1>4, <1>5, <1>6

------------------------------------------------------------------------------
(* The day's snapshot *)

\* A run that saves replaces the day's rows and summary; nothing else writes either.
LEMMA SnapshotStep == ASSUME JobsInv, SnapshotWhole, [Next]_vars PROVE SnapshotWhole'
<1>1. ASSUME NEW c \in Callers, SaveContext(c) PROVE SnapshotWhole'
  <2> DEFINE k == run[c].ranking
             today == clock.day
  <2>1. Running(c) /\ run[c].pc = "save" /\ run[c].job = Context /\ Enough(k.rows)
    BY <1>1 DEF SaveContext
  <2>2. k \in Rankings /\ today \in Days
    BY <2>1, RunTypes DEF RunOk
  <2>3. /\ stock' = {r \in stock : r.as_of # today} \cup StoredRows(k, today)
        /\ summary' = [summary EXCEPT ![today] = StoredSummary(k)]
    BY <1>1 DEF SaveContext, Replaced, NewSummary
  <2>4. \A r \in StoredRows(k, today) : r.as_of = today
    BY <2>2, RankingFields
  <2>5. StoredSummary(k) # None
    BY <2>2, RankingFields
  <2> HIDE DEF k, today
  <2>6. \A d \in Days : summary'[d] = IF d = today THEN StoredSummary(k) ELSE summary[d]
    BY <2>3 DEF JobsInv, TypeInv
  <2>7. ASSUME NEW d \in Days, d = today PROVE RowsOn(d)' = StoredRows(k, d)
    <3>1. \A r : r \in stock' /\ r.as_of = d <=> r \in StoredRows(k, d)
      BY <2>3, <2>4, <2>7
    <3>2. QED
      BY <3>1, <2>3 DEF RowsOn
  <2>8. ASSUME NEW d \in Days, d # today PROVE RowsOn(d)' = RowsOn(d)
    <3>1. \A r : r \in stock' /\ r.as_of = d <=> r \in stock /\ r.as_of = d
      BY <2>3, <2>4, <2>8
    <3>2. QED
      BY <3>1 DEF RowsOn
  <2>9. SUFFICES ASSUME NEW d \in Days
                 PROVE  IF summary'[d] = None THEN RowsOn(d)' = {}
                        ELSE \E j \in Rankings : /\ Cardinality(j.rows) >= MinRanked
                                                 /\ summary'[d] = StoredSummary(j)
                                                 /\ RowsOn(d)' = StoredRows(j, d)
    BY DEF SnapshotWhole
  <2>10. CASE d = today
    <3>1. Cardinality(k.rows) >= MinRanked
      BY <2>1 DEF Enough
    <3>2. summary'[d] # None /\ summary'[d] = StoredSummary(k) /\ RowsOn(d)' = StoredRows(k, d)
      BY <2>5, <2>6, <2>7, <2>10
    <3>3. QED
      BY <2>2, <3>1, <3>2
  <2>11. CASE d # today
    BY <2>6, <2>8, <2>11 DEF SnapshotWhole
  <2>12. QED
    BY <2>10, <2>11
<1>2. CASE UNCHANGED <<stock, summary>>
  BY <1>2 DEF SnapshotWhole, RowsOn
<1>3. ASSUME NEW c \in Callers, RunStep(c), ~SaveContext(c) PROVE UNCHANGED <<stock, summary>>
  BY <1>3 DEF RunStep, Acquire, Download, FetchInterest, SaveInterest, Mark, RunEnds
<1>4. CASE JobStep
  BY <1>1, <1>2, <1>3, <1>4 DEF JobStep, Boot, BootFails, LookForDueJobs, SkipJob, TryJob, RetryElapses, Refresh
<1>5. QED
  BY <1>2, <1>4 DEF Next, vars, jobVars, LookupStep, ReadRow, Evaluate, TimePasses, Restart

LEMMA SnapshotInit == ASSUME Init PROVE SnapshotWhole
BY DEF Init, SnapshotWhole, RowsOn

\* Whatever runs, refreshes, failures and crashes came before, the rows of a day are those of one ranking that had
\* enough of them, and the day's summary is the same ranking's (db.py:2430-2460, "Replaces ... atomically").
THEOREM SnapshotsAreWhole == Spec => []SnapshotWhole
<1>1. JobsInv /\ SnapshotWhole /\ [Next]_vars => SnapshotWhole'
  BY SnapshotStep
<1>2. Init => SnapshotWhole
  BY SnapshotInit
<1>3. QED
  BY JobsHold, <1>1, <1>2, PTL DEF Spec

------------------------------------------------------------------------------
(* Types *)

LEMMA BrokerTypes == ASSUME BrokerTypeOK, BrokerStep PROVE BrokerTypeOK'
<1> USE SessionsAssumption
<1>1. /\ clock \in Instant /\ accounts \in [Users -> [Brokers -> Accounts \cup {None}]]
      /\ login \in [Users -> [broker : Brokers \ Pasted, read : Accounts] \cup {None}]
      /\ logins \in 0..MaxLogins
  BY DEF BrokerTypeOK
<1>2. ASSUME NEW u \in Users, NEW b \in Brokers, NEW a \in Accounts, accounts' = [accounts EXCEPT ![u][b] = a]
      PROVE  accounts' \in [Users -> [Brokers -> Accounts \cup {None}]]
  BY <1>1, <1>2
<1>3. /\ Start \in Instant
      /\ \A a \in Accounts, key \in Keys, x \in BOOLEAN : [a EXCEPT !.key = key, !.connected = x] \in Accounts
      /\ \A a \in Accounts, x \in BOOLEAN : [a EXCEPT !.connected = x] \in Accounts
      /\ \A a \in Accounts : a.token \in BOOLEAN
  <2>1. Start \in Instant
    BY DEF Start, Instant
  <2>2. \A a \in Accounts, key \in Keys, x \in BOOLEAN : [a EXCEPT !.key = key, !.connected = x] \in Accounts
    BY DEF Accounts
  <2>3. \A a \in Accounts, x \in BOOLEAN : [a EXCEPT !.connected = x] \in Accounts
    BY DEF Accounts
  <2>4. \A a \in Accounts : a.token \in BOOLEAN
    BY DEF Accounts
  <2>5. QED
    BY <2>1, <2>2, <2>3, <2>4
<1>4. ASSUME NEW u \in Users, NEW b \in Brokers, SaveCredentials(u, b)
      PROVE  BrokerTypeOK'
  <2>1. PICK key \in Keys :
          accounts' = [accounts EXCEPT ![u][b] = IF accounts[u][b] = None THEN NewAccount(key)
                                    ELSE [accounts[u][b] EXCEPT !.key = key, !.connected = accounts[u][b].token]]
    BY <1>4 DEF SaveCredentials
  <2>2. NewAccount(key) \in Accounts
    BY <1>3 DEF NewAccount, Accounts
  <2>3. accounts[u][b] # None => [accounts[u][b] EXCEPT !.key = key, !.connected = accounts[u][b].token] \in Accounts
    <3>1. accounts[u][b] # None => accounts[u][b] \in Accounts
      BY <1>1
    <3>2. QED
      BY <1>3, <3>1
  <2>4. accounts' \in [Users -> [Brokers -> Accounts \cup {None}]]
    BY <1>2, <2>1, <2>2, <2>3
  <2>5. QED
    BY <1>1, <1>4, <2>4 DEF SaveCredentials, BrokerTypeOK
<1>5. ASSUME NEW u \in Users, NEW b \in Brokers, StartCallback(u, b)
      PROVE  BrokerTypeOK'
  <2>1. [broker |-> b, read |-> accounts[u][b]] \in [broker : Brokers \ Pasted, read : Accounts]
    BY <1>1, <1>5 DEF StartCallback
  <2>2. login' \in [Users -> [broker : Brokers \ Pasted, read : Accounts] \cup {None}]
    BY <1>1, <1>5, <2>1 DEF StartCallback
  <2>3. QED
    BY <1>1, <1>5, <2>2 DEF StartCallback, BrokerTypeOK
<1>6. ASSUME NEW u \in Users, FinishCallback(u)
      PROVE  BrokerTypeOK'
  <2> DEFINE a == [login[u].read EXCEPT !.token = TRUE, !.since = [clock EXCEPT !.slot = 0], !.connected = TRUE]
  <2>1. login[u].read \in Accounts /\ login[u].broker \in Brokers
    BY <1>1, <1>6 DEF FinishCallback
  <2>2. [clock EXCEPT !.slot = 0] \in Instant
    BY <1>1 DEF Instant
  <2>3. a \in Accounts
    BY <2>1, <2>2 DEF Accounts
  <2>4. accounts' = [accounts EXCEPT ![u][login[u].broker] = a]
    BY <1>6 DEF FinishCallback
  <2>5. accounts' \in [Users -> [Brokers -> Accounts \cup {None}]]
    BY <1>2, <2>1, <2>3, <2>4
  <2>6. QED
    BY <1>1, <1>6, <2>5 DEF FinishCallback, BrokerTypeOK
<1>7. ASSUME NEW u \in Users, CallbackFails(u) PROVE BrokerTypeOK'
  BY <1>1, <1>7 DEF CallbackFails, BrokerTypeOK
<1>8. ASSUME NEW u \in Users, NEW b \in Brokers, PasteToken(u, b)
      PROVE  BrokerTypeOK'
  <2>1. PICK key \in Keys :
          accounts' = [accounts EXCEPT ![u][b] = [key |-> key, token |-> TRUE, since |-> clock, connected |-> TRUE]]
    BY <1>8 DEF PasteToken
  <2>2. [key |-> key, token |-> TRUE, since |-> clock, connected |-> TRUE] \in Accounts
    BY <1>1 DEF Accounts
  <2>3. accounts' \in [Users -> [Brokers -> Accounts \cup {None}]]
    BY <1>2, <2>1, <2>2
  <2>4. QED
    BY <1>1, <1>8, <2>3 DEF PasteToken, BrokerTypeOK
<1>9. ASSUME NEW u \in Users, NEW b \in Brokers, Disconnect(u, b)
      PROVE  BrokerTypeOK'
  <2>1. accounts' = [accounts EXCEPT ![u][b] = [accounts[u][b] EXCEPT !.connected = FALSE]] /\ accounts[u][b] # None
    BY <1>1, <1>9 DEF Disconnect
  <2>2. [accounts[u][b] EXCEPT !.connected = FALSE] \in Accounts
    <3>1. accounts[u][b] \in Accounts /\ FALSE \in BOOLEAN
      BY <1>1, <2>1
    <3>2. QED
      BY <1>3, <3>1
  <2>3. accounts' \in [Users -> [Brokers -> Accounts \cup {None}]]
    BY <1>2, <2>1, <2>2
  <2>4. QED
    BY <1>1, <1>9, <2>3 DEF Disconnect, BrokerTypeOK
<1>10. QED
  BY <1>4, <1>5, <1>6, <1>7, <1>8, <1>9 DEF BrokerStep

\* What the loop remembers besides its jobs.
LoopTypes ==
  /\ BrokerTypeOK
  /\ trying \in BOOLEAN /\ booted \in {"no", "yes", "lost"} /\ attempted \in Seq(Jobs)
  /\ refreshes \subseteq Requests /\ faults \in 0..MaxFaults

LEMMA LoopTypesStep == ASSUME JobsInv, LoopTypes, [Next]_vars PROVE LoopTypes'
<1> USE JobsAssumption
<1>1. /\ BrokerTypeOK /\ trying \in BOOLEAN /\ booted \in {"no", "yes", "lost"} /\ attempted \in Seq(Jobs)
      /\ refreshes \subseteq Requests /\ faults \in 0..MaxFaults /\ todo \in [Callers -> Seq(Jobs)]
  BY DEF LoopTypes, JobsInv, TypeInv
<1>2. ASSUME UNCHANGED <<clock, brokerVars>>, trying' \in BOOLEAN, booted' \in {"no", "yes", "lost"}, attempted' \in Seq(Jobs),
             refreshes' \subseteq Requests, faults' \in 0..MaxFaults
      PROVE  LoopTypes'
  BY <1>1, <1>2 DEF LoopTypes, BrokerTypeOK, brokerVars
<1>3. CASE Boot \/ BootFails \/ LookForDueJobs \/ SkipJob
  <2>1. CASE Boot \/ LookForDueJobs \/ SkipJob
    BY <1>1, <1>2, <2>1 DEF Boot, LookForDueJobs, SkipJob
  <2>2. CASE BootFails
    <3>1. faults' \in 0..MaxFaults
      BY <1>1, <2>2 DEF BootFails
    <3>2. UNCHANGED <<clock, brokerVars, trying, attempted, refreshes>> /\ booted' = "lost"
      BY <2>2 DEF BootFails
    <3>3. QED
      BY <1>1, <1>2, <3>1, <3>2
  <2>3. QED
    BY <1>3, <2>1, <2>2
<1>4. CASE TryJob
  <2>1. Head(todo[Loop]) \in Jobs
    BY <1>1, <1>4, TypedJobs DEF TryJob
  <2>2. attempted' \in Seq(Jobs)
    BY <1>1, <1>4, <2>1 DEF TryJob
  <2>3. QED
    BY <1>1, <1>2, <1>4, <2>2 DEF TryJob
<1>5. CASE RetryElapses
  <2>1. attempted' \in Seq(Jobs)
    BY <1>1, <1>5 DEF RetryElapses
  <2>2. QED
    BY <1>1, <1>2, <1>5, <2>1 DEF RetryElapses
<1>6. CASE \E r \in Requests : Refresh(r)
  BY <1>1, <1>2, <1>6 DEF Refresh
<1>7. ASSUME NEW c \in Callers, RunStep(c) PROVE LoopTypes'
  <2>1. CASE Acquire(c) \/ SaveContext(c) \/ FetchInterest(c) \/ SaveInterest(c) \/ Mark(c)
    BY <1>1, <1>2, <2>1 DEF Acquire, SaveContext, FetchInterest, SaveInterest, Mark
  <2>2. CASE Download(c)
    BY <1>1, <1>2, <2>2 DEF Download
  <2>3. CASE RunEnds(c)
    BY <1>1, <1>2, <2>3 DEF RunEnds
  <2>4. QED
    BY <1>7, <2>1, <2>2, <2>3 DEF RunStep
<1>8. CASE LookupStep
  BY <1>1, <1>2, <1>8 DEF LookupStep, ReadRow, Evaluate
<1>9. CASE TimePasses
  <2>1. clock' \in Instant
    BY <1>1, <1>9, TickForward DEF TimePasses, BrokerTypeOK
  <2>2. BrokerTypeOK'
    BY <1>1, <1>9, <2>1 DEF TimePasses, BrokerTypeOK, brokerVars
  <2>3. attempted' \in Seq(Jobs)
    BY <1>9 DEF TimePasses
  <2>4. QED
    BY <1>1, <1>9, <2>2, <2>3 DEF TimePasses, LoopTypes
<1>10. CASE BrokerStep /\ UNCHANGED jobVars
  BY <1>1, <1>10, BrokerTypes DEF jobVars, LoopTypes
<1>11. CASE Restart
  <2>1. BrokerTypeOK'
    BY <1>1, <1>11 DEF Restart, BrokerTypeOK
  <2>2. trying' \in BOOLEAN /\ booted' \in {"no", "yes", "lost"}
    BY <1>11 DEF Restart
  <2>3. faults' \in 0..MaxFaults /\ attempted' \in Seq(Jobs) /\ refreshes' \subseteq Requests
    BY <1>1, <1>11 DEF Restart
  <2>4. QED
    BY <2>1, <2>2, <2>3 DEF LoopTypes
<1>12. CASE UNCHANGED vars
  BY <1>1, <1>2, <1>12 DEF vars, jobVars
<1>13. QED
  BY <1>3, <1>4, <1>5, <1>6, <1>7, <1>8, <1>9, <1>10, <1>11, <1>12 DEF Next, JobStep

LEMMA LoopTypesInit == ASSUME Init PROVE LoopTypes
<1>1. Start \in Instant /\ 0 \in 0..MaxFaults /\ 0 \in 0..MaxLogins
  BY SessionsAssumption, JobsAssumption DEF Start, Instant
<1>2. trying \in BOOLEAN /\ booted \in {"no", "yes", "lost"}
  BY DEF Init
<1>3. BrokerTypeOK
  BY <1>1 DEF Init, BrokerInit, BrokerTypeOK
<1>4. faults \in 0..MaxFaults /\ attempted \in Seq(Jobs) /\ refreshes \subseteq Requests
  BY <1>1 DEF Init
<1>5. QED
  BY <1>2, <1>3, <1>4 DEF LoopTypes

\* Types: every variable of MarketJobs keeps its type; each stored row is of a day, with a rank of 1 to 99 and a stage.
THEOREM JobsAreTyped == Spec => []TypeOK
<1>1. ASSUME JobsInv, SnapshotWhole, LoopTypes PROVE TypeOK
  <2>1. \A c \in Callers : Running(c) => run[c].job \in Jobs /\ run[c].pc \in {"fetch", "save", "mark"}
    BY <1>1, RunTypes DEF RunState
  <2>2. ASSUME NEW r \in stock PROVE r.as_of \in Days /\ r.rs \in 1..99 /\ r.stage \in 1..4
    <3>1. r.as_of \in Days /\ summary[r.as_of] # None
      BY <1>1 DEF JobsInv, RowsInv, Covered
    <3>2. r \in RowsOn(r.as_of)
      BY DEF RowsOn
    <3>3. PICK k \in Rankings : RowsOn(r.as_of) = StoredRows(k, r.as_of)
      BY <1>1, <3>1 DEF SnapshotWhole
    <3>4. PICK q \in k.rows : r.rs = q.rs /\ r.stage = q.stage
      BY <3>2, <3>3 DEF StoredRows
    <3>5. QED
      BY <3>1, <3>4, RankingRows
  <2>3. QED
    BY <1>1, <2>1, <2>2 DEF TypeOK, LoopTypes, JobsInv, TypeInv
<1>2. JobsInv /\ LoopTypes /\ [Next]_vars => LoopTypes'
  BY LoopTypesStep
<1>3. Init => LoopTypes
  BY LoopTypesInit
<1>4. QED
  BY JobsHold, SnapshotsAreWhole, <1>1, <1>2, <1>3, PTL DEF Spec

------------------------------------------------------------------------------
(* Whole numbers *)

LEMMA DivMod ==
  ASSUME NEW n \in Nat, NEW d \in Nat \ {0}
  PROVE  /\ n \div d \in Nat /\ n % d \in 0..(d - 1)
         /\ n = (n \div d) * d + (n % d)
<1>1. n \div d \in Nat
  OBVIOUS
<1>2. n % d \in 0..(d - 1)
  OBVIOUS
<1>3. n = (n \div d) * d + (n % d)
  OBVIOUS
<1>4. QED
  BY <1>1, <1>2, <1>3

\* A share of a whole, rounded, is no more than the whole's points.
LEMMA RoundedShare ==
  ASSUME NEW n \in Nat, NEW d \in Nat \ {0}, NEW most \in Nat, n <= most * d
  PROVE  Rounded(n, d) \in 0..most
<1> DEFINE q == n \div d
           m == n % d
<1>1. q \in Nat /\ m \in 0..(d - 1) /\ n = q * d + m
  BY DivMod
<1>2. Rounded(n, d) = IF 2 * m > d \/ (2 * m = d /\ q % 2 = 1) THEN q + 1 ELSE q
  BY DEF Rounded
<1> HIDE DEF q, m
<1>3. ASSUME NEW k \in Nat, k > most PROVE k * d >= most * d + d
  <2>1. PICK j \in Nat : k = most + 1 + j
    <3>1. k - most - 1 \in Nat
      BY <1>3
    <3>2. k = most + 1 + (k - most - 1)
      BY <1>3
    <3>3. QED
      BY <3>1, <3>2
  <2>2. k * d = most * d + d + j * d /\ j * d \in Nat
    BY <2>1
  <2>3. most * d \in Nat
    OBVIOUS
  <2>4. QED
    BY <2>2, <2>3
<1>4. most * d \in Nat /\ q * d \in Nat
  BY <1>1
<1>5. q <= most
  BY <1>1, <1>3, <1>4
<1>6. q = most => m = 0
  BY <1>1, <1>4
<1>7. QED
  BY <1>1, <1>2, <1>5, <1>6

\* ... and so is a share of a maximum, in any unit.
LEMMA ShareOf ==
  ASSUME NEW p \in Nat, NEW whole \in Nat \ {0}, NEW unit \in Nat, p <= whole
  PROVE  Rounded(unit * p, whole) \in 0..unit
<1> DEFINE n == unit * p
<1>1. n \in Nat /\ n <= unit * whole
  <2>1. PICK rest \in Nat : whole = p + rest
    <3>1. whole - p \in Nat /\ whole = p + (whole - p)
      OBVIOUS
    <3>2. QED
      BY <3>1
  <2>2. unit * whole = unit * p + unit * rest /\ unit * rest \in Nat /\ unit * p \in Nat
    BY <2>1
  <2>3. QED
    BY <2>2
<1> HIDE DEF n
<1>2. Rounded(n, whole) \in 0..unit
  BY <1>1, RoundedShare
<1>3. QED
  BY <1>2 DEF n

------------------------------------------------------------------------------
(* The points of each factor *)

LEMMA PointBounds ==
  ASSUME NEW f \in SignalFacts, NEW d \in Directions
  PROVE  /\ TrendPoints(f.tech, d) \in 0..25 /\ BreakoutPoints(f.tech, d) \in 0..20 /\ RsiPoints(f.tech, d) \in 0..10
         /\ StrengthPoints(f.tech, d) \in 0..10 /\ OptionsPoints(f.oi) \in 0..10 /\ NewsPoints(f.news, d) \in 0..15
         /\ StockPoints(f.stock, d) \in 0..15 /\ ScreenerPoints(f.screener) \in 0..20 /\ RiskRewardPoints(f) \in 0..10
         /\ MarketPoints(f.market, d) \in 0..(IF f.market = Unavailable THEN 0 ELSE 15)
<1>1. TrendPoints(f.tech, d) \in 0..25
  BY DEF TrendPoints
<1>2. BreakoutPoints(f.tech, d) \in 0..20
  BY DEF BreakoutPoints
<1>3. RsiPoints(f.tech, d) \in 0..10
  BY DEF RsiPoints
<1>4. StrengthPoints(f.tech, d) \in 0..10
  BY DEF StrengthPoints
<1>5. OptionsPoints(f.oi) \in 0..10
  BY DEF OptionsPoints
<1>6. NewsPoints(f.news, d) \in 0..15
  BY DEF NewsPoints
<1>7. StockPoints(f.stock, d) \in 0..15
  <2>1. f.stock # Unavailable => f.stock.tier \in {"large", "mid", "small", "unknown"}
    BY DEF SignalFacts, Maybe, StockInfo
  <2>2. \A tier \in {"large", "mid", "small", "unknown"} : TierPoints[tier] \in 0..8
    BY DEF TierPoints
  <2>3. QED
    BY <2>1, <2>2 DEF StockPoints
<1>8. ScreenerPoints(f.screener) \in 0..20
  <2>1. CASE f.screener = Unavailable
    BY <2>1 DEF ScreenerPoints
  <2>2. CASE f.screener # Unavailable
    <3>1. f.screener.passed \in Nat /\ f.screener.total \in Nat \ {0} /\ f.screener.passed <= f.screener.total
      BY <2>2 DEF SignalFacts, Maybe, Screenings
    <3>2. 20 * f.screener.passed \in Nat /\ 20 * f.screener.passed <= 20 * f.screener.total
      BY <3>1
    <3>3. Rounded(20 * f.screener.passed, f.screener.total) \in 0..20
      BY <3>1, <3>2, RoundedShare
    <3>4. QED
      BY <2>2, <3>3 DEF ScreenerPoints
  <2>3. QED
    BY <2>1, <2>2
<1>9. RiskRewardPoints(f) \in 0..10
  BY DEF RiskRewardPoints
<1>10. MarketPoints(f.market, d) \in 0..(IF f.market = Unavailable THEN 0 ELSE 15)
  <2>1. \A stage : StagePoints(stage, d) \in 0..6
    BY DEF StagePoints
  <2>2. \A rank : RankPoints(rank) \in 0..4 /\ SectorPoints(rank) \in 0..3
    BY DEF RankPoints, SectorPoints
  <2>3. ContextPoints(f.market, d) \in 0..15
    BY <2>1, <2>2 DEF ContextPoints
  <2>4. QED
    BY <2>3 DEF MarketPoints
<1>11. QED
  BY <1>1, <1>2, <1>3, <1>4, <1>5, <1>6, <1>7, <1>8, <1>9, <1>10

\* The points never exceed the maximum that goes with them: a score is a percentage.
LEMMA ScoreBounds ==
  ASSUME NEW f \in SignalFacts, NEW d \in Directions
  PROVE  Score(f, d) \in 0..1000
<1>1. Points(f, d) \in 0..MaxPoints(f) /\ MaxPoints(f) \in {135, 150}
  <2> DEFINE p1 == TrendPoints(f.tech, d)
             p2 == BreakoutPoints(f.tech, d)
             p3 == RsiPoints(f.tech, d)
             p4 == StrengthPoints(f.tech, d)
             p5 == OptionsPoints(f.oi)
             p6 == NewsPoints(f.news, d)
             p7 == StockPoints(f.stock, d)
             p8 == MarketPoints(f.market, d)
             p9 == ScreenerPoints(f.screener)
             p10 == RiskRewardPoints(f)
  <2>1. Points(f, d) = p1 + p2 + p3 + p4 + p5 + p6 + p7 + p8 + p9 + p10
    BY DEF Points
  <2>2. /\ p1 \in 0..25 /\ p2 \in 0..20 /\ p3 \in 0..10 /\ p4 \in 0..10 /\ p5 \in 0..10 /\ p6 \in 0..15
        /\ p7 \in 0..15 /\ p9 \in 0..20 /\ p10 \in 0..10
        /\ p8 \in 0..(IF f.market = Unavailable THEN 0 ELSE 15)
    BY PointBounds
  <2> HIDE DEF p1, p2, p3, p4, p5, p6, p7, p8, p9, p10
  <2>3. QED
    BY <2>1, <2>2 DEF MaxPoints
<1> DEFINE points == Points(f, d)
           most == MaxPoints(f)
<1>2. points \in Nat /\ points <= most /\ most \in Nat \ {0}
  BY <1>1
<1>3. Score(f, d) = Rounded(1000 * points, most)
  BY DEF Score
<1> HIDE DEF points, most
<1>4. Rounded(1000 * points, most) \in 0..1000
  <2> DEFINE unit == 1000
  <2>1. unit \in Nat
    OBVIOUS
  <2> HIDE DEF unit
  <2>2. Rounded(unit * points, most) \in 0..unit
    BY <1>2, <2>1, ShareOf
  <2>3. QED
    BY <2>2 DEF unit
<1>5. QED
  BY <1>3, <1>4

------------------------------------------------------------------------------
(* The mirror image of what is known scores the same for the other side *)

LEMMA TechMirrors ==
  ASSUME NEW t \in Maybe(Technicals), NEW d \in Directions, NEW u, u = MirrorTech(t)
  PROVE  /\ TrendPoints(u, Opposite(d)) = TrendPoints(t, d)
         /\ BreakoutPoints(u, Opposite(d)) = BreakoutPoints(t, d)
         /\ RsiPoints(u, Opposite(d)) = RsiPoints(t, d)
         /\ StrengthPoints(u, Opposite(d)) = StrengthPoints(t, d)
<1>1. d \in {"bullish", "bearish"}
  BY DEF Directions
<1>2. Opposite(d) = (IF d = "bullish" THEN "bearish" ELSE "bullish") /\ Opposite(Opposite(d)) = d
  BY <1>1 DEF Opposite
<1>3. CASE t = Unavailable
  BY <1>3 DEF MirrorTech, TrendPoints, BreakoutPoints, RsiPoints, StrengthPoints
<1>4. CASE t # Unavailable
  <2>1. /\ t \in Technicals /\ t.trend \in {"up", "down", "mixed"} /\ t.breakout \in {"up", "down", "none"}
        /\ t.volume \in Nat /\ t.rsi \in 0..100 /\ t.rel \in Maybe(Signs)
    BY <1>4 DEF Maybe, Technicals
  <2>2. /\ u.trend = MirrorWay[t.trend] /\ u.breakout = MirrorWay[t.breakout] /\ u.volume = t.volume
        /\ u.rsi = 100 - t.rsi /\ u.rel = MirrorSign(t.rel)
    BY <1>4, <2>1 DEF Technicals, MirrorTech
  <2>3. /\ \A w \in {"up", "down", "mixed", "none"} : MirrorWay[w] \in {"up", "down", "mixed", "none"}
        /\ MirrorWay["up"] = "down" /\ MirrorWay["down"] = "up" /\ MirrorWay["mixed"] = "mixed" /\ MirrorWay["none"] = "none"
    BY DEF MirrorWay
  <2>4. \A w \in {"up", "down", "mixed", "none"} : Favours(Opposite(d), MirrorWay[w]) <=> Favours(d, w)
    BY <1>1, <1>2, <2>3 DEF Favours
  <2>5. \A w \in {"up", "down", "mixed", "none"} : Favours(Opposite(Opposite(d)), MirrorWay[w]) <=> Favours(Opposite(d), w)
    BY <1>1, <1>2, <2>3 DEF Favours
  <2>6. u # Unavailable
    <3>1. [t EXCEPT !.trend = MirrorWay[t.trend], !.breakout = MirrorWay[t.breakout], !.rsi = 100 - t.rsi,
                    !.rel = MirrorSign(t.rel)] \in Technicals
      <4>1. MirrorWay[t.trend] \in {"up", "down", "mixed"} /\ MirrorWay[t.breakout] \in {"up", "down", "none"}
        BY <2>1, <2>3
      <4>2. MirrorSign(t.rel) \in Maybe(Signs) /\ 100 - t.rsi \in 0..100
        BY <2>1 DEF MirrorSign, Maybe, Signs
      <4>3. QED
        BY <2>1, <4>1, <4>2 DEF Technicals
    <3>2. QED
      BY <1>4, <3>1, UnavailableAssumption DEF MirrorTech
  <2>7. TrendPoints(u, Opposite(d)) = TrendPoints(t, d)
    BY <1>4, <2>1, <2>2, <2>4, <2>5, <2>6 DEF TrendPoints
  <2>8. BreakoutPoints(u, Opposite(d)) = BreakoutPoints(t, d)
    BY <1>4, <2>1, <2>2, <2>4, <2>6 DEF BreakoutPoints
  <2>9. RsiPoints(u, Opposite(d)) = RsiPoints(t, d)
    BY <1>1, <1>2, <1>4, <2>1, <2>2, <2>6 DEF RsiPoints
  <2>10. StrengthPoints(u, Opposite(d)) = StrengthPoints(t, d)
    <3>1. t.rel = Unavailable <=> u.rel = Unavailable
      BY <2>1, <2>2, UnavailableAssumption DEF MirrorSign, Maybe, Signs
    <3>2. t.rel # Unavailable => (SignFavours(Opposite(d), u.rel) <=> SignFavours(d, t.rel))
      BY <1>1, <1>2, <2>1, <2>2 DEF SignFavours, MirrorSign, Maybe, Signs
    <3>3. QED
      BY <1>4, <2>6, <3>1, <3>2 DEF StrengthPoints
  <2>11. QED
    BY <2>7, <2>8, <2>9, <2>10
<1>5. QED
  BY <1>3, <1>4

LEMMA NewsMirrors ==
  ASSUME NEW n \in {"none", "positive", "negative", "neutral"}, NEW d \in Directions
  PROVE  NewsPoints(MirrorNews[n], Opposite(d)) = NewsPoints(n, d)
<1>1. /\ MirrorNews["none"] = "none" /\ MirrorNews["neutral"] = "neutral"
      /\ MirrorNews["positive"] = "negative" /\ MirrorNews["negative"] = "positive"
  BY DEF MirrorNews
<1>2. QED
  BY <1>1 DEF NewsPoints, Directions, Opposite

LEMMA StockMirrors ==
  ASSUME NEW i \in Maybe(StockInfo), NEW d \in Directions, NEW j, j = MirrorStock(i)
  PROVE  StockPoints(j, Opposite(d)) = StockPoints(i, d)
<1>1. CASE i = Unavailable
  BY <1>1 DEF StockPoints, MirrorStock
<1>2. CASE i # Unavailable
  <2>1. i \in StockInfo /\ i.rel \in Maybe(Signs)
    BY <1>2 DEF Maybe, StockInfo
  <2>2. MirrorSign(i.rel) \in Maybe(Signs)
    BY <2>1 DEF MirrorSign, Maybe, Signs
  <2>3. j \in StockInfo /\ j.rel = MirrorSign(i.rel) /\ j.tier = i.tier
    BY <1>2, <2>1, <2>2 DEF StockInfo, MirrorStock
  <2>4. j # Unavailable
    BY <2>3, UnavailableAssumption
  <2>5. i.rel = Unavailable <=> j.rel = Unavailable
    BY <2>1, <2>3, UnavailableAssumption DEF MirrorSign, Maybe, Signs
  <2>6. i.rel # Unavailable => (SignFavours(Opposite(d), j.rel) <=> SignFavours(d, i.rel))
    BY <2>1, <2>3 DEF SignFavours, MirrorSign, Maybe, Signs, Directions, Opposite
  <2>7. QED
    BY <1>2, <2>3, <2>4, <2>5, <2>6 DEF StockPoints
<1>3. QED
  BY <1>1, <1>2

LEMMA MarketMirrors ==
  ASSUME NEW m \in Maybe(ContextInfo), NEW d \in Directions, NEW n, n = MirrorMarket(m)
  PROVE  /\ MarketPoints(n, Opposite(d)) = MarketPoints(m, d)
         /\ n = Unavailable <=> m = Unavailable
<1>1. CASE m = Unavailable
  BY <1>1 DEF MarketPoints, MirrorMarket
<1>2. CASE m # Unavailable
  <2>1. /\ m.stage \in 1..4 /\ m.rs \in 0..100 /\ m.sector_rs \in Maybe(0..100)
        /\ m.regime \in {"bullish", "bearish", "neutral"}
    BY <1>2 DEF Maybe, ContextInfo
  <2>2. /\ n.stage = MirrorStage[m.stage] /\ n.rs = MirrorRank(m.rs) /\ n.sector_rs = MirrorRank(m.sector_rs)
        /\ n.regime = IF m.regime = "neutral" THEN "neutral" ELSE Opposite(m.regime)
    BY <1>2 DEF MirrorMarket
  <2>3. MirrorStage[1] = 1 /\ MirrorStage[2] = 4 /\ MirrorStage[3] = 3 /\ MirrorStage[4] = 2
    BY DEF MirrorStage
  <2>4. m.rs # Unavailable
    BY <2>1, UnavailableAssumption
  <2>5. n.rs = 100 - m.rs /\ (m.sector_rs # Unavailable => n.sector_rs = 100 - m.sector_rs)
        /\ (m.sector_rs = Unavailable <=> n.sector_rs = Unavailable)
    BY <2>1, <2>2, <2>4, UnavailableAssumption DEF MirrorRank, Maybe
  <2>6. n # Unavailable
    <3>1. MirrorStage[m.stage] \in 1..4
      BY <2>1, <2>3
    <3>2. MirrorRank(m.rs) \in 0..100 /\ MirrorRank(m.sector_rs) \in Maybe(0..100)
      BY <2>1, <2>4 DEF MirrorRank, Maybe
    <3>3. (IF m.regime = "neutral" THEN "neutral" ELSE Opposite(m.regime)) \in {"bullish", "bearish", "neutral"}
      BY <2>1 DEF Opposite
    <3>4. n \in ContextInfo
      BY <1>2, <3>1, <3>2, <3>3 DEF ContextInfo, MirrorMarket
    <3>5. QED
      BY <3>4, UnavailableAssumption
  <2>7. StagePoints(n.stage, Opposite(d)) = StagePoints(m.stage, d)
    BY <2>1, <2>2, <2>3 DEF StagePoints, Directions, Opposite
  <2>8. \A x \in 0..100 : Favourable(100 - x, Opposite(d)) = Favourable(x, d)
    BY DEF Favourable, Directions, Opposite
  <2>9. RankPoints(Favourable(n.rs, Opposite(d))) = RankPoints(Favourable(m.rs, d))
    BY <2>1, <2>5, <2>8
  <2>10. m.sector_rs # Unavailable =>
           SectorPoints(Favourable(n.sector_rs, Opposite(d))) = SectorPoints(Favourable(m.sector_rs, d))
    BY <2>1, <2>5, <2>8 DEF Maybe
  <2>11. /\ n.regime = Opposite(d) <=> m.regime = d
         /\ n.regime = Opposite(Opposite(d)) <=> m.regime = Opposite(d)
    BY <2>1, <2>2 DEF Directions, Opposite
  <2>12. ContextPoints(n, Opposite(d)) = ContextPoints(m, d)
    BY <2>5, <2>7, <2>9, <2>10, <2>11 DEF ContextPoints
  <2>13. QED
    BY <1>2, <2>6, <2>12 DEF MarketPoints
<1>3. QED
  BY <1>1, <1>2

LEMMA ScoreMirrors ==
  ASSUME NEW f \in SignalFacts, NEW d \in Directions
  PROVE  Score(Mirror(f), Opposite(d)) = Score(f, d)
<1> DEFINE g == Mirror(f)
           u == MirrorTech(f.tech)
           j == MirrorStock(f.stock)
           n == MirrorMarket(f.market)
<1>1. /\ f.tech \in Maybe(Technicals) /\ f.news \in {"none", "positive", "negative", "neutral"}
      /\ f.stock \in Maybe(StockInfo) /\ f.market \in Maybe(ContextInfo)
  BY DEF SignalFacts
<1>2. DOMAIN f = {"tech", "oi", "news", "stock", "market", "screener", "entry", "sl", "target"}
  BY DEF SignalFacts
<1>3. /\ g.tech = u /\ g.news = MirrorNews[f.news] /\ g.stock = j /\ g.market = n
      /\ g.oi = f.oi /\ g.screener = f.screener /\ g.entry = f.entry /\ g.sl = f.sl /\ g.target = f.target
  BY <1>2 DEF Mirror
<1> HIDE DEF g
<1>4. /\ TrendPoints(u, Opposite(d)) = TrendPoints(f.tech, d)
      /\ BreakoutPoints(u, Opposite(d)) = BreakoutPoints(f.tech, d)
      /\ RsiPoints(u, Opposite(d)) = RsiPoints(f.tech, d)
      /\ StrengthPoints(u, Opposite(d)) = StrengthPoints(f.tech, d)
  BY <1>1, TechMirrors
<1>5. NewsPoints(MirrorNews[f.news], Opposite(d)) = NewsPoints(f.news, d)
  BY <1>1, NewsMirrors
<1>6. StockPoints(j, Opposite(d)) = StockPoints(f.stock, d)
  BY <1>1, StockMirrors
<1>7. MarketPoints(n, Opposite(d)) = MarketPoints(f.market, d) /\ (n = Unavailable <=> f.market = Unavailable)
  BY <1>1, MarketMirrors
<1> HIDE DEF u, j, n
<1>8. RiskRewardPoints(g) = RiskRewardPoints(f)
  BY <1>3 DEF RiskRewardPoints, HasRiskReward
<1>9. Points(g, Opposite(d)) = Points(f, d)
  BY <1>3, <1>4, <1>5, <1>6, <1>7, <1>8 DEF Points
<1>10. MaxPoints(g) = MaxPoints(f)
  BY <1>3, <1>7 DEF MaxPoints
<1>11. QED
  BY <1>9, <1>10 DEF Score, g

------------------------------------------------------------------------------
(* What a lookup can come to *)

\* The least of a set of numbers.
LEMMA LeastOf == ASSUME NEW S \in SUBSET Nat, S # {} PROVE \E x \in S : \A y \in S : x <= y
<1>1. PICK R : IsWellFoundedOn(R, Nat) /\ \A x, y \in Nat : x < y => <<x, y>> \in R
  BY LessThan
<1>2. IsWellFoundedOn(R, Nat)
  BY <1>1
<1>3. PICK x \in S : \A y \in S : ~(<<y, x>> \in R)
  BY <1>2, WFMin, Zenon
<1>4. ASSUME NEW y \in S PROVE x <= y
  <2>1. x \in Nat /\ y \in Nat /\ ~(<<y, x>> \in R)
    BY <1>3
  <2>2. ~(y < x)
    BY <1>1, <2>1
  <2>3. QED
    BY <2>1, <2>2
<1>5. QED
  BY <1>4

\* Among ranks there is one at every place.
LEMMA RankAtPlace ==
  ASSUME NEW rows, IsFiniteSet(rows), \A r \in rows : r.rs \in 1..99, NEW place \in 1..Cardinality(rows)
  PROVE  RankAt(rows, place) \in 1..99
<1> DEFINE UpTo(v) == {r \in rows : r.rs <= v}
           Below(v) == {r \in rows : r.rs < v}
           V == {v \in Nat : place <= Cardinality(UpTo(v))}
<1>1. place \in Nat /\ place >= 1 /\ place <= Cardinality(rows) /\ Cardinality(rows) \in Nat
  BY FS_CardinalityType
<1>2. \A v : IsFiniteSet(UpTo(v)) /\ Cardinality(UpTo(v)) \in Nat
  BY FS_Subset, FS_CardinalityType
<1>3. UpTo(99) = rows
  OBVIOUS
<1>4. 99 \in V
  BY <1>1, <1>3
<1>5. PICK x \in V : \A y \in V : x <= y
  <2>1. V \in SUBSET Nat /\ V # {}
    BY <1>4
  <2> HIDE DEF V
  <2>2. QED
    BY <2>1, LeastOf
<1>6. x \in Nat /\ place <= Cardinality(UpTo(x))
  OBVIOUS
<1>7. x # 0
  <2>1. UpTo(0) = {}
    OBVIOUS
  <2>2. Cardinality(UpTo(0)) = 0
    BY <2>1, FS_EmptySet
  <2> HIDE DEF UpTo
  <2>3. QED
    BY <1>1, <1>6, <2>2
<1>8. Cardinality(UpTo(x - 1)) < place
  <2>1. x - 1 \in Nat /\ ~(x <= x - 1)
    BY <1>6, <1>7
  <2>2. x - 1 \notin V
    <3> HIDE DEF V
    <3>1. QED
      BY <1>5, <2>1
  <2>3. ~(place <= Cardinality(UpTo(x - 1)))
    BY <2>1, <2>2
  <2>4. Cardinality(UpTo(x - 1)) \in Nat
    BY <1>2
  <2> HIDE DEF UpTo
  <2>5. QED
    BY <1>1, <2>3, <2>4
<1>9. Below(x) = UpTo(x - 1)
  <2>1. \A r \in rows : r.rs < x <=> r.rs <= x - 1
    BY <1>6
  <2>2. QED
    BY <2>1
<1>10. x \in {r.rs : r \in rows}
  <2>1. SUFFICES ASSUME \A r \in rows : r.rs # x PROVE FALSE
    OBVIOUS
  <2>2. \A r \in rows : r.rs <= x <=> r.rs < x
    BY <1>6, <2>1
  <2>3. UpTo(x) = Below(x)
    BY <2>2
  <2>4. Cardinality(UpTo(x)) < place /\ Cardinality(UpTo(x)) \in Nat
    BY <1>2, <1>8, <1>9, <2>3
  <2> HIDE DEF UpTo
  <2>5. QED
    BY <1>1, <1>6, <2>4
<1>11. \E rank \in {r.rs : r \in rows} : Cardinality(Below(rank)) < place /\ place <= Cardinality(UpTo(rank))
  BY <1>6, <1>8, <1>9, <1>10
<1>12. RankAt(rows, place) \in {r.rs : r \in rows}
  BY <1>11 DEF RankAt
<1>13. QED
  BY <1>12

\* The median of a sector is a rank, where the sector has one.
LEMMA SectorRanks ==
  ASSUME NEW rows, IsFiniteSet(rows), \A r \in rows : r.rs \in 1..99, NEW sector
  PROVE  SectorRank(rows, sector) \in Maybe(0..100)
<1> DEFINE mine == {r \in rows : Sector[r.symbol] = sector}
           n == Cardinality(mine)
<1>1. IsFiniteSet(mine) /\ n \in Nat /\ \A r \in mine : r.rs \in 1..99
  BY FS_Subset, FS_CardinalityType
<1>2. SectorRank(rows, sector) =
        IF n < 3 THEN Unavailable
        ELSE IF n % 2 = 1 THEN RankAt(mine, (n + 1) \div 2)
             ELSE Rounded(RankAt(mine, n \div 2) + RankAt(mine, n \div 2 + 1), 2)
  BY DEF SectorRank
<1>3. \A place \in 1..n : RankAt(mine, place) \in 1..99
  BY <1>1, RankAtPlace
<1> HIDE DEF mine, n
<1>4. ASSUME n >= 3 PROVE (n + 1) \div 2 \in 1..n /\ n \div 2 \in 1..n /\ n \div 2 + 1 \in 1..n
  BY <1>1, <1>4
<1>5. CASE n < 3
  BY <1>2, <1>5 DEF Maybe
<1>6. CASE n >= 3 /\ n % 2 = 1
  BY <1>1, <1>2, <1>3, <1>4, <1>6 DEF Maybe
<1>7. CASE n >= 3 /\ n % 2 # 1
  <2>1. RankAt(mine, n \div 2) \in 1..99 /\ RankAt(mine, n \div 2 + 1) \in 1..99
    BY <1>3, <1>4, <1>7
  <2> DEFINE sum == RankAt(mine, n \div 2) + RankAt(mine, n \div 2 + 1)
  <2>2. sum \in Nat /\ sum <= 99 * 2
    BY <2>1
  <2> HIDE DEF sum
  <2>3. Rounded(sum, 2) \in 0..99
    BY <2>2 DEF Rounded
  <2>4. SectorRank(rows, sector) = Rounded(sum, 2)
    BY <1>1, <1>2, <1>7 DEF sum
  <2>5. QED
    BY <2>3, <2>4 DEF Maybe
<1>8. QED
  BY <1>1, <1>5, <1>6, <1>7

\* Every context a lookup can come to is one the scoring knows: a stage, a rank, a regime, and a sector's rank or none.
LEMMA ContextsAreKnown == ASSUME NEW context \in Contexts PROVE context \in ContextInfo
<1>1. PICK r \in UNION {j.rows : j \in Rankings}, k \in Rankings : context = ContextOf(r, k.summary)
  BY DEF Contexts
<1>2. r.symbol \in DOMAIN Sector /\ r.rs \in 0..100 /\ r.stage \in 1..4
  <2>1. PICK j \in Rankings : r \in j.rows
    OBVIOUS
  <2>2. QED
    BY <2>1, RankingRows
<1>3. PICK got \in Downloads, t \in Instant : k = Ranking(got, t)
  BY DEF Rankings
<1>4. k.summary = Summary(k.rows)
  BY <1>3 DEF Ranking
<1>5. IsFiniteSet(k.rows)
  <2> DEFINE closes  == [s \in got |-> Closes(t)[s]]
             returns == [s \in {u \in DOMAIN closes : closes[u].long} |-> closes[s].ret]
             Row(s)  == [symbol |-> s, rs |-> Percentile(returns, s), stage |-> Stage(closes[s]), ext |-> closes[s].ext]
  <2>1. k.rows = Ranked(closes)
    BY <1>3 DEF Ranking
  <2>2. DOMAIN returns \subseteq DOMAIN Sector
    BY DownloadsAssumption
  <2>3. IsFiniteSet(DOMAIN returns)
    BY <2>2, DownloadsAssumption, FS_Subset
  <2>4. k.rows = {Row(s) : s \in DOMAIN returns}
    BY <2>1 DEF Ranked
  <2> DEFINE f == [s \in DOMAIN returns |-> Row(s)]
  <2> HIDE DEF Row, returns, closes
  <2>5. f \in Surjection(DOMAIN returns, k.rows)
    BY <2>4 DEF Surjection
  <2>6. QED
    BY <2>3, <2>5, FS_Surjection
<1>6. \A q \in k.rows : q.rs \in 1..99
  BY RankingRows
<1>7. k.summary.regime \in {"bullish", "bearish", "neutral"}
  BY <1>4 DEF Summary, Regime
<1>8. k.summary.sectors = {[sector |-> Sector[s], rs |-> SectorRank(k.rows, Sector[s])] : s \in DOMAIN Sector}
  BY <1>4 DEF Summary
<1>9. ASSUME Sector[r.symbol] # Unavailable
      PROVE  (CHOOSE e \in k.summary.sectors : e.sector = Sector[r.symbol]).rs \in Maybe(0..100)
  <2>1. \E e \in k.summary.sectors : e.sector = Sector[r.symbol]
    <3>1. [sector |-> Sector[r.symbol], rs |-> SectorRank(k.rows, Sector[r.symbol])] \in k.summary.sectors
      BY <1>2, <1>8
    <3>2. QED
      BY <3>1
  <2>2. \A e \in k.summary.sectors : e.rs \in Maybe(0..100)
    <3>1. \A s \in DOMAIN Sector : SectorRank(k.rows, Sector[s]) \in Maybe(0..100)
      BY <1>5, <1>6, SectorRanks
    <3>2. QED
      BY <1>8, <3>1
  <2>3. QED
    BY <2>1, <2>2
<1>10. (IF Sector[r.symbol] = Unavailable THEN Unavailable
        ELSE (CHOOSE e \in k.summary.sectors : e.sector = Sector[r.symbol]).rs) \in Maybe(0..100)
  BY <1>9 DEF Maybe
<1>11. QED
  BY <1>1, <1>2, <1>7, <1>10 DEF ContextOf, ContextInfo

\* What is then known of a signal is something the scoring can be given.
LEMMA FactsAreKnown ==
  ASSUME NEW context \in Contexts \cup {Unavailable}, NEW g \in Facts
  PROVE  [g EXCEPT !.market = context] \in SignalFacts
<1>1. g \in SignalFacts
  BY FactsAssumption
<1>2. context \in Maybe(ContextInfo)
  BY ContextsAreKnown DEF Maybe
<1>3. QED
  BY <1>1, <1>2 DEF SignalFacts

LEMMA ScoresAreKnown ==
  ASSUME NEW e \in Evaluations, NEW s \in e.all
  PROVE  \E f \in SignalFacts, d \in Directions : s.score = Score(f, d) /\ s.mirrored = Score(Mirror(f), Opposite(d))
<1>1. e \in Scores
  BY DEF Evaluations
<1>2. PICK context \in Contexts \cup {Unavailable} : e = [context |-> context, all |-> ScoresGiven(context)]
  BY <1>1 DEF Scores
<1>3. PICK f \in {[g EXCEPT !.market = context] : g \in Facts}, d \in Directions :
        s = [score |-> Score(f, d), mirrored |-> Score(Mirror(f), Opposite(d))]
  BY <1>2 DEF ScoresGiven
<1>4. f \in SignalFacts
  BY FactsAreKnown
<1>5. QED
  BY <1>3, <1>4

\* Whatever the closes, the sectors and the rest that is known, the score of a call on a stock is the score of the
\* opposite call on its mirror image: the two tables of scoring.py agree entry by entry (scoring.py:31-66, 109-240).
THEOREM ScoresAreSymmetric == Spec => []ScoresMirror
<1>1. ScoresMirror
  BY ScoresAreKnown, ScoreMirrors DEF ScoresMirror
<1>2. QED
  BY <1>1, PTL

\* ... and a percentage: no context adds points without its maximum.
THEOREM ScoresArePercentages == Spec => []ScoreIsPercentage
<1>1. ScoreIsPercentage
  BY ScoresAreKnown, ScoreBounds DEF ScoreIsPercentage
<1>2. QED
  BY <1>1, PTL
=============================================================================
