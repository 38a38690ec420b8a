-------------------------- MODULE AutoTradeProofs --------------------------
(***************************************************************************)
(* What AutoTrade keeps for any events, threads, settings and limit.       *)
(***************************************************************************)
EXTENDS AutoTrade, FiniteSetTheorems, SequenceTheorems, TLAPS

-----------------------------------------------------------------------------
(* Signals and jobs.                                                        *)

\* The signals of an event, and their number.
LEMMA SignalFacts ==
    /\ \A e \in Events : Own(e) \in SignalIds /\ Confluence(e) \in SignalIds
    /\ AnySignal \in SignalIds
    /\ \A s \in SignalIds : s.event \in Events /\ ChannelOf(s) \in Channels
    /\ \A s \in SignalIds : s.kind = "own" => s = Own(s.event)
    /\ \A d, e \in Events : Own(d) # Confluence(e)
<1>1. \A e \in Events : Own(e) \in SignalIds /\ Confluence(e) \in SignalIds
  BY DEF Own, Confluence, SignalIds
<1>2. AnySignal \in SignalIds
  BY <1>1, EventsAssumption DEF AnySignal
<1>3. QED
  BY <1>1, <1>2 DEF SignalIds, ChannelOf, Channels, Own, Confluence

\* The clock of the signals table is a positive number.
LEMMA NowType == Now \in Nat \ {0}
<1> DEFINE kinds == {"own", "confluence"}
           all == Events \X kinds
           f == [p \in all |-> [event |-> p[1], kind |-> p[2]]]
<1>1. IsFiniteSet(kinds)
  <2>1. IsFiniteSet({"own"})
    BY FS_Singleton
  <2>2. IsFiniteSet({"own"} \cup {"confluence"})
    BY <2>1, FS_AddElement
  <2>3. {"own"} \cup {"confluence"} = kinds
    OBVIOUS
  <2>4. QED
    BY <2>2, <2>3
<1>2. IsFiniteSet(all)
  BY <1>1, FS_Product, EventsAssumption
<1>3. f \in Surjection(all, SignalIds)
  <2>1. f \in [all -> SignalIds]
    BY DEF SignalIds
  <2>2. \A s \in SignalIds : \E p \in all : f[p] = s
    <3>1. TAKE s \in SignalIds
    <3>2. <<s.event, s.kind>> \in all
      BY DEF SignalIds
    <3>3. f[<<s.event, s.kind>>] = s
      BY <3>2 DEF SignalIds
    <3>4. QED
      BY <3>2, <3>3
  <2>3. QED
    BY <2>1, <2>2 DEF Surjection
<1>4. IsFiniteSet(SignalIds)
  BY <1>2, <1>3, FS_Surjection
<1>5. IsFiniteSet({s \in SignalIds : IsRecorded(s)})
  BY <1>4, FS_Subset
<1>6. QED
  BY <1>5, FS_CardinalityType DEF Now

Paths == {"general", "dedicated", "confluence"}

\* Job builds jobs, and a job of other steps, modes and signals is a job.
LEMMA JobType ==
    ASSUME NEW pc \in Pcs, NEW s \in SignalIds, NEW path \in Paths, NEW mode \in Modes
    PROVE  Job(pc, s, path, mode) \in Jobs
  BY DEF Job, Jobs, Paths

LEMMA JobFacts ==
    /\ Idle \in Jobs /\ Idle.pc = "idle" /\ Idle.path = "general"
    /\ \A e \in Events : Job("insert", Own(e), "general", "paper") \in Jobs
<1>1. AnySignal \in SignalIds /\ \A e \in Events : Own(e) \in SignalIds
  BY SignalFacts
<1>2. {"idle", "insert"} \subseteq Pcs /\ "general" \in Paths /\ "paper" \in Modes
  BY DEF Pcs, Paths, Modes
<1>3. Job("idle", AnySignal, "general", "paper") \in Jobs
  BY <1>1, <1>2, JobType
<1>4. \A e \in Events : Job("insert", Own(e), "general", "paper") \in Jobs
  BY <1>1, <1>2, JobType
<1>5. QED
  BY <1>3, <1>4 DEF Idle, Job

LEMMA JobUpdates ==
    ASSUME NEW j \in Jobs, NEW pc \in Pcs
    PROVE  /\ [j EXCEPT !.pc = pc] \in Jobs
           /\ \A mode \in Modes : [j EXCEPT !.pc = pc, !.mode = mode] \in Jobs
           /\ \A s \in SignalIds : [j EXCEPT !.pc = pc, !.signal = s] \in Jobs
  BY DEF Jobs

\* The job after one path is the next path with the same signal, or none.
LEMMA NextPathFacts ==
    ASSUME NEW job \in Jobs
    PROVE  LET n == NextPath(job)
           IN  /\ n \in Jobs
               /\ n.pc \in {"idle", "dedicated", "confluence"}
               /\ n.pc # "idle" => n.signal = job.signal
               /\ n.pc = "idle" => n.path = "general"
               /\ n.pc = "dedicated" => job.path = "general" /\ n.path = "dedicated"
               /\ n.pc = "confluence" => /\ job.path = "dedicated" /\ n.path = "confluence"
                                         /\ Source[n.signal.event] \in SourcesWithConfluence
<1>1. job.signal \in SignalIds
  BY DEF Jobs
<1>2. /\ {"confluence", "dedicated"} \subseteq Pcs \cap Paths
      /\ "paper" \in Modes
  BY DEF Pcs, Paths, Modes
<1>3. /\ Job("confluence", job.signal, "confluence", "paper") \in Jobs
      /\ Job("dedicated", job.signal, "dedicated", "paper") \in Jobs
  BY <1>1, <1>2, JobType
<1>4. QED
  BY <1>3, JobFacts DEF NextPath, AfterDedicated, AfterGeneral, Job

-----------------------------------------------------------------------------
(* What a step of a thread does to its job.                                 *)

\* No step takes a signal out of the table, and the table keeps its type.
LEMMA CreatedStep ==
    ASSUME TypeOK, [Next]_vars
    PROVE  /\ created' \in [SignalIds -> Nat]
           /\ \A s \in SignalIds : IsRecorded(s) => IsRecorded(s)'
<1>1. created \in [SignalIds -> Nat] /\ Now \in Nat \ {0}
  BY NowType DEF TypeOK
<1>2. CASE \E w \in Workers : InsertSignal(w)
  <2>1. PICK w \in Workers : InsertSignal(w)
    BY <1>2
  <2>2. QED
    BY <2>1, <1>1 DEF InsertSignal, IsRecorded
<1>3. CASE \E w \in Workers : InsertConfluence(w)
  <2>1. PICK w \in Workers : InsertConfluence(w)
    BY <1>3
  <2>2. QED
    BY <2>1, <1>1 DEF InsertConfluence, IsRecorded
<1>4. CASE UNCHANGED created
  BY <1>1, <1>4 DEF IsRecorded
<1>5. CASE UNCHANGED vars
  BY <1>4, <1>5 DEF vars
<1>6. CASE \E w \in Workers : WorkerStep(w)
  BY <1>2, <1>3, <1>4, <1>6
     DEF WorkerStep, ReadGeneral, CountOpen, CheckExists, SubmitEntry, RecordOrder,
         ReadDedicated, ReadGraduation, ReadConfluence, FindMatch
<1>7. CASE Next /\ ~\E w \in Workers : WorkerStep(w)
  BY <1>4, <1>7 DEF Next, WorkerFails, Receive, CloseHit, CloseByHand, CheckGraduation,
                    SaveSettings, WindowMoves, Crash
<1>8. QED
  BY <1>5, <1>6, <1>7

\* A thread's next job: of a signal that is recorded once the thread got past
\* its insertion, and on the way to an order only of the signal it was at, or of
\* one it has just recorded.
GoodJob(w, job) ==
    /\ job \in Jobs
    /\ job.pc \notin {"idle", "insert"} => created'[job.signal] # 0
    /\ job.pc \in {"idle", "insert"} => job.path = "general"
    /\ job.pc \in Holding =>
         \/ ~IsRecorded(job.signal)
         \/ work[w].pc \in Holding /\ job.signal = work[w].signal
    /\ job.pc \in {"submit", "record"} =>
         /\ OrdersOf(job.signal) = {}
         /\ work[w].pc \in Holding /\ job.signal = work[w].signal

\* The job after one path is a good one, in whatever step the path ends.
LEMMA NextPathIsGood ==
    ASSUME TypeOK, [Next]_vars, NEW w \in Workers, work[w].pc \in Holding,
           IsRecorded(work[w].signal)
    PROVE  GoodJob(w, NextPath(work[w]))
<1>1. work[w] \in Jobs /\ work[w].signal \in SignalIds
  BY DEF TypeOK, Jobs
<1>2. created'[work[w].signal] # 0
  BY <1>1, CreatedStep DEF IsRecorded
<1>3. QED
  BY <1>1, <1>2, NextPathFacts DEF GoodJob, Holding

LEMMA SameSignalIsGood ==
    ASSUME TypeOK, [Next]_vars, NEW w \in Workers, work[w].pc \in Holding,
           IsRecorded(work[w].signal), NEW pc \in Holding \ {"submit", "record"},
           NEW mode \in Modes
    PROVE  /\ GoodJob(w, [work[w] EXCEPT !.pc = pc])
           /\ GoodJob(w, [work[w] EXCEPT !.pc = pc, !.mode = mode])
<1>1. work[w] \in Jobs /\ work[w].signal \in SignalIds
  BY DEF TypeOK, Jobs
<1>2. created'[work[w].signal] # 0
  BY <1>1, CreatedStep DEF IsRecorded
<1>3. /\ [work[w] EXCEPT !.pc = pc] \in Jobs
      /\ [work[w] EXCEPT !.pc = pc, !.mode = mode] \in Jobs
  <2>1. pc \in Pcs
    BY DEF Holding, Pcs
  <2>2. QED
    BY <1>1, <2>1, JobUpdates
<1>4. /\ [work[w] EXCEPT !.pc = pc].pc = pc
      /\ [work[w] EXCEPT !.pc = pc, !.mode = mode].pc = pc
      /\ [work[w] EXCEPT !.pc = pc].signal = work[w].signal
      /\ [work[w] EXCEPT !.pc = pc, !.mode = mode].signal = work[w].signal
  BY <1>1 DEF Jobs
<1>5. pc \notin {"idle", "insert", "submit", "record"}
  BY DEF Holding
<1>6. QED
  BY <1>2, <1>3, <1>4, <1>5 DEF GoodJob

\* The idle job is a good one.
LEMMA IdleIsGood == ASSUME NEW w \in Workers PROVE GoodJob(w, Idle)
  BY JobFacts DEF GoodJob, Holding

\* A thread that inserts a signal holds it from then on.
LEMMA InsertIsGood ==
    ASSUME IntakeInv, NEW w \in Workers, InsertSignal(w) \/ InsertConfluence(w)
    PROVE  \E job : work' = [work EXCEPT ![w] = job] /\ GoodJob(w, job)
<1>1. work[w] \in Jobs /\ work[w].signal \in SignalIds /\ created \in [SignalIds -> Nat]
  BY DEF IntakeInv, TypeOK, Jobs
<1>2. Now # 0
  BY NowType
<1>3. CASE InsertSignal(w)
  <2> DEFINE next == [work[w] EXCEPT !.pc = "general"]
  <2>1. next \in Jobs /\ next.pc = "general" /\ next.signal = work[w].signal
    <3>1. "general" \in Pcs
      BY DEF Pcs
    <3>2. next \in Jobs
      BY <1>1, <3>1, JobUpdates
    <3>3. QED
      BY <1>1, <3>2 DEF Jobs
  <2>2. CASE IsRecorded(work[w].signal)
    BY <1>3, <2>2, IdleIsGood DEF InsertSignal, Becomes
  <2>3. CASE ~IsRecorded(work[w].signal)
    <3>1. created'[work[w].signal] # 0 /\ work' = [work EXCEPT ![w] = next]
      BY <1>1, <1>2, <1>3, <2>3 DEF InsertSignal, Becomes
    <3>2. GoodJob(w, next)
      BY <2>1, <2>3, <3>1 DEF GoodJob
    <3>3. QED
      BY <3>1, <3>2
  <2>4. QED
    BY <2>2, <2>3
<1>4. CASE InsertConfluence(w)
  <2> DEFINE s == Confluence(work[w].signal.event)
             next == [work[w] EXCEPT !.pc = "graduation", !.signal = s]
  <2>1. s \in SignalIds
    BY <1>1, SignalFacts
  <2>2. next \in Jobs /\ next.pc = "graduation" /\ next.signal = s
    <3>1. "graduation" \in Pcs
      BY DEF Pcs
    <3>2. next \in Jobs
      BY <1>1, <2>1, <3>1, JobUpdates
    <3>3. QED
      BY <1>1, <3>2 DEF Jobs
  <2>3. CASE IsRecorded(s)
    BY <1>4, <2>3, IdleIsGood DEF InsertConfluence, Becomes
  <2>4. CASE ~IsRecorded(s)
    <3>1. created'[s] # 0 /\ work' = [work EXCEPT ![w] = next]
      BY <1>1, <1>2, <1>4, <2>1, <2>4 DEF InsertConfluence, Becomes
    <3>2. GoodJob(w, next)
      BY <2>2, <2>4, <3>1 DEF GoodJob
    <3>3. QED
      BY <3>1, <3>2
  <2>5. QED
    BY <2>3, <2>4
<1>5. QED
  BY <1>3, <1>4

\* Every step of a thread replaces its job by a good one.
LEMMA StepIsGood ==
    ASSUME IntakeInv, [Next]_vars, NEW w \in Workers, WorkerStep(w) \/ WorkerFails(w)
    PROVE  \E job : work' = [work EXCEPT ![w] = job] /\ GoodJob(w, job)
<1> DEFINE job == work[w]
<1>1. /\ TypeOK /\ job \in Jobs /\ job.signal \in SignalIds /\ job.signal.event \in Events
      /\ job.pc \notin {"idle", "insert"} => IsRecorded(job.signal) /\ created'[job.signal] # 0
      /\ general \in GeneralChoices
  <2>1. TypeOK /\ job \in Jobs
    BY DEF IntakeInv, TypeOK
  <2>2. job.signal \in SignalIds /\ job.signal.event \in Events
    BY <2>1 DEF Jobs, SignalIds
  <2>3. job.pc \notin {"idle", "insert"} => IsRecorded(job.signal)
    BY DEF IntakeInv, WorkInv
  <2>4. QED
    BY <2>1, <2>2, <2>3, CreatedStep DEF IsRecorded, TypeOK
<1>2. CASE InsertSignal(w) \/ InsertConfluence(w)
  BY <1>2, InsertIsGood
<1>3. CASE ReadGeneral(w)
  <2>1. general.mode # "off" => general.mode \in Modes
    BY <1>1, SettingsAssumption DEF Modes
  <2>2. job.pc \in Holding /\ "count" \in Holding \ {"submit", "record"} /\ IsRecorded(job.signal)
    BY <1>1, <1>3 DEF ReadGeneral, Holding
  <2>3. GoodJob(w, NextPath(job))
    BY <1>1, <2>2, NextPathIsGood
  <2>4. general.mode # "off" => GoodJob(w, [job EXCEPT !.pc = "count", !.mode = general.mode])
    BY <1>1, <2>1, <2>2, SameSignalIsGood
  <2>5. QED
    BY <1>3, <2>3, <2>4 DEF ReadGeneral, Becomes
<1>4. CASE CountOpen(w)
  <2>1. job.pc \in Holding /\ "check" \in Holding \ {"submit", "record"} /\ IsRecorded(job.signal)
    BY <1>1, <1>4 DEF CountOpen, Holding
  <2>2. GoodJob(w, NextPath(job)) /\ "paper" \in Modes
    BY <1>1, <2>1, NextPathIsGood DEF Modes
  <2>3. GoodJob(w, [job EXCEPT !.pc = "check"])
    BY <1>1, <2>1, <2>2, SameSignalIsGood
  <2>4. QED
    BY <1>4, <2>2, <2>3 DEF CountOpen, Becomes
<1>5. CASE CheckExists(w)
  <2> DEFINE pc == IF job.mode = "live" THEN "submit" ELSE "record"
             next == [job EXCEPT !.pc = pc]
  <2>1. job.pc \in Holding /\ IsRecorded(job.signal) /\ created'[job.signal] # 0
    BY <1>1, <1>5 DEF CheckExists, Holding
  <2>2. GoodJob(w, NextPath(job))
    BY <1>1, <2>1, NextPathIsGood
  <2>3. next \in Jobs /\ next.pc \in {"submit", "record"} /\ next.signal = job.signal
    <3>1. pc \in Pcs
      BY DEF Pcs
    <3>2. next \in Jobs
      BY <1>1, <3>1, JobUpdates
    <3>3. QED
      BY <1>1, <3>2 DEF Jobs
  <2>4. OrdersOf(job.signal) = {} => GoodJob(w, next)
    BY <2>1, <2>3 DEF GoodJob
  <2>5. QED
    BY <1>5, <2>2, <2>4 DEF CheckExists, Becomes
<1>6. CASE SubmitEntry(w)
  <2> DEFINE next == [job EXCEPT !.pc = "record"]
  <2>1. job.pc \in Holding /\ IsRecorded(job.signal) /\ created'[job.signal] # 0
    BY <1>1, <1>6 DEF SubmitEntry, Holding
  <2>2. GoodJob(w, NextPath(job))
    BY <1>1, <2>1, NextPathIsGood
  <2>3. next \in Jobs /\ next.pc = "record" /\ next.signal = job.signal
    <3>1. "record" \in Pcs
      BY DEF Pcs
    <3>2. next \in Jobs
      BY <1>1, <3>1, JobUpdates
    <3>3. QED
      BY <1>1, <3>2 DEF Jobs
  <2>4. OrdersOf(job.signal) = {}
    BY <1>6 DEF SubmitEntry, IntakeInv, WorkInv
  <2>5. GoodJob(w, next)
    BY <2>1, <2>3, <2>4 DEF GoodJob
  <2>6. PICK result \in BrokerResults :
            Becomes(w, IF result = "filled" THEN next ELSE NextPath(job))
    BY <1>6 DEF SubmitEntry
  <2>7. QED
    BY <2>2, <2>5, <2>6 DEF Becomes
<1>7. CASE RecordOrder(w)
  <2>1. job.pc \in Holding /\ IsRecorded(job.signal)
    BY <1>1, <1>7 DEF RecordOrder, Holding
  <2>2. GoodJob(w, NextPath(job))
    BY <1>1, <2>1, NextPathIsGood
  <2>3. QED
    BY <1>7, <2>2 DEF RecordOrder, Becomes
<1>8. CASE ReadDedicated(w)
  <2>1. job.pc \in Holding /\ "graduation" \in Holding \ {"submit", "record"} /\ IsRecorded(job.signal)
    BY <1>1, <1>8 DEF ReadDedicated, Holding
  <2>2. GoodJob(w, NextPath(job)) /\ "paper" \in Modes
    BY <1>1, <2>1, NextPathIsGood DEF Modes
  <2>3. GoodJob(w, [job EXCEPT !.pc = "graduation"])
    BY <1>1, <2>1, <2>2, SameSignalIsGood
  <2>4. QED
    BY <1>8, <2>2, <2>3 DEF ReadDedicated, Becomes
<1>9. CASE ReadGraduation(w)
  <2>1. job.pc \in Holding /\ "check" \in Holding \ {"submit", "record"} /\ IsRecorded(job.signal)
    BY <1>1, <1>9 DEF ReadGraduation, Holding
  <2>2. graduated[ChannelOf(job.signal)] \in Modes
    BY <1>1, SignalFacts DEF TypeOK
  <2>3. GoodJob(w, [job EXCEPT !.pc = "check", !.mode = graduated[ChannelOf(job.signal)]])
    BY <1>1, <2>1, <2>2, SameSignalIsGood
  <2>4. QED
    BY <1>9, <2>3 DEF ReadGraduation, Becomes
<1>10. CASE ReadConfluence(w)
  <2> DEFINE next == [job EXCEPT !.pc = "match"]
  <2>1. "match" \in Pcs
    BY DEF Pcs
  <2>2. next \in Jobs
    BY <1>1, <2>1, JobUpdates
  <2>3. next.pc = "match" /\ next.signal = job.signal /\ created'[job.signal] # 0
    BY <1>1, <1>10, <2>2 DEF Jobs, ReadConfluence
  <2>4. GoodJob(w, next)
    BY <2>2, <2>3 DEF GoodJob, Holding
  <2>5. QED
    BY <1>10, <2>4, IdleIsGood DEF ReadConfluence, Becomes
<1>11. CASE FindMatch(w)
  <2> DEFINE e == job.signal.event
             next(m) == [job EXCEPT !.pc = "copy", !.signal = Own(IF Source[e] = "scanner" THEN e ELSE m)]
  <2>1. CASE work' = [work EXCEPT ![w] = Idle]
    BY <2>1, IdleIsGood
  <2>2. ASSUME NEW m \in Matches(e), work' = [work EXCEPT ![w] = next(m)]
        PROVE  GoodJob(w, next(m))
    <3> DEFINE s == Own(IF Source[e] = "scanner" THEN e ELSE m)
    <3>1. m \in Events /\ created[Own(m)] > window
      BY DEF Matches
    <3>2. window \in Nat /\ Own(m) \in SignalIds /\ s \in SignalIds
      BY <1>1, <3>1, SignalFacts DEF TypeOK
    <3>3. IsRecorded(Own(m))
      BY <1>1, <3>1, <3>2 DEF IsRecorded, TypeOK
    <3>4. Source[e] = "scanner" => IsRecorded(s)
      <4>1. job.pc = "match"
        BY <1>11 DEF FindMatch
      <4>2. job.signal.kind = "own"
        BY <4>1 DEF IntakeInv, PathInv
      <4>3. QED
        BY <1>1, <4>1, <4>2, SignalFacts
    <3>5. created'[s] # 0
      BY <1>1, <3>2, <3>3, <3>4, CreatedStep DEF IsRecorded
    <3>6. "copy" \in Pcs
      BY DEF Pcs
    <3>7. next(m) \in Jobs
      BY <1>1, <3>2, <3>6, JobUpdates
    <3>8. next(m).pc = "copy" /\ next(m).signal = s
      BY <1>1, <3>2 DEF Jobs
    <3>9. QED
      BY <3>5, <3>7, <3>8 DEF GoodJob, Holding
  <2>3. QED
    BY <1>11, <2>1, <2>2 DEF FindMatch, Becomes
<1>12. CASE WorkerFails(w)
  <2>1. CASE job.path = "dedicated" /\ job.pc # "dedicated"
    <3>1. job.pc \notin {"idle", "insert"} /\ IsRecorded(job.signal) /\ created'[job.signal] # 0
      BY <1>1, <2>1 DEF IntakeInv, WorkInv
    <3>2. GoodJob(w, NextPath(job))
      BY <1>1, <2>1, <3>1, NextPathFacts DEF GoodJob, Holding
    <3>3. QED
      BY <1>12, <2>1, <3>2 DEF WorkerFails, Becomes
  <2>2. CASE ~(job.path = "dedicated" /\ job.pc # "dedicated")
    BY <1>12, <2>2, IdleIsGood DEF WorkerFails, Becomes
  <2>3. QED
    BY <2>1, <2>2
<1>13. QED
  BY <1>2, <1>3, <1>4, <1>5, <1>6, <1>7, <1>8, <1>9, <1>10, <1>11, <1>12 DEF WorkerStep

-----------------------------------------------------------------------------
(* What a step does to the orders table.                                    *)

\* The table stays as it is, gets the row of one thread at its end, or has one
\* open row closed.
LEMMA OrdersStep ==
    ASSUME TypeOK, [Next]_vars
    PROVE  \/ orders' = orders
           \/ \E w \in Workers, o \in Order :
                /\ RecordOrder(w) /\ orders' = Append(orders, o)
                /\ o.signal = work[w].signal /\ o.mode = work[w].mode /\ o.path = work[w].path
                /\ o.status = "open"
           \/ \E i \in OrderIds, o \in Order :
                /\ orders' = [orders EXCEPT ![i] = o]
                /\ o.signal = orders[i].signal /\ o.mode = orders[i].mode /\ o.path = orders[i].path
                /\ o.status # "open"
                /\ UNCHANGED work
<1>1. CASE \E w \in Workers : RecordOrder(w)
  <2>1. PICK w \in Workers : RecordOrder(w)
    BY <1>1
  <2> DEFINE o == [signal |-> work[w].signal, mode |-> work[w].mode, path |-> work[w].path,
                   status |-> "open", won |-> FALSE]
  <2>2. work[w] \in Jobs
    BY DEF TypeOK
  <2>3. o \in Order
    BY <2>2 DEF Jobs, Order, Exits
  <2>4. orders' = Append(orders, o)
    BY <2>1 DEF RecordOrder
  <2>5. QED
    BY <2>1, <2>3, <2>4
<1>2. ASSUME NEW i \in OrderIds, CloseHit(i) \/ CloseByHand(i), orders' # orders
      PROVE  \E o \in Order :
                /\ orders' = [orders EXCEPT ![i] = o]
                /\ o.signal = orders[i].signal /\ o.mode = orders[i].mode /\ o.path = orders[i].path
                /\ o.status # "open"
                /\ UNCHANGED work
  <2>1. orders[i] \in Order
    BY <1>2, ElementOfSeq, LenProperties DEF TypeOK, OrderIds
  <2>2. PICK status \in Exits, won \in BOOLEAN :
            orders' = [orders EXCEPT ![i] = [@ EXCEPT !.status = status, !.won = won]]
    BY <1>2 DEF CloseHit, CloseByHand, Exits
  <2> DEFINE o == [orders[i] EXCEPT !.status = status, !.won = won]
  <2>3. o \in Order /\ o.signal = orders[i].signal /\ o.mode = orders[i].mode
        /\ o.path = orders[i].path /\ o.status = status
    BY <2>1 DEF Order
  <2>4. status # "open"
    BY DEF Exits
  <2>5. UNCHANGED work
    BY <1>2 DEF CloseHit, CloseByHand
  <2>6. orders' = [orders EXCEPT ![i] = o]
    BY <2>2
  <2>7. QED
    BY <2>3, <2>4, <2>5, <2>6
<1>3. CASE UNCHANGED vars
  BY <1>3 DEF vars
<1>4. CASE (\E w \in Workers : WorkerStep(w)) /\ ~\E w \in Workers : RecordOrder(w)
  BY <1>4 DEF WorkerStep, InsertSignal, ReadGeneral, CountOpen, CheckExists, SubmitEntry,
              ReadDedicated, ReadGraduation, ReadConfluence, FindMatch, InsertConfluence
<1>5. CASE /\ Next
           /\ ~\E w \in Workers : WorkerStep(w)
           /\ ~\E i \in OrderIds : CloseHit(i) \/ CloseByHand(i)
  BY <1>5 DEF Next, WorkerFails, Receive, CheckGraduation, SaveSettings, WindowMoves, Crash
<1>6. QED
  BY <1>1, <1>2, <1>3, <1>4, <1>5

\* The rows of the table before a step are rows of it afterwards, of the same
\* signals; a step adds at most the row of one thread.
LEMMA OrdersGrow ==
    ASSUME TypeOK, [Next]_vars
    PROVE  /\ orders' \in Seq(Order)
           /\ OrderIds \subseteq OrderIds'
           /\ \A i \in OrderIds : /\ orders'[i].signal = orders[i].signal
                                  /\ orders'[i].mode = orders[i].mode
                                  /\ orders'[i].path = orders[i].path
                                  /\ orders'[i].status = "open" => orders[i].status = "open"
           /\ \/ OrderIds' = OrderIds
              \/ \E w \in Workers :
                   /\ RecordOrder(w)
                   /\ OrderIds' = OrderIds \cup {Len(orders) + 1}
                   /\ Len(orders) + 1 \notin OrderIds
                   /\ orders'[Len(orders) + 1].signal = work[w].signal
                   /\ orders'[Len(orders) + 1].mode = work[w].mode
                   /\ orders'[Len(orders) + 1].path = work[w].path
<1>1. orders \in Seq(Order) /\ OrderIds = 1..Len(orders) /\ Len(orders) \in Nat
  BY LenProperties DEF TypeOK, OrderIds
<1>2. CASE orders' = orders
  BY <1>1, <1>2 DEF OrderIds
<1>3. ASSUME NEW w \in Workers, NEW o \in Order, RecordOrder(w), orders' = Append(orders, o),
             o.signal = work[w].signal, o.mode = work[w].mode, o.path = work[w].path
      PROVE  /\ orders' \in Seq(Order) /\ OrderIds' = OrderIds \cup {Len(orders) + 1}
             /\ \A i \in OrderIds : orders'[i] = orders[i]
             /\ orders'[Len(orders) + 1] = o
             /\ Len(orders) + 1 \notin OrderIds
  <2>1. /\ orders' \in Seq(Order) /\ Len(orders') = Len(orders) + 1
        /\ \A i \in 1..Len(orders) : orders'[i] = orders[i]
        /\ orders'[Len(orders) + 1] = o
    BY <1>1, <1>3, AppendProperties
  <2>2. OrderIds' = 1..Len(orders')
    BY <2>1, LenProperties DEF OrderIds
  <2>3. QED
    BY <1>1, <2>1, <2>2
<1>4. ASSUME NEW i \in OrderIds, NEW o \in Order, orders' = [orders EXCEPT ![i] = o],
             o.status # "open", o.signal = orders[i].signal, o.mode = orders[i].mode,
             o.path = orders[i].path
      PROVE  /\ orders' \in Seq(Order) /\ OrderIds' = OrderIds
             /\ \A j \in OrderIds : orders'[j] = IF j = i THEN o ELSE orders[j]
  <2>1. /\ orders' \in Seq(Order) /\ Len(orders') = Len(orders)
        /\ \A j \in 1..Len(orders) : orders'[j] = IF j = i THEN o ELSE orders[j]
    BY <1>1, <1>4, ExceptSeq
  <2>2. OrderIds' = 1..Len(orders')
    BY <2>1, LenProperties DEF OrderIds
  <2>3. QED
    BY <1>1, <2>1, <2>2
<1>5. QED
  BY <1>2, <1>3, <1>4, OrdersStep

-----------------------------------------------------------------------------
(* The inductive step, one lemma per conjunct of IntakeInv.                 *)

\* The threads: one of them does a good job next, takes up an event, or all of
\* them are stopped.
LEMMA WorkStep ==
    ASSUME IntakeInv, [Next]_vars
    PROVE  \/ work' = work
           \/ work' = [w \in Workers |-> Idle]
           \/ \E w \in Workers, job \in Jobs :
                /\ work' = [work EXCEPT ![w] = job]
                /\ GoodJob(w, job)
<1>1. ASSUME NEW w \in Workers, WorkerStep(w) \/ WorkerFails(w)
      PROVE  \E job \in Jobs : work' = [work EXCEPT ![w] = job] /\ GoodJob(w, job)
  BY <1>1, StepIsGood DEF GoodJob
<1>2. ASSUME NEW w \in Workers, NEW e \in Events, Receive(w, e)
      PROVE  \E job \in Jobs : work' = [work EXCEPT ![w] = job] /\ GoodJob(w, job)
  <2> DEFINE job == Job("insert", Own(e), "general", "paper")
  <2>1. job \in Jobs /\ job.pc = "insert" /\ job.path = "general"
    BY JobFacts DEF Job
  <2>2. GoodJob(w, job)
    BY <2>1 DEF GoodJob, Holding
  <2>3. work' = [work EXCEPT ![w] = job]
    BY <1>2 DEF Receive, Becomes
  <2>4. QED
    BY <2>1, <2>2, <2>3
<1>3. CASE Crash
  BY <1>3 DEF Crash
<1>4. CASE UNCHANGED work
  BY <1>4
<1>5. QED
  BY <1>1, <1>2, <1>3, <1>4 DEF Next, vars, CloseHit, CloseByHand, CheckGraduation,
                               SaveSettings, WindowMoves

LEMMA TypeStep == ASSUME IntakeInv, [Next]_vars PROVE TypeOK'
<1>1. TypeOK
  BY DEF IntakeInv
<1>2. created' \in [SignalIds -> Nat] /\ orders' \in Seq(Order)
  BY <1>1, CreatedStep, OrdersGrow
<1>3. work' \in [Workers -> Jobs]
  BY <1>1, WorkStep, JobFacts DEF TypeOK
<1>4. entered' \in [SignalIds -> Nat] /\ lost' \in Nat
  <2>1. CASE \E w \in Workers : SubmitEntry(w)
    <3>1. PICK w \in Workers : SubmitEntry(w)
      BY <2>1
    <3>2. work[w].signal \in SignalIds /\ entered[work[w].signal] + 1 \in Nat /\ lost + 1 \in Nat
      BY <1>1 DEF TypeOK, Jobs
    <3>3. QED
      BY <1>1, <3>1, <3>2 DEF SubmitEntry, TypeOK
  <2>2. CASE UNCHANGED <<entered, lost>>
    BY <1>1, <2>2 DEF TypeOK
  <2>3. CASE (\E w \in Workers : WorkerStep(w)) /\ ~\E w \in Workers : SubmitEntry(w)
    BY <2>2, <2>3 DEF WorkerStep, InsertSignal, ReadGeneral, CountOpen, CheckExists, RecordOrder,
                      ReadDedicated, ReadGraduation, ReadConfluence, FindMatch, InsertConfluence
  <2>4. QED
    BY <2>1, <2>2, <2>3 DEF Next, vars, WorkerFails, Receive, CloseHit, CloseByHand,
                            CheckGraduation, SaveSettings, WindowMoves, Crash
<1>5. CASE (\E w \in Workers : WorkerStep(w)) \/ UNCHANGED vars
  <2>1. UNCHANGED <<graduated, settings, window, delivered, mon, faults>>
    BY <1>5 DEF vars, settings, WorkerStep, InsertSignal, ReadGeneral, CountOpen, CheckExists,
                SubmitEntry, RecordOrder, ReadDedicated, ReadGraduation, ReadConfluence,
                FindMatch, InsertConfluence
  <2>2. QED
    BY <1>1, <1>2, <1>3, <1>4, <2>1 DEF TypeOK, settings
<1>6. CASE \E w \in Workers, e \in Events : Receive(w, e)
  BY <1>1, <1>2, <1>3, <1>4, <1>6 DEF TypeOK, Receive, settings
<1>7. CASE (\E w \in Workers : WorkerFails(w)) \/ Crash
  BY <1>1, <1>2, <1>3, <1>4, <1>7 DEF TypeOK, WorkerFails, Crash, settings
<1>8. ASSUME NEW i \in OrderIds, CloseHit(i) \/ CloseByHand(i)
      PROVE  TypeOK'
  <2>1. orders[i] \in Order
    BY <1>1, ElementOfSeq, LenProperties DEF TypeOK, OrderIds
  <2>2. ChannelOf(orders[i].signal) \in Channels
    BY <2>1, SignalFacts DEF Order
  <2>3. mon' \in Channels \cup {NoChannel}
    BY <1>1, <1>8, <2>2 DEF CloseHit, CloseByHand, TypeOK
  <2>4. UNCHANGED <<graduated, settings, window, delivered, faults>>
    BY <1>8 DEF CloseHit, CloseByHand, settings
  <2>5. QED
    BY <1>1, <1>2, <1>3, <1>4, <2>3, <2>4 DEF TypeOK, settings
<1>9. CASE CheckGraduation
  <2>1. \A c \in Channels, connected \in BOOLEAN : GraduationAfter(c, connected) \in Modes
    BY <1>1 DEF GraduationAfter, TypeOK, Modes
  <2>2. graduated' \in [Channels -> Modes]
    BY <1>1, <1>9, <2>1 DEF CheckGraduation, TypeOK
  <2>3. UNCHANGED <<settings, window, delivered, faults>> /\ mon' = NoChannel
    BY <1>9 DEF CheckGraduation
  <2>4. QED
    BY <1>1, <1>2, <1>3, <1>4, <2>2, <2>3 DEF TypeOK, settings
<1>10. CASE SaveSettings
  <2>1. /\ general' \in GeneralChoices /\ dedicated' \in [SourcesWithSettings -> DedicatedChoices]
        /\ confluence' \in BOOLEAN
    BY <1>1, <1>10, SettingsAssumption DEF SaveSettings, TypeOK
  <2>2. UNCHANGED <<graduated, window, delivered, mon, faults>>
    BY <1>10 DEF SaveSettings
  <2>3. QED
    BY <1>1, <1>2, <1>3, <1>4, <2>1, <2>2 DEF TypeOK
<1>11. CASE WindowMoves
  BY <1>1, <1>2, <1>3, <1>4, <1>11 DEF TypeOK, WindowMoves, settings
<1>12. QED
  BY <1>5, <1>6, <1>7, <1>8, <1>9, <1>10, <1>11 DEF Next

\* Only a thread whose last check found no order of its signal inserts one.
LEMMA OneOrderStep == ASSUME IntakeInv, [Next]_vars PROVE OneOrderPerSignal' /\ OrdersInv'
<1>1. TypeOK /\ OneOrderPerSignal /\ OrdersInv
  BY DEF IntakeInv
<1>2. orders \in Seq(Order) /\ \A i \in OrderIds : orders[i].signal \in SignalIds
  <2>1. \A i \in OrderIds : orders[i] \in Order
    BY <1>1, ElementOfSeq, LenProperties DEF TypeOK, OrderIds
  <2>2. QED
    BY <1>1, <2>1 DEF TypeOK, Order
<1>3. \A s \in SignalIds : IsRecorded(s) => IsRecorded(s)'
  BY <1>1, CreatedStep
<1>4. CASE OrderIds' = OrderIds
  BY <1>1, <1>2, <1>3, <1>4, OrdersGrow DEF OneOrderPerSignal, OrdersInv, IsRecorded
<1>5. CASE \E w \in Workers :
             /\ RecordOrder(w)
             /\ OrderIds' = OrderIds \cup {Len(orders) + 1}
             /\ orders'[Len(orders) + 1].signal = work[w].signal
  <2>1. PICK w \in Workers :
             /\ RecordOrder(w)
             /\ OrderIds' = OrderIds \cup {Len(orders) + 1}
             /\ orders'[Len(orders) + 1].signal = work[w].signal
    BY <1>5
  <2>2. OrdersOf(work[w].signal) = {} /\ IsRecorded(work[w].signal) /\ work[w].signal \in SignalIds
    BY <1>1, <2>1 DEF RecordOrder, IntakeInv, WorkInv, TypeOK, Jobs
  <2>3. \A i \in OrderIds : orders'[i].signal = orders[i].signal /\ orders[i].signal # work[w].signal
    BY <1>1, <2>2, OrdersGrow DEF OrdersOf
  <2>4. created'[work[w].signal] # 0 /\ \A i \in OrderIds : created'[orders[i].signal] # 0
    BY <1>1, <1>2, <1>3, <2>2 DEF OrdersInv, IsRecorded
  <2>5. OneOrderPerSignal'
    BY <1>1, <2>1, <2>3 DEF OneOrderPerSignal
  <2>6. OrdersInv'
    BY <2>1, <2>3, <2>4 DEF OrdersInv, IsRecorded
  <2>7. QED
    BY <2>5, <2>6
<1>6. QED
  BY <1>1, <1>4, <1>5, OrdersGrow

\* A thread that holds a signal is the only one, and no order of it appears but
\* its own.
LEMMA WorkInvStep == ASSUME IntakeInv, [Next]_vars PROVE WorkInv'
<1>1. TypeOK /\ WorkInv
  BY DEF IntakeInv
<1>2. /\ work \in [Workers -> Jobs]
      /\ \A v \in Workers : work[v].signal \in SignalIds
  BY <1>1 DEF TypeOK, Jobs
<1>3. \A s \in SignalIds : IsRecorded(s) => created'[s] # 0
  BY <1>1, CreatedStep DEF IsRecorded
<1>4. \A v \in Workers : work[v].pc \in Holding => IsRecorded(work[v].signal)
  BY <1>1 DEF WorkInv, Holding
<1>5. ASSUME NEW v \in Workers
      PROVE  /\ work'[v].pc \notin {"idle", "insert"} => created'[work'[v].signal] # 0
             /\ work'[v].pc \in {"idle", "insert"} => work'[v].path = "general"
  <2>1. CASE work'[v] = work[v]
    BY <1>1, <1>2, <1>3, <2>1 DEF WorkInv
  <2>2. CASE work'[v] = Idle
    BY <2>2, JobFacts
  <2>3. CASE \E job : work'[v] = job /\ GoodJob(v, job)
    BY <2>3 DEF GoodJob
  <2>4. QED
    BY <1>2, <2>1, <2>2, <2>3, WorkStep
<1>6. ASSUME NEW u \in Workers, NEW v \in Workers, u # v,
             work'[u].pc \in Holding, work'[v].pc \in Holding
      PROVE  work'[u].signal # work'[v].signal
  <2>1. CASE work' = work
    BY <1>1, <1>6, <2>1 DEF WorkInv
  <2>2. CASE work' = [w \in Workers |-> Idle]
    BY <1>6, <2>2, JobFacts DEF Holding
  <2>3. ASSUME NEW w \in Workers, NEW job \in Jobs, work' = [work EXCEPT ![w] = job], GoodJob(w, job)
        PROVE  work'[u].signal # work'[v].signal
    <3>1. ASSUME NEW x \in Workers \ {w}, job.pc \in Holding, work[x].pc \in Holding
          PROVE  job.signal # work[x].signal
      BY <1>1, <1>4, <2>3, <3>1 DEF GoodJob, WorkInv
    <3>2. CASE u # w /\ v # w
      BY <1>1, <1>2, <1>6, <2>3, <3>2 DEF WorkInv
    <3>3. CASE u = w
      BY <1>2, <1>6, <2>3, <3>1, <3>3
    <3>4. CASE v = w
      BY <1>2, <1>6, <2>3, <3>1, <3>4
    <3>5. QED
      BY <3>2, <3>3, <3>4
  <2>4. QED
    BY <2>1, <2>2, <2>3, WorkStep
<1>7. ASSUME NEW v \in Workers, work'[v].pc \in {"submit", "record"}
      PROVE  \A i \in OrderIds' : orders'[i].signal # work'[v].signal
  <2>1. OrdersOf(work'[v].signal) = {}
    <3>1. CASE work'[v] = work[v]
      BY <1>1, <1>7, <3>1 DEF WorkInv
    <3>2. CASE work'[v] = Idle
      BY <1>7, <3>2, JobFacts
    <3>3. CASE \E job : work'[v] = job /\ GoodJob(v, job)
      BY <1>7, <3>3 DEF GoodJob
    <3>4. QED
      BY <1>2, <3>1, <3>2, <3>3, WorkStep
  <2>2. \A i \in OrderIds : orders'[i].signal # work'[v].signal
    BY <1>1, <2>1, OrdersGrow DEF OrdersOf
  <2>3. CASE OrderIds' = OrderIds
    BY <2>2, <2>3
  <2>4. ASSUME NEW w \in Workers, RecordOrder(w), OrderIds' = OrderIds \cup {Len(orders) + 1},
               orders'[Len(orders) + 1].signal = work[w].signal
        PROVE  \A i \in OrderIds' : orders'[i].signal # work'[v].signal
    <3>1. work' = [work EXCEPT ![w] = NextPath(work[w])] /\ work[w].pc = "record"
      BY <2>4 DEF RecordOrder, Becomes
    <3>2. v # w
      BY <1>2, <1>7, <3>1, NextPathFacts
    <3>3. work'[v] = work[v]
      BY <1>2, <3>1, <3>2
    <3>4. work[w].pc \in Holding /\ work[v].pc \in Holding
      BY <1>7, <3>1, <3>3 DEF Holding
    <3>5. work[w].signal # work'[v].signal
      BY <1>1, <3>2, <3>3, <3>4 DEF WorkInv
    <3>6. QED
      BY <2>2, <2>4, <3>5
  <2>5. QED
    BY <1>1, <2>3, <2>4, OrdersGrow
<1>8. QED
  BY <1>5, <1>6, <1>7 DEF WorkInv, IsRecorded, OrdersOf

-----------------------------------------------------------------------------
(* The confluence.                                                          *)

\* What a thread knows of its signal when it is at job.
KnowsItsSignal(job) ==
    /\ \/ job.path # "confluence" /\ job.pc # "idle"
       \/ job.pc \in {"confluence", "match", "copy"}
       => job.signal.kind = "own"
    /\ job.pc \in {"confluence", "match", "copy"} => job.path = "confluence"
    /\ job.pc \in {"dedicated", "graduation"} => job.path # "general"
    /\ job.pc \in {"confluence", "match"} => Source[job.signal.event] \in SourcesWithConfluence
    /\ job.pc = "copy" =>
         /\ Source[job.signal.event] = "scanner"
         /\ \E c \in Events : /\ Source[c] = "chartink" /\ created'[Own(c)] # 0
                              /\ Pair[c] = Pair[job.signal.event]

\* Each step of a thread keeps it.
LEMMA StepKnowsItsSignal ==
    ASSUME IntakeInv, [Next]_vars, NEW w \in Workers, WorkerStep(w) \/ WorkerFails(w)
    PROVE  KnowsItsSignal(work'[w])
<1> DEFINE job == work[w]
<1>1. /\ job \in Jobs /\ job.signal \in SignalIds /\ job.signal.event \in Events
      /\ work \in [Workers -> Jobs] /\ TypeOK
  BY DEF IntakeInv, TypeOK, Jobs, SignalIds
<1>2. /\ \/ job.path # "confluence" /\ job.pc # "idle"
         \/ job.pc \in {"confluence", "match", "copy"}
         => job.signal.kind = "own"
      /\ job.pc \in {"confluence", "match", "copy"} => job.path = "confluence"
      /\ job.pc \in {"dedicated", "graduation"} => job.path # "general"
      /\ job.pc \in {"confluence", "match"} => Source[job.signal.event] \in SourcesWithConfluence
  BY DEF IntakeInv, PathInv
<1>3. KnowsItsSignal(Idle)
  BY JobFacts DEF KnowsItsSignal
<1>4. job.pc # "idle" => KnowsItsSignal(NextPath(job))
  BY <1>1, <1>2, NextPathFacts DEF KnowsItsSignal
<1>5. ASSUME NEW pc \in {"general", "count", "check", "submit", "record", "graduation"},
             pc = "graduation" => job.pc = "dedicated",
             NEW mode, job.pc \notin {"idle", "confluence", "match", "copy"}
      PROVE  /\ KnowsItsSignal([job EXCEPT !.pc = pc])
             /\ KnowsItsSignal([job EXCEPT !.pc = pc, !.mode = mode])
  BY <1>1, <1>2, <1>5 DEF KnowsItsSignal, Jobs
<1>6. CASE WorkerStep(w) /\ job.pc \notin {"confluence", "match", "copy"}
  <2> USE <1>1, <1>3, <1>4, <1>5, <1>6 DEF Becomes
  <2>1. CASE InsertSignal(w)
    BY <2>1 DEF InsertSignal
  <2>2. CASE ReadGeneral(w)
    <3>1. job.pc = "general"
      BY <2>2 DEF ReadGeneral
    <3>2. KnowsItsSignal([job EXCEPT !.pc = "count", !.mode = general.mode])
      BY <3>1
    <3>3. \/ work'[w] = [job EXCEPT !.pc = "count", !.mode = general.mode]
          \/ work'[w] = NextPath(job)
      BY <2>2 DEF ReadGeneral
    <3>4. QED
      BY <3>1, <3>2, <3>3
  <2>3. CASE CountOpen(w)
    BY <2>3 DEF CountOpen
  <2>4. CASE CheckExists(w)
    BY <2>4 DEF CheckExists
  <2>5. CASE SubmitEntry(w)
    <3>1. PICK result \in BrokerResults :
              work'[w] = IF result = "filled" THEN [job EXCEPT !.pc = "record"] ELSE NextPath(job)
      BY <2>5 DEF SubmitEntry
    <3>2. QED
      BY <2>5, <3>1 DEF SubmitEntry
  <2>6. CASE RecordOrder(w)
    BY <2>6 DEF RecordOrder
  <2>7. CASE ReadDedicated(w)
    BY <2>7 DEF ReadDedicated
  <2>8. CASE ReadGraduation(w)
    BY <2>8 DEF ReadGraduation
  <2>9. QED
    BY <2>1, <2>2, <2>3, <2>4, <2>5, <2>6, <2>7, <2>8
       DEF WorkerStep, ReadConfluence, FindMatch, InsertConfluence
<1>7. CASE ReadConfluence(w)
  <2>1. work'[w] = Idle \/ work'[w] = [job EXCEPT !.pc = "match"]
    BY <1>1, <1>7 DEF ReadConfluence, Becomes
  <2>2. job.pc = "confluence"
    BY <1>7 DEF ReadConfluence
  <2>3. KnowsItsSignal([job EXCEPT !.pc = "match"])
    BY <1>1, <1>2, <2>2 DEF KnowsItsSignal, Jobs
  <2>4. QED
    BY <1>3, <2>1, <2>3
<1>8. CASE FindMatch(w)
  <2> DEFINE e == job.signal.event
             next(m) == [job EXCEPT !.pc = "copy", !.signal = Own(IF Source[e] = "scanner" THEN e ELSE m)]
  <2>1. job.pc = "match" /\ job.path = "confluence" /\ job.signal = Own(e)
        /\ Source[e] \in {"scanner", "chartink"}
        /\ IsRecorded(Own(e)) /\ UNCHANGED created
    BY <1>1, <1>2, <1>8, SignalFacts DEF FindMatch, SourcesWithConfluence, IntakeInv, WorkInv
  <2>2. work'[w] = Idle \/ \E m \in Matches(e) : work'[w] = next(m)
    BY <1>1, <1>8 DEF FindMatch, Becomes
  <2>3. ASSUME NEW m \in Matches(e)
        PROVE  KnowsItsSignal(next(m))
    <3>1. /\ m \in Events /\ Source[m] = OtherSource(e) /\ Pair[m] = Pair[e]
          /\ created[Own(m)] > window
      BY DEF Matches
    <3>2. created[Own(m)] # 0
      BY <1>1, <3>1, SignalFacts DEF TypeOK
    <3>3. /\ next(m).pc = "copy" /\ next(m).path = "confluence"
          /\ next(m).signal = Own(IF Source[e] = "scanner" THEN e ELSE m)
      BY <1>1, <2>1 DEF Jobs
    <3>4. CASE Source[e] = "scanner"
      BY <1>1, <2>1, <3>1, <3>2, <3>3, <3>4 DEF KnowsItsSignal, OtherSource, Own
    <3>5. CASE Source[e] = "chartink"
      BY <1>1, <2>1, <3>1, <3>3, <3>5 DEF KnowsItsSignal, OtherSource, Own, IsRecorded
    <3>6. QED
      BY <2>1, <3>4, <3>5
  <2>4. QED
    BY <1>3, <2>2, <2>3
<1>9. CASE InsertConfluence(w)
  <2> DEFINE s == Confluence(job.signal.event)
             next == [job EXCEPT !.pc = "graduation", !.signal = s]
  <2>1. job.pc = "copy" /\ job.path = "confluence"
    BY <1>9 DEF InsertConfluence, IntakeInv, PathInv
  <2>2. work'[w] = Idle \/ work'[w] = next
    BY <1>1, <1>9 DEF InsertConfluence, Becomes
  <2>3. KnowsItsSignal(next)
    BY <1>1, <2>1 DEF KnowsItsSignal, Jobs
  <2>4. QED
    BY <1>3, <2>2, <2>3
<1>10. CASE WorkerFails(w)
  <2>1. job.pc # "idle" /\ (work'[w] = Idle \/ work'[w] = NextPath(job))
    BY <1>1, <1>10 DEF WorkerFails, Becomes
  <2>2. QED
    BY <1>3, <1>4, <2>1
<1>11. QED
  BY <1>6, <1>7, <1>8, <1>9, <1>10 DEF WorkerStep, InsertSignal, ReadGeneral, CountOpen,
       CheckExists, SubmitEntry, RecordOrder, ReadDedicated, ReadGraduation

\* What a thread knows stays true while others step.
LEMMA ConfluenceStep ==
    ASSUME IntakeInv, [Next]_vars
    PROVE  PathInv' /\ ConfluenceIsConfirmed'
<1>1. TypeOK /\ PathInv /\ ConfluenceIsConfirmed /\ work \in [Workers -> Jobs]
  BY DEF IntakeInv, TypeOK
<1>2. \A e \in Events :
        /\ IsRecorded(Own(e)) => created'[Own(e)] # 0
        /\ Own(e) \in SignalIds /\ Confluence(e) \in SignalIds
  BY <1>1, CreatedStep, SignalFacts DEF IsRecorded
<1>3. ASSUME NEW w \in Workers PROVE KnowsItsSignal(work'[w])
  <2>1. CASE work'[w] = work[w]
    <3>1. work[w].pc = "copy" =>
            \E c \in Events : /\ Source[c] = "chartink" /\ created'[Own(c)] # 0
                              /\ Pair[c] = Pair[work[w].signal.event]
      BY <1>1, <1>2 DEF PathInv
    <3>2. QED
      BY <1>1, <2>1, <3>1 DEF PathInv, KnowsItsSignal
  <2>2. CASE WorkerStep(w) \/ WorkerFails(w)
    BY <2>2, StepKnowsItsSignal
  <2>3. CASE \E e \in Events : Receive(w, e)
    <3>1. PICK e \in Events : Receive(w, e)
      BY <2>3
    <3>2. work'[w] = Job("insert", Own(e), "general", "paper")
      BY <1>1, <3>1 DEF Receive, Becomes
    <3>3. QED
      BY <3>2 DEF KnowsItsSignal, Job, Own
  <2>4. CASE Crash
    BY <2>4, JobFacts DEF Crash, KnowsItsSignal
  <2>5. ASSUME NEW v \in Workers \ {w}, \E job : work' = [work EXCEPT ![v] = job]
        PROVE  work'[w] = work[w]
    BY <1>1, <2>5
  <2>6. ASSUME NEW v \in Workers, WorkerStep(v) \/ WorkerFails(v) \/ \E e \in Events : Receive(v, e)
        PROVE  \E job : work' = [work EXCEPT ![v] = job]
    <3>1. CASE WorkerStep(v) \/ WorkerFails(v)
      BY <3>1, StepIsGood
    <3>2. CASE \E e \in Events : Receive(v, e)
      BY <3>2 DEF Receive, Becomes
    <3>3. QED
      BY <2>6, <3>1, <3>2
  <2>7. CASE UNCHANGED work
    BY <2>1, <2>7
  <2>8. QED
    BY <2>1, <2>2, <2>3, <2>4, <2>5, <2>6, <2>7
       DEF Next, vars, CloseHit, CloseByHand, CheckGraduation, SaveSettings, WindowMoves
<1>4. PathInv'
  BY <1>3 DEF PathInv, KnowsItsSignal, IsRecorded
<1>5. ASSUME NEW s \in Events, created'[Confluence(s)] # 0
      PROVE  /\ Source[s] = "scanner" /\ created'[Own(s)] # 0
             /\ \E c \in Events : /\ Source[c] = "chartink" /\ Pair[c] = Pair[s]
                                  /\ created'[Own(c)] # 0
  <2>1. CASE IsRecorded(Confluence(s))
    BY <1>1, <1>2, <2>1 DEF ConfluenceIsConfirmed
  <2>2. CASE \E w \in Workers : InsertConfluence(w)
    <3>1. PICK w \in Workers : InsertConfluence(w)
      BY <2>2
    <3>2. CASE ~IsRecorded(Confluence(s))
      <4>1. work[w].signal.event = s /\ work[w].pc = "copy"
        <5>1. work[w].signal.event \in Events
          BY <1>1 DEF Jobs, SignalIds
        <5>2. created' = [created EXCEPT ![Confluence(work[w].signal.event)] = Now]
              \/ created' = created
          BY <3>1 DEF InsertConfluence
        <5>3. Confluence(work[w].signal.event) = Confluence(s)
          BY <1>1, <1>2, <1>5, <3>2, <5>1, <5>2 DEF IsRecorded, TypeOK
        <5>4. QED
          BY <3>1, <5>3 DEF Confluence, InsertConfluence
      <4>2. work[w].signal = Own(s)
        BY <1>1, <4>1, SignalFacts DEF PathInv, Jobs
      <4>3. IsRecorded(Own(s))
        BY <4>1, <4>2 DEF IntakeInv, WorkInv
      <4>4. Source[s] = "scanner"
            /\ \E c \in Events : Source[c] = "chartink" /\ IsRecorded(Own(c)) /\ Pair[c] = Pair[s]
        BY <1>1, <4>1 DEF PathInv
      <4>5. QED
        BY <1>2, <4>3, <4>4
    <3>3. QED
      BY <2>1, <3>2
  <2>3. CASE \E w \in Workers : InsertSignal(w)
    <3>1. PICK w \in Workers : InsertSignal(w)
      BY <2>3
    <3>2. work[w].signal.kind = "own" /\ work[w].signal \in SignalIds
      BY <1>1, <3>1 DEF InsertSignal, IntakeInv, WorkInv, PathInv, Jobs
    <3>3. work[w].signal # Confluence(s)
      BY <3>2 DEF Confluence
    <3>4. created'[Confluence(s)] = created[Confluence(s)]
      BY <1>1, <1>2, <3>1, <3>2, <3>3 DEF InsertSignal, TypeOK
    <3>5. QED
      BY <1>5, <2>1, <3>4 DEF IsRecorded
  <2>4. CASE UNCHANGED created
    BY <1>5, <2>1, <2>4 DEF IsRecorded
  <2>5. CASE /\ \E w \in Workers : WorkerStep(w)
             /\ ~\E w \in Workers : InsertSignal(w) \/ InsertConfluence(w)
    BY <2>4, <2>5 DEF WorkerStep, ReadGeneral, CountOpen, CheckExists, SubmitEntry, RecordOrder,
                      ReadDedicated, ReadGraduation, ReadConfluence, FindMatch
  <2>6. QED
    BY <2>2, <2>3, <2>4, <2>5
       DEF Next, vars, WorkerFails, Receive, CloseHit, CloseByHand, CheckGraduation,
           SaveSettings, WindowMoves, Crash
<1>6. ConfluenceIsConfirmed'
  BY <1>5 DEF ConfluenceIsConfirmed, IsRecorded
<1>7. QED
  BY <1>4, <1>6

-----------------------------------------------------------------------------
(* The theorems.                                                            *)

\* The inductive invariant of the intake holds from the start ...
LEMMA IntakeInit == Init => IntakeInv
<1> SUFFICES ASSUME Init PROVE IntakeInv
  OBVIOUS
<1>1. orders \in Seq(Order) /\ OrderIds = {}
  <2>1. Len(<<>>) = 0 /\ <<>> \in Seq(Order)
    BY EmptySeq
  <2>2. QED
    BY <2>1, LenProperties DEF Init, OrderIds
<1>2. TypeOK
  BY <1>1, JobFacts, SettingsAssumption DEF Init, TypeOK, Modes
<1>3. OneOrderPerSignal /\ OrdersInv
  BY <1>1 DEF OneOrderPerSignal, OrdersInv
<1>4. \A w \in Workers : work[w].pc = "idle" /\ work[w].path = "general"
  BY JobFacts DEF Init
<1>5. WorkInv /\ PathInv
  BY <1>4 DEF WorkInv, PathInv, Holding
<1>6. ConfluenceIsConfirmed
  BY SignalFacts DEF Init, ConfluenceIsConfirmed, IsRecorded
<1>7. QED
  BY <1>2, <1>3, <1>5, <1>6 DEF IntakeInv

\* ... and every step keeps it.
THEOREM IntakeHolds == Spec => []IntakeInv
<1>1. IntakeInv /\ [Next]_vars => IntakeInv'
  BY TypeStep, WorkInvStep, OneOrderStep, ConfluenceStep DEF IntakeInv
<1>2. QED
  BY IntakeInit, <1>1, PTL DEF Spec

\* Types: every variable of AutoTrade stays in its type.
THEOREM IntakeTypes == Spec => []TypeOK
<1>1. IntakeInv => TypeOK
  BY DEF IntakeInv
<1>2. QED
  BY IntakeHolds, <1>1, PTL

\* One signal never produces more than one order (db.py:1529), for any number of
\* threads, events, deliveries, settings, exceptions and crashes.
THEOREM OrdersAreUnique == Spec => []OneOrderPerSignal
<1>1. IntakeInv => OneOrderPerSignal
  BY DEF IntakeInv
<1>2. QED
  BY IntakeHolds, <1>1, PTL

\* A confluence signal always stands for a recorded scanner and a recorded
\* Chartink signal that agree (confluence.py:1).
THEOREM ConfluencesAreConfirmed == Spec => []ConfluenceIsConfirmed
<1>1. IntakeInv => ConfluenceIsConfirmed
  BY DEF IntakeInv
<1>2. QED
  BY IntakeHolds, <1>1, PTL

-----------------------------------------------------------------------------
(* The limit of open positions.                                             *)

\* Only a count below the limit adds a thread to the committed ones.
LEMMA CommittedShrink ==
    ASSUME IntakeInv, [Next]_vars, NEW mode \in Modes,
           NEW v \in Workers, v \in Committed(mode)', v \notin Committed(mode)
    PROVE  CountOpen(v) /\ work[v].mode = mode /\ Cardinality(Open(mode)) < OpenLimit
<1> DEFINE job == work[v]
           InCommitted(j) == j.pc \in {"check", "submit", "record"} /\ j.path = "general" /\ j.mode = mode
<1>1. work \in [Workers -> Jobs] /\ job \in Jobs /\ InCommitted(work'[v]) /\ ~InCommitted(job)
  BY DEF IntakeInv, TypeOK, Committed
<1>2. work'[v] # job /\ work'[v] # Idle /\ work'[v] # NextPath(job)
  BY <1>1, JobFacts, NextPathFacts
<1>3. WorkerStep(v)
  <2>1. ASSUME NEW u \in Workers \ {v}, \E j : work' = [work EXCEPT ![u] = j]
        PROVE  FALSE
    BY <1>1, <1>2, <2>1
  <2>2. ASSUME NEW u \in Workers, WorkerStep(u) PROVE u = v
    BY <2>1, <2>2, StepIsGood
  <2>3. ~\E u \in Workers : WorkerFails(u)
    <3>1. ASSUME NEW u \in Workers, WorkerFails(u) PROVE FALSE
      <4>1. u = v
        BY <2>1, <3>1 DEF WorkerFails, Becomes
      <4>2. QED
        BY <1>1, <1>2, <3>1, <4>1 DEF WorkerFails, Becomes
    <3>2. QED
      BY <3>1
  <2>4. ~\E u \in Workers, e \in Events : Receive(u, e)
    <3>1. ASSUME NEW u \in Workers, NEW e \in Events, Receive(u, e) PROVE FALSE
      <4>1. u = v
        BY <2>1, <3>1 DEF Receive, Becomes
      <4>2. work'[v] = Job("insert", Own(e), "general", "paper")
        BY <1>1, <3>1, <4>1 DEF Receive, Becomes
      <4>3. QED
        BY <1>1, <4>2 DEF Job
    <3>2. QED
      BY <3>1
  <2>5. ~Crash
    BY <1>2 DEF Crash
  <2>6. work' # work
    BY <1>2
  <2>7. QED
    BY <2>2, <2>3, <2>4, <2>5, <2>6
       DEF Next, vars, CloseHit, CloseByHand, CheckGraduation, SaveSettings, WindowMoves
<1>4. CountOpen(v)
  <2> USE <1>1, <1>2 DEF Becomes
  <2>1. ~InsertSignal(v)
    BY DEF InsertSignal, Jobs
  <2>2. ~ReadGeneral(v)
    BY DEF ReadGeneral, Jobs
  <2>3. ~CheckExists(v)
    BY DEF CheckExists, Jobs
  <2>4. ~SubmitEntry(v)
    <3>1. ASSUME NEW result \in BrokerResults, job.pc = "submit",
                 work' = [work EXCEPT ![v] = IF result = "filled" THEN [job EXCEPT !.pc = "record"]
                                             ELSE NextPath(job)]
          PROVE  FALSE
      BY <3>1 DEF Jobs
    <3>2. QED
      BY <3>1 DEF SubmitEntry
  <2>5. ~RecordOrder(v)
    BY DEF RecordOrder
  <2>6. ~ReadDedicated(v)
    BY DEF ReadDedicated, Jobs
  <2>7. ~ReadGraduation(v)
    <3>1. ASSUME NEW m, job.pc = "graduation", work' = [work EXCEPT ![v] = [job EXCEPT !.pc = "check", !.mode = m]]
          PROVE  FALSE
      <4>1. job.path # "general"
        BY <3>1 DEF IntakeInv, PathInv
      <4>2. work'[v].path = job.path
        BY <3>1 DEF Jobs
      <4>3. QED
        BY <4>1, <4>2
    <3>2. QED
      BY <3>1 DEF ReadGraduation
  <2>8. ~ReadConfluence(v)
    BY DEF ReadConfluence, Jobs
  <2>9. ~FindMatch(v)
    <3>1. ASSUME FindMatch(v) PROVE \E s : work'[v] = [job EXCEPT !.pc = "copy", !.signal = s]
      BY <3>1 DEF FindMatch
    <3>2. QED
      BY <3>1 DEF Jobs
  <2>10. ~InsertConfluence(v)
    BY DEF InsertConfluence, Jobs
  <2>11. QED
    BY <1>3, <2>1, <2>2, <2>3, <2>4, <2>5, <2>6, <2>7, <2>8, <2>9, <2>10 DEF WorkerStep
<1>5. Cardinality(Open(job.mode)) < OpenLimit /\ work'[v] = [job EXCEPT !.pc = "check"]
  <2>1. work'[v] = IF Cardinality(Open(job.mode)) >= OpenLimit THEN NextPath(job)
                   ELSE [job EXCEPT !.pc = "check"]
    BY <1>1, <1>4 DEF CountOpen, Becomes
  <2>2. ~(Cardinality(Open(job.mode)) >= OpenLimit)
    BY <1>2, <2>1
  <2>3. Cardinality(Open(job.mode)) \in Nat /\ OpenLimit \in Nat
    <3>1. OrderIds = 1..Len(orders) /\ Len(orders) \in Nat
      BY LenProperties DEF IntakeInv, TypeOK, OrderIds
    <3>2. IsFiniteSet(OrderIds) /\ Open(job.mode) \subseteq OrderIds
      BY <3>1, FS_Interval DEF Open
    <3>3. QED
      BY <3>2, FS_Subset, FS_CardinalityType, SettingsAssumption
  <2>4. QED
    BY <2>1, <2>2, <2>3
<1>6. QED
  BY <1>1, <1>4, <1>5 DEF Jobs

LEMMA AtMostOneMore == ASSUME NEW S, IsFiniteSet(S), NEW x
                       PROVE  IsFiniteSet(S \cup {x}) /\ Cardinality(S \cup {x}) <= Cardinality(S) + 1
<1>1. Cardinality(S) \in Nat
  BY FS_CardinalityType
<1>2. IsFiniteSet(S \cup {x})
  BY FS_AddElement
<1>3. \/ Cardinality(S \cup {x}) = Cardinality(S)
      \/ Cardinality(S \cup {x}) = Cardinality(S) + 1
  BY FS_AddElement
<1>4. QED
  BY <1>1, <1>2, <1>3

\* Each thread adds at most one order to those the limit has let through.
LEMMA LimitStep == ASSUME IntakeInv, LimitInv, [Next]_vars PROVE LimitInv'
<1> SUFFICES ASSUME NEW mode \in Modes
             PROVE  Cardinality(GeneralOpen(mode)') + Cardinality(Committed(mode)')
                        <= OpenLimit + Cardinality(Workers) - 1
  BY DEF LimitInv
<1> DEFINE G == GeneralOpen(mode)
           C == Committed(mode)
           n == Len(orders) + 1
<1>1. TypeOK /\ TypeOK' /\ work \in [Workers -> Jobs] /\ work' \in [Workers -> Jobs]
  BY TypeStep DEF IntakeInv, TypeOK
<1>2. /\ IsFiniteSet(OrderIds) /\ IsFiniteSet(OrderIds') /\ IsFiniteSet(Workers)
      /\ Cardinality(Workers) \in Nat /\ OpenLimit \in Nat
  <2>1. OrderIds = 1..Len(orders) /\ Len(orders) \in Nat
    BY <1>1, LenProperties DEF TypeOK, OrderIds
  <2>2. OrderIds' = 1..Len(orders') /\ Len(orders') \in Nat
    BY <1>1, LenProperties DEF TypeOK, OrderIds
  <2>3. QED
    BY <2>1, <2>2, FS_Interval, FS_CardinalityType, BoundsAssumption, SettingsAssumption
<1>3. /\ G \subseteq OrderIds /\ G' \subseteq OrderIds' /\ C \subseteq Workers /\ C' \subseteq Workers
  BY DEF GeneralOpen, Open, Committed
<1>4. /\ IsFiniteSet(G) /\ IsFiniteSet(G') /\ IsFiniteSet(C) /\ IsFiniteSet(C')
      /\ Cardinality(G) \in Nat /\ Cardinality(G') \in Nat
      /\ Cardinality(C) \in Nat /\ Cardinality(C') \in Nat
      /\ Cardinality(C') <= Cardinality(Workers)
  BY <1>2, <1>3, FS_Subset, FS_CardinalityType
<1>5. Cardinality(G) + Cardinality(C) <= OpenLimit + Cardinality(Workers) - 1
  BY DEF LimitInv
<1>6. CASE ~(C' \subseteq C)
  <2>1. PICK v \in Workers : v \in C' /\ v \notin C
    BY <1>3, <1>6
  <2>2. CountOpen(v) /\ Cardinality(Open(mode)) < OpenLimit
    BY <2>1, CommittedShrink
  <2>3. G' = G
    BY <2>2 DEF CountOpen, GeneralOpen, Open, OrderIds
  <2>4. Open(mode) \subseteq OrderIds /\ G \subseteq Open(mode)
    BY DEF Open, GeneralOpen
  <2>5. IsFiniteSet(Open(mode))
    BY <1>2, <2>4, FS_Subset
  <2>6. Cardinality(G) <= Cardinality(Open(mode)) /\ Cardinality(Open(mode)) \in Nat
    BY <2>4, <2>5, FS_Subset, FS_CardinalityType
  <2>7. QED
    BY <1>2, <1>4, <2>2, <2>3, <2>6
<1>7. CASE C' \subseteq C
  <2>1. Cardinality(C') <= Cardinality(C)
    BY <1>4, <1>7, FS_Subset
  <2>2. \A i \in OrderIds : i \in G' => i \in G
    BY <1>1, OrdersGrow DEF GeneralOpen, Open
  <2>3. CASE OrderIds' = OrderIds
    <3>1. G' \subseteq G
      BY <1>3, <2>2, <2>3
    <3>2. Cardinality(G') <= Cardinality(G)
      BY <1>4, <3>1, FS_Subset
    <3>3. QED
      BY <1>2, <1>4, <1>5, <2>1, <3>2
  <2>4. ASSUME NEW w \in Workers, RecordOrder(w), OrderIds' = OrderIds \cup {n}, n \notin OrderIds,
               orders'[n].mode = work[w].mode, orders'[n].path = work[w].path
        PROVE  Cardinality(G') + Cardinality(C') <= OpenLimit + Cardinality(Workers) - 1
    <3>1. CASE n \notin G'
      <4>1. G' \subseteq G
        BY <1>3, <2>2, <2>4, <3>1
      <4>2. Cardinality(G') <= Cardinality(G)
        BY <1>4, <4>1, FS_Subset
      <4>3. QED
        BY <1>2, <1>4, <1>5, <2>1, <4>2
    <3>2. CASE n \in G'
      <4>1. work[w].mode = mode /\ work[w].path = "general" /\ work[w].pc = "record"
        BY <2>4, <3>2 DEF GeneralOpen, Open, RecordOrder
      <4>2. w \in C
        BY <4>1 DEF Committed
      <4>3. work'[w] = NextPath(work[w])
        BY <1>1, <2>4 DEF RecordOrder, Becomes
      <4>4. w \notin C'
        BY <1>1, <4>3, NextPathFacts DEF Committed
      <4>5. C' \subseteq C \ {w}
        BY <1>7, <4>4
      <4>6. IsFiniteSet(C \ {w}) /\ Cardinality(C \ {w}) = Cardinality(C) - 1
        BY <1>4, <4>2, FS_RemoveElement
      <4>7. Cardinality(C') <= Cardinality(C) - 1
        BY <4>5, <4>6, FS_Subset
      <4>8. G' \subseteq G \cup {n}
        BY <1>3, <2>2, <2>4
      <4>9. IsFiniteSet(G \cup {n}) /\ Cardinality(G \cup {n}) <= Cardinality(G) + 1
        BY <1>4, AtMostOneMore
      <4>10. Cardinality(G') <= Cardinality(G) + 1
        <5>1. Cardinality(G') <= Cardinality(G \cup {n}) /\ Cardinality(G \cup {n}) \in Nat
          BY <4>8, <4>9, FS_Subset, FS_CardinalityType
        <5>2. QED
          BY <1>4, <4>9, <5>1
      <4>11. QED
        BY <1>2, <1>4, <1>5, <4>7, <4>10
    <3>3. QED
      BY <3>1, <3>2
  <2>5. QED
    BY <1>1, <2>3, <2>4, OrdersGrow
<1>8. QED
  BY <1>6, <1>7

LEMMA LimitInit == ASSUME Init PROVE LimitInv
<1>1. \A mode \in Modes : GeneralOpen(mode) = {} /\ Committed(mode) = {}
  <2>1. Len(<<>>) = 0 /\ orders = <<>>
    BY EmptySeq DEF Init
  <2>2. OrderIds = {}
    BY <2>1, EmptySeq, LenProperties DEF OrderIds
  <2>3. \A w \in Workers : work[w].pc = "idle"
    BY JobFacts DEF Init
  <2>4. QED
    BY <2>2, <2>3 DEF GeneralOpen, Open, Committed
<1>2. Cardinality({}) = 0
  BY FS_EmptySet
<1>3. Cardinality(Workers) \in Nat \ {0} /\ OpenLimit \in Nat
  BY BoundsAssumption, SettingsAssumption, FS_EmptySet, FS_CardinalityType
<1>4. QED
  BY <1>1, <1>2, <1>3 DEF LimitInv

\* The general auto-trade never holds more than max_open_positions orders open
\* in a mode, plus one per further thread (trading.py:206), however the threads
\* interleave.
THEOREM OvershootIsBounded == Spec => []LimitOvershootBounded
<1>1. IntakeInv /\ LimitInv /\ [Next]_vars => LimitInv'
  BY LimitStep
<1>2. Init => LimitInv
  BY LimitInit
<1>3. IntakeInv /\ LimitInv => LimitOvershootBounded
  <2> SUFFICES ASSUME IntakeInv, LimitInv, NEW mode \in Modes
               PROVE  Cardinality(GeneralOpen(mode)) <= OpenLimit + Cardinality(Workers) - 1
    BY DEF LimitOvershootBounded
  <2>1. OrderIds = 1..Len(orders) /\ Len(orders) \in Nat
    BY LenProperties DEF IntakeInv, TypeOK, OrderIds
  <2>2. /\ IsFiniteSet(OrderIds) /\ GeneralOpen(mode) \subseteq OrderIds
        /\ IsFiniteSet(Workers) /\ Committed(mode) \subseteq Workers
    BY <2>1, FS_Interval, BoundsAssumption DEF GeneralOpen, Open, Committed
  <2>3. /\ Cardinality(GeneralOpen(mode)) \in Nat /\ Cardinality(Committed(mode)) \in Nat
        /\ Cardinality(Workers) \in Nat /\ OpenLimit \in Nat
    BY <2>2, FS_Subset, FS_CardinalityType, SettingsAssumption
  <2>4. QED
    BY <2>3 DEF LimitInv
<1>4. QED
  BY IntakeHolds, <1>1, <1>2, <1>3, PTL DEF Spec

-----------------------------------------------------------------------------
(* The real orders the broker executed, and the table.                      *)

\* A step of one thread leaves the others where they are.
LEMMA OthersStay ==
    ASSUME IntakeInv, [Next]_vars, NEW w \in Workers,
           WorkerStep(w) \/ WorkerFails(w) \/ \E e \in Events : Receive(w, e)
    PROVE  \E job \in Jobs : /\ work' = [work EXCEPT ![w] = job]
                             /\ work'[w] = job
                             /\ \A v \in Workers \ {w} : work'[v] = work[v]
<1>1. work \in [Workers -> Jobs]
  BY DEF IntakeInv, TypeOK
<1>2. \E job \in Jobs : work' = [work EXCEPT ![w] = job]
  <2>1. CASE WorkerStep(w) \/ WorkerFails(w)
    BY <2>1, StepIsGood DEF GoodJob
  <2>2. CASE \E e \in Events : Receive(w, e)
    BY <2>2, JobFacts DEF Receive, Becomes
  <2>3. QED
    BY <2>1, <2>2
<1>3. QED
  BY <1>1, <1>2

\* Only a live order is about to be placed, and only placing it makes a thread
\* record a live one.
LEMMA EntryJob ==
    ASSUME IntakeInv, EntryInv, [Next]_vars, NEW w \in Workers,
           WorkerStep(w) \/ WorkerFails(w) \/ \E e \in Events : Receive(w, e)
    PROVE  /\ work'[w].pc = "submit" => work'[w].mode = "live"
           /\ work'[w].pc = "record" /\ work'[w].mode = "live" => SubmitEntry(w)
<1> DEFINE job == work[w]
<1>1. /\ job \in Jobs /\ work \in [Workers -> Jobs]
      /\ \A next : work' = [work EXCEPT ![w] = next] => work'[w] = next
  BY DEF IntakeInv, TypeOK
<1>2. NextPath(job).pc \notin {"submit", "record"} /\ Idle.pc \notin {"submit", "record"}
  BY <1>1, NextPathFacts, JobFacts
<1>3. ASSUME NEW pc \in Pcs, NEW mode, NEW s
      PROVE  /\ [job EXCEPT !.pc = pc].pc = pc /\ [job EXCEPT !.pc = pc].mode = job.mode
             /\ [job EXCEPT !.pc = pc, !.mode = mode].pc = pc
             /\ [job EXCEPT !.pc = pc, !.signal = s].pc = pc
  BY <1>1 DEF Jobs
<1>4. {"count", "check", "graduation", "match", "copy", "general", "submit", "record"} \subseteq Pcs
  BY DEF Pcs
<1>5. CASE CheckExists(w)
  <2> DEFINE next == [job EXCEPT !.pc = IF job.mode = "live" THEN "submit" ELSE "record"]
  <2>1. work'[w] = NextPath(job) \/ work'[w] = next
    BY <1>1, <1>5 DEF CheckExists, Becomes
  <2>2. next.mode = job.mode /\ next.pc = IF job.mode = "live" THEN "submit" ELSE "record"
    BY <1>3, <1>4
  <2>3. CASE work'[w] = next
    <3>1. work'[w].mode = job.mode /\ work'[w].pc = IF job.mode = "live" THEN "submit" ELSE "record"
      BY <2>2, <2>3
    <3>2. QED
      BY <3>1
  <2>4. CASE work'[w] = NextPath(job)
    BY <1>2, <2>4
  <2>5. QED
    BY <2>1, <2>3, <2>4
<1>6. CASE SubmitEntry(w)
  <2>1. work'[w] = NextPath(job) \/ work'[w] = [job EXCEPT !.pc = "record"]
    BY <1>1, <1>6 DEF SubmitEntry, Becomes
  <2>2. QED
    BY <1>2, <1>3, <1>4, <1>6, <2>1
<1>7. CASE WorkerStep(w) /\ ~CheckExists(w) /\ ~SubmitEntry(w)
  <2>1. work'[w].pc \notin {"submit", "record"}
    <3> USE <1>1, <1>2, <1>3, <1>4 DEF Becomes
    <3>1. CASE InsertSignal(w)
      BY <3>1 DEF InsertSignal
    <3>2. CASE ReadGeneral(w)
      <4>1. \/ work'[w] = [job EXCEPT !.pc = "count", !.mode = general.mode]
            \/ work'[w] = NextPath(job)
        BY <3>2 DEF ReadGeneral
      <4>2. [job EXCEPT !.pc = "count", !.mode = general.mode].pc = "count"
        OBVIOUS
      <4>3. QED
        BY <4>1, <4>2
    <3>3. CASE CountOpen(w)
      BY <3>3 DEF CountOpen
    <3>4. CASE RecordOrder(w)
      BY <3>4 DEF RecordOrder
    <3>5. CASE ReadDedicated(w)
      BY <3>5 DEF ReadDedicated
    <3>6. CASE ReadGraduation(w)
      <4>1. work'[w] = [job EXCEPT !.pc = "check", !.mode = graduated[ChannelOf(job.signal)]]
        BY <3>6 DEF ReadGraduation
      <4>2. work'[w].pc = "check"
        BY <4>1
      <4>3. QED
        BY <4>2
    <3>7. CASE ReadConfluence(w)
      BY <3>7 DEF ReadConfluence
    <3>8. CASE FindMatch(w)
      <4> DEFINE e == job.signal.event
                 next(m) == [job EXCEPT !.pc = "copy", !.signal = Own(IF Source[e] = "scanner" THEN e ELSE m)]
      <4>1. work'[w] = Idle \/ \E m \in Matches(e) : work'[w] = next(m)
        BY <3>8 DEF FindMatch
      <4>2. \A m : next(m).pc = "copy"
        OBVIOUS
      <4>3. QED
        BY <4>1, <4>2
    <3>9. CASE InsertConfluence(w)
      <4> DEFINE next == [job EXCEPT !.pc = "graduation", !.signal = Confluence(job.signal.event)]
      <4>1. work'[w] = Idle \/ work'[w] = next
        BY <3>9 DEF InsertConfluence
      <4>2. next.pc = "graduation"
        OBVIOUS
      <4>3. QED
        BY <4>1, <4>2
    <3>10. QED
      BY <1>7, <3>1, <3>2, <3>3, <3>4, <3>5, <3>6, <3>7, <3>8, <3>9 DEF WorkerStep
  <2>2. QED
    BY <2>1
<1>8. CASE WorkerFails(w)
  BY <1>1, <1>2, <1>8 DEF WorkerFails, Becomes
<1>9. CASE \E e \in Events : Receive(w, e)
  <2>1. PICK e \in Events : work'[w] = Job("insert", Own(e), "general", "paper")
    BY <1>1, <1>9 DEF Receive, Becomes
  <2>2. QED
    BY <2>1 DEF Job
<1>10. QED
  BY <1>5, <1>6, <1>7, <1>8, <1>9

\* Without a new row, a signal has a live row before a step if it has one after.
LEMMA SameLive ==
    ASSUME TypeOK, [Next]_vars, OrderIds' = OrderIds, NEW s
    PROVE  HasLive(s)' <=> HasLive(s)
<1>1. \A i \in OrderIds : orders'[i].signal = orders[i].signal /\ orders'[i].mode = orders[i].mode
  BY OrdersGrow
<1>2. OrderIds' = OrderIds
  OBVIOUS
<1>3. OrdersOf(s)' = OrdersOf(s)
  BY <1>1, <1>2 DEF OrdersOf
<1>4. QED
  BY <1>1, <1>3 DEF HasLive, OrdersOf

LEMMA RowsStay ==
    ASSUME TypeOK, [Next]_vars, ~\E w \in Workers : RecordOrder(w)
    PROVE  OrderIds' = OrderIds
  BY OrdersGrow

LEMMA EntryStep == ASSUME IntakeInv, EntryInv, [Next]_vars PROVE EntryInv'
<1>1. /\ TypeOK /\ work \in [Workers -> Jobs] /\ entered \in [SignalIds -> Nat]
      /\ faults \in Nat /\ lost \in Nat
      /\ \A w \in Workers : work[w] \in Jobs /\ work[w].signal \in SignalIds
  BY DEF IntakeInv, TypeOK, Jobs
<1> DEFINE StepOf(w) == WorkerStep(w) \/ WorkerFails(w) \/ \E e \in Events : Receive(w, e)
<1>2. \A w \in Workers : work'[w].pc = "submit" => work'[w].mode = "live"
  <2>1. CASE work' = work
    BY <2>1 DEF EntryInv
  <2>2. CASE Crash
    BY <2>2, JobFacts DEF Crash
  <2>3. CASE \E v \in Workers : StepOf(v)
    <3>1. PICK v \in Workers : StepOf(v)
      BY <2>3
    <3>2. \A w \in Workers \ {v} : work'[w] = work[w]
      BY <3>1, OthersStay
    <3>3. work'[v].pc = "submit" => work'[v].mode = "live"
      BY <3>1, EntryJob
    <3>4. QED
      BY <3>2, <3>3 DEF EntryInv
  <2>4. QED
    BY <2>1, <2>2, <2>3 DEF Next, vars, CloseHit, CloseByHand, CheckGraduation,
                            SaveSettings, WindowMoves
<1>3. SUFFICES ASSUME faults' = 0, lost' = 0, NEW s \in SignalIds
               PROVE  entered'[s] = IF HasLive(s)' \/ Recording(s)' # {} THEN 1 ELSE 0
  BY <1>2 DEF EntryInv
<1>4. ASSUME \A w \in Workers :
                 (work'[w].pc = "record" /\ work'[w].mode = "live" /\ work'[w].signal = s)
                 <=> w \in Recording(s)
      PROVE  Recording(s)' = Recording(s)
  BY <1>4 DEF Recording
<1>5. CASE \E w \in Workers : SubmitEntry(w)
  <2>1. PICK w \in Workers : SubmitEntry(w)
    BY <1>5
  <2> DEFINE job == work[w]
             next == [job EXCEPT !.pc = "record"]
  <2>2. PICK result \in BrokerResults :
            /\ lost' = IF result = "lost" THEN lost + 1 ELSE lost
            /\ entered' = IF result = "rejected" THEN entered
                          ELSE [entered EXCEPT ![job.signal] = @ + 1]
            /\ work' = [work EXCEPT ![w] = IF result = "filled" THEN next ELSE NextPath(job)]
    BY <2>1 DEF SubmitEntry, Becomes
  <2>3. result \in {"filled", "rejected"} /\ lost = 0 /\ faults = 0
    BY <1>1, <1>3, <2>1, <2>2, BoundsAssumption DEF SubmitEntry
  <2>4. /\ job.pc = "submit" /\ job.mode = "live" /\ OrdersOf(job.signal) = {}
        /\ \A v \in Workers \ {w} : work[v].pc = "record" => work[v].signal # job.signal
    BY <2>1 DEF SubmitEntry, EntryInv, IntakeInv, WorkInv, Holding
  <2>5. entered[s] = IF HasLive(s) \/ Recording(s) # {} THEN 1 ELSE 0
    BY <2>3 DEF EntryInv
  <2>6. HasLive(s)' <=> HasLive(s)
    <3>1. orders' = orders
      BY <2>1 DEF SubmitEntry
    <3>2. QED
      BY <3>1 DEF HasLive, OrdersOf, OrderIds
  <2>7. \A v \in Workers \ {w} : work'[v] = work[v]
    BY <1>1, <2>2
  <2>8. CASE result = "rejected"
    <3>1. work'[w] = NextPath(job) /\ NextPath(job).pc # "record" /\ entered' = entered
      BY <1>1, <2>2, <2>8, NextPathFacts
    <3>2. Recording(s)' = Recording(s)
      BY <1>4, <2>4, <2>7, <3>1 DEF Recording
    <3>3. QED
      BY <2>5, <2>6, <3>1, <3>2
  <2>9. CASE result = "filled"
    <3>1. work'[w] = next /\ next.pc = "record" /\ next.mode = "live" /\ next.signal = job.signal
      BY <1>1, <2>2, <2>4, <2>9 DEF Jobs
    <3>2. entered' = [entered EXCEPT ![job.signal] = @ + 1]
      BY <2>2, <2>9
    <3>3. CASE s = job.signal
      <4>1. ~HasLive(s) /\ Recording(s) = {}
        BY <2>4, <3>3 DEF HasLive, Recording
      <4>2. entered'[s] = 1
        BY <1>1, <2>5, <3>2, <3>3, <4>1
      <4>3. w \in Recording(s)'
        BY <3>1, <3>3 DEF Recording
      <4>4. QED
        BY <4>2, <4>3
    <3>4. CASE s # job.signal
      <4>1. Recording(s)' = Recording(s)
        BY <1>4, <2>4, <2>7, <3>1, <3>4 DEF Recording
      <4>2. entered'[s] = entered[s]
        BY <1>1, <3>2, <3>4
      <4>3. QED
        BY <2>5, <2>6, <4>1, <4>2
    <3>5. QED
      BY <3>3, <3>4
  <2>10. QED
    BY <2>3, <2>8, <2>9
<1>6. CASE \E w \in Workers : RecordOrder(w)
  <2>1. PICK w \in Workers : RecordOrder(w)
    BY <1>6
  <2> DEFINE job == work[w]
             o == [signal |-> job.signal, mode |-> job.mode, path |-> job.path,
                   status |-> "open", won |-> FALSE]
  <2>2. /\ orders' = Append(orders, o) /\ entered' = entered /\ lost = 0 /\ faults = 0
        /\ work' = [work EXCEPT ![w] = NextPath(job)] /\ job.pc = "record"
    BY <1>3, <2>1 DEF RecordOrder, Becomes
  <2>3. entered[s] = IF HasLive(s) \/ Recording(s) # {} THEN 1 ELSE 0
    BY <2>2 DEF EntryInv
  <2>4. /\ OrderIds' = OrderIds \cup {Len(orders) + 1}
        /\ \A i \in OrderIds : orders'[i] = orders[i]
        /\ orders'[Len(orders) + 1] = o
        /\ Len(orders) + 1 \notin OrderIds
    <3>1. orders \in Seq(Order) /\ OrderIds = 1..Len(orders) /\ Len(orders) \in Nat
      BY <1>1, LenProperties DEF TypeOK, OrderIds
    <3>2. o \in Order
      BY <1>1 DEF Jobs, Order, Exits
    <3>3. /\ orders' \in Seq(Order) /\ Len(orders') = Len(orders) + 1
          /\ \A i \in 1..Len(orders) : orders'[i] = orders[i]
          /\ orders'[Len(orders) + 1] = o
      BY <2>2, <3>1, <3>2, AppendProperties
    <3>4. OrderIds' = 1..Len(orders')
      BY <3>3, LenProperties DEF OrderIds
    <3>5. QED
      BY <3>1, <3>3, <3>4
  <2>5. HasLive(s)' <=> HasLive(s) \/ (s = job.signal /\ job.mode = "live")
    <3>1. OrdersOf(s)' = OrdersOf(s) \cup {i \in {Len(orders) + 1} : job.signal = s}
      BY <2>4 DEF OrdersOf
    <3>2. QED
      BY <2>4, <3>1 DEF HasLive, OrdersOf
  <2>6. /\ work'[w] = NextPath(job) /\ NextPath(job).pc # "record"
        /\ \A v \in Workers \ {w} : work'[v] = work[v]
    BY <1>1, <2>2, NextPathFacts
  <2>7. CASE s = job.signal /\ job.mode = "live"
    <3>1. w \in Recording(s)
      BY <2>2, <2>7 DEF Recording
    <3>2. QED
      BY <2>2, <2>3, <2>5, <2>7, <3>1
  <2>8. CASE ~(s = job.signal /\ job.mode = "live")
    <3>1. Recording(s)' = Recording(s)
      BY <1>4, <2>6, <2>8 DEF Recording
    <3>2. QED
      BY <2>2, <2>3, <2>5, <2>8, <3>1
  <2>9. QED
    BY <2>7, <2>8
<1>7. CASE ~\E w \in Workers : SubmitEntry(w) \/ RecordOrder(w)
  <2>1. faults' = faults + 1 \/ UNCHANGED <<entered, faults, lost>>
    <3>1. CASE \E w \in Workers : WorkerStep(w)
      BY <1>7, <3>1 DEF WorkerStep, InsertSignal, ReadGeneral, CountOpen, CheckExists,
                   ReadDedicated, ReadGraduation, ReadConfluence, FindMatch, InsertConfluence
    <3>2. CASE ~\E w \in Workers : WorkerStep(w)
      BY <3>2 DEF Next, vars, WorkerFails, Receive, CloseHit, CloseByHand, CheckGraduation,
                  SaveSettings, WindowMoves, Crash
    <3>3. QED
      BY <3>1, <3>2
  <2>2. UNCHANGED <<entered, faults, lost>> /\ faults = 0 /\ lost = 0
    BY <1>1, <1>3, <2>1
  <2>3. entered[s] = IF HasLive(s) \/ Recording(s) # {} THEN 1 ELSE 0
    BY <2>2 DEF EntryInv
  <2>4. HasLive(s)' <=> HasLive(s)
    BY <1>1, <1>7, RowsStay, SameLive
  <2>5. Recording(s)' = Recording(s)
    <3>1. CASE work' = work
      BY <3>1 DEF Recording
    <3>2. CASE \E v \in Workers : StepOf(v)
      <4>1. PICK v \in Workers : StepOf(v)
        BY <3>2
      <4>2. ~(work'[v].pc = "record" /\ work'[v].mode = "live")
        BY <1>7, <4>1, EntryJob
      <4>3. \A w \in Workers \ {v} : work'[w] = work[w]
        BY <4>1, OthersStay
      <4>4. ~(work[v].pc = "record" /\ work[v].mode = "live") 
        <5>1. CASE WorkerFails(v)
          BY <1>1, <2>2, <5>1 DEF WorkerFails
        <5>2. CASE WorkerStep(v) \/ \E e \in Events : Receive(v, e)
          BY <1>7, <5>2 DEF WorkerStep, InsertSignal, ReadGeneral, CountOpen, CheckExists,
             ReadDedicated, ReadGraduation, ReadConfluence, FindMatch, InsertConfluence, Receive
        <5>3. QED
          BY <4>1, <5>1, <5>2
      <4>5. QED
        BY <1>4, <4>2, <4>3, <4>4 DEF Recording
    <3>3. CASE Crash
      BY <1>1, <2>2, <3>3 DEF Crash
    <3>4. QED
      BY <3>1, <3>2, <3>3 DEF Next, vars, CloseHit, CloseByHand, CheckGraduation,
                              SaveSettings, WindowMoves
  <2>6. QED
    BY <2>2, <2>3, <2>4, <2>5
<1>8. QED
  BY <1>5, <1>6, <1>7

LEMMA EntryInit == ASSUME Init PROVE EntryInv
<1>1. \A w \in Workers : work[w].pc = "idle"
  BY JobFacts DEF Init
<1>2. OrderIds = {}
  <2>1. Len(<<>>) = 0 /\ <<>> \in Seq(Order)
    BY EmptySeq
  <2>2. QED
    BY <2>1, LenProperties DEF Init, OrderIds
<1>3. \A s : OrdersOf(s) = {} /\ Recording(s) = {}
  BY <1>1, <1>2 DEF OrdersOf, Recording
<1>4. \A s : ~HasLive(s)
  BY <1>3 DEF HasLive
<1>5. \A s \in SignalIds : entered[s] = 0
  BY DEF Init
<1>6. QED
  BY <1>1, <1>3, <1>4, <1>5 DEF EntryInv

\* A signal has one live row or none, and one thread records it or none, never both.
LEMMA EntryCount ==
    ASSUME IntakeInv, EntryInv, NEW s \in SignalIds, faults = 0, lost = 0
    PROVE  entered[s] = Cardinality({i \in OrdersOf(s) : orders[i].mode = "live"})
                        + Cardinality(Recording(s))
<1> DEFINE live == {i \in OrdersOf(s) : orders[i].mode = "live"}
<1>1. entered[s] = IF HasLive(s) \/ Recording(s) # {} THEN 1 ELSE 0
  BY DEF EntryInv
<1>2. HasLive(s) <=> live # {}
  BY DEF HasLive
<1>3. \A i, j \in live : i = j
  BY DEF IntakeInv, OneOrderPerSignal, OrdersOf
<1>4. \A v, w \in Recording(s) : v = w
  BY DEF IntakeInv, WorkInv, Recording, Holding
<1>5. live = {} \/ Recording(s) = {}
  BY DEF IntakeInv, WorkInv, Recording
<1>6. ASSUME NEW S, \A x, y \in S : x = y
      PROVE  Cardinality(S) = IF S # {} THEN 1 ELSE 0
  <2>1. CASE S = {}
    BY <2>1, FS_EmptySet
  <2>2. CASE S # {}
    <3>1. PICK x \in S : TRUE
      BY <2>2
    <3>2. S = {x}
      BY <1>6, <3>1
    <3>3. QED
      BY <2>2, <3>2, FS_Singleton
  <2>3. QED
    BY <2>1, <2>2
<1>7. Cardinality(live) = IF live # {} THEN 1 ELSE 0
  BY <1>3, <1>6
<1>8. Cardinality(Recording(s)) = IF Recording(s) # {} THEN 1 ELSE 0
  BY <1>4, <1>6
<1>9. QED
  BY <1>1, <1>2, <1>5, <1>7, <1>8

\* Without faults and lost answers every real order the broker executed has its row
\* in the table or a thread about to insert it (trading.py:350), for any threads,
\* events and settings: no path places a real order of a signal a second time.
THEOREM EntriesKnown == Spec => []EntriesAreKnown
<1>1. Init => IntakeInv /\ EntryInv
  BY IntakeInit, EntryInit
<1>2. IntakeInv /\ IntakeInv' /\ EntryInv /\ [Next]_vars => EntryInv'
  BY EntryStep
<1>3. IntakeInv /\ EntryInv => EntriesAreKnown
  BY EntryCount DEF EntriesAreKnown
<1>4. QED
  BY <1>1, <1>2, <1>3, IntakeHolds, PTL DEF Spec

-----------------------------------------------------------------------------
(* The confluence of two signals that agree.                                *)

\* The next path of a signal that can be confirmed leads to the confluence.
LEMMA NextPathHeads ==
    ASSUME NEW job \in Jobs, job.path # "confluence",
           Source[job.signal.event] \in SourcesWithConfluence
    PROVE  /\ NextPath(job).signal = job.signal
           /\ NextPath(job).pc \in {"dedicated", "confluence"}
<1>1. job.path \in {"general", "dedicated"}
  BY DEF Jobs
<1>2. Source[job.signal.event] \in SourcesWithOwnTrade
  BY DEF SourcesWithConfluence, SourcesWithOwnTrade
<1>3. QED
  BY <1>1, <1>2 DEF NextPath, AfterGeneral, AfterDedicated, Job

\* A thread on the confluence's path with a source's own signal is at one of the
\* confluence's steps.
OnItsPath(job) ==
    job.signal.kind = "own" /\ job.path = "confluence" => job.pc \in {"confluence", "match", "copy"}

LEMMA PathJob ==
    ASSUME IntakeInv, HeadingInv, [Next]_vars, NEW w \in Workers,
           WorkerStep(w) \/ WorkerFails(w) \/ \E e \in Events : Receive(w, e)
    PROVE  OnItsPath(work'[w])
<1> DEFINE job == work[w]
<1>1. /\ job \in Jobs /\ work \in [Workers -> Jobs]
      /\ \A next : work' = [work EXCEPT ![w] = next] => work'[w] = next
      /\ OnItsPath(job)
  BY DEF IntakeInv, TypeOK, HeadingInv, OnItsPath
<1>2. OnItsPath(NextPath(job)) /\ OnItsPath(Idle)
  BY <1>1, NextPathFacts, JobFacts DEF OnItsPath
<1>3. ASSUME NEW pc, NEW mode, job.pc \notin {"confluence", "match", "copy"}
      PROVE  /\ OnItsPath([job EXCEPT !.pc = pc])
             /\ OnItsPath([job EXCEPT !.pc = pc, !.mode = mode])
  BY <1>1, <1>3 DEF OnItsPath, Jobs
<1>4. CASE WorkerStep(w) /\ job.pc \notin {"confluence", "match", "copy"}
  <2> USE <1>1, <1>2, <1>3, <1>4 DEF Becomes
  <2>1. CASE InsertSignal(w)
    BY <2>1 DEF InsertSignal
  <2>2. CASE ReadGeneral(w)
    <3>1. \/ work'[w] = [job EXCEPT !.pc = "count", !.mode = general.mode]
          \/ work'[w] = NextPath(job)
      BY <2>2 DEF ReadGeneral
    <3>2. OnItsPath([job EXCEPT !.pc = "count", !.mode = general.mode])
      OBVIOUS
    <3>3. QED
      BY <3>1, <3>2
  <2>3. CASE CountOpen(w)
    BY <2>3 DEF CountOpen
  <2>4. CASE CheckExists(w)
    BY <2>4 DEF CheckExists
  <2>5. CASE SubmitEntry(w)
    <3>1. work'[w] = [job EXCEPT !.pc = "record"] \/ work'[w] = NextPath(job)
      BY <2>5 DEF SubmitEntry
    <3>2. OnItsPath([job EXCEPT !.pc = "record"])
      OBVIOUS
    <3>3. QED
      BY <3>1, <3>2
  <2>6. CASE RecordOrder(w)
    BY <2>6 DEF RecordOrder
  <2>7. CASE ReadDedicated(w)
    <3>1. work'[w] = [job EXCEPT !.pc = "graduation"] \/ work'[w] = NextPath(job)
      BY <2>7 DEF ReadDedicated
    <3>2. OnItsPath([job EXCEPT !.pc = "graduation"])
      OBVIOUS
    <3>3. QED
      BY <3>1, <3>2
  <2>8. CASE ReadGraduation(w)
    BY <2>8 DEF ReadGraduation
  <2>9. QED
    BY <2>1, <2>2, <2>3, <2>4, <2>5, <2>6, <2>7, <2>8
       DEF WorkerStep, ReadConfluence, FindMatch, InsertConfluence
<1>5. CASE ReadConfluence(w)
  <2>1. work'[w] = Idle \/ work'[w] = [job EXCEPT !.pc = "match"]
    BY <1>1, <1>5 DEF ReadConfluence, Becomes
  <2>2. OnItsPath([job EXCEPT !.pc = "match"])
    BY <1>1 DEF OnItsPath, Jobs
  <2>3. QED
    BY <1>2, <2>1, <2>2
<1>6. CASE FindMatch(w)
  <2> DEFINE e == job.signal.event
             next(m) == [job EXCEPT !.pc = "copy", !.signal = Own(IF Source[e] = "scanner" THEN e ELSE m)]
  <2>1. work'[w] = Idle \/ \E m \in Matches(e) : work'[w] = next(m)
    BY <1>1, <1>6 DEF FindMatch, Becomes
  <2>2. \A m : OnItsPath(next(m))
    BY <1>1 DEF OnItsPath, Jobs
  <2>3. QED
    BY <1>2, <2>1, <2>2
<1>7. CASE InsertConfluence(w)
  <2> DEFINE next == [job EXCEPT !.pc = "graduation", !.signal = Confluence(job.signal.event)]
  <2>1. work'[w] = Idle \/ work'[w] = next
    BY <1>1, <1>7 DEF InsertConfluence, Becomes
  <2>2. next.signal = Confluence(job.signal.event)
    BY <1>1 DEF Jobs
  <2>3. OnItsPath(next)
    BY <2>2 DEF OnItsPath, Confluence
  <2>4. QED
    BY <1>2, <2>1, <2>3
<1>8. CASE WorkerFails(w)
  <2>1. work'[w] = Idle \/ work'[w] = NextPath(job)
    BY <1>1, <1>8 DEF WorkerFails, Becomes
  <2>2. QED
    BY <1>2, <2>1
<1>9. CASE \E e \in Events : Receive(w, e)
  <2>1. PICK e \in Events : work'[w] = Job("insert", Own(e), "general", "paper")
    BY <1>1, <1>9 DEF Receive, Becomes
  <2>2. QED
    BY <2>1 DEF Job, OnItsPath
<1>10. QED
  BY <1>4, <1>5, <1>6, <1>7, <1>8, <1>9 DEF WorkerStep, InsertSignal, ReadGeneral, CountOpen,
       CheckExists, SubmitEntry, RecordOrder, ReadDedicated, ReadGraduation

\* A pair with a scanner and a Chartink signal in the table.
BothRecorded(s, c) ==
    /\ Source[s] = "scanner" /\ Source[c] = "chartink" /\ Pair[s] = Pair[c]
    /\ IsRecorded(Own(s)) /\ IsRecorded(Own(c))

\* With both signals there, a thread on its way to the match stays on it until the
\* confluence signal is in the table.
LEMMA HeadingKept ==
    ASSUME IntakeInv, HeadingInv, [Next]_vars, NEW w \in Workers, WorkerStep(w),
           window = 0, FALSE \notin ConfluenceChoices,
           NEW s \in Events, NEW c \in Events, BothRecorded(s, c), Heading(w, Pair[c])
    PROVE  Heading(w, Pair[c])' \/ IsConfirmed(Pair[c])'
<1> DEFINE job == work[w]
           e   == job.signal.event
<1>1. /\ job \in Jobs /\ work \in [Workers -> Jobs] /\ e \in Events
      /\ job.signal \in SignalIds /\ job.signal = Own(e)
      /\ \A next : work' = [work EXCEPT ![w] = next] => work'[w] = next
      /\ created \in [SignalIds -> Nat]
  BY SignalFacts DEF IntakeInv, TypeOK, Jobs, SignalIds, Heading
<1>2. /\ job.pc \notin {"idle", "insert"} /\ job.signal.kind = "own"
      /\ Source[e] \in SourcesWithConfluence /\ Pair[e] = Pair[c]
      /\ job.path = "confluence" <=> job.pc \in {"confluence", "match", "copy"}
  BY DEF Heading, HeadingInv, IntakeInv, PathInv
<1>3. ASSUME work'[w].pc \notin {"idle", "insert"}, work'[w].signal = job.signal
      PROVE  Heading(w, Pair[c])'
  BY <1>2, <1>3 DEF Heading
<1>4. ASSUME work'[w] = NextPath(job), job.pc \notin {"confluence", "match", "copy"}
      PROVE  Heading(w, Pair[c])'
  <2>1. NextPath(job).signal = job.signal /\ NextPath(job).pc \in {"dedicated", "confluence"}
    BY <1>1, <1>2, <1>4, NextPathHeads
  <2>2. QED
    BY <1>3, <1>4, <2>1
<1>5. ASSUME NEW pc \in Pcs \ {"idle", "insert"}, NEW mode,
             work'[w] = [job EXCEPT !.pc = pc] \/ work'[w] = [job EXCEPT !.pc = pc, !.mode = mode]
      PROVE  Heading(w, Pair[c])'
  <2>1. work'[w].pc = pc /\ work'[w].signal = job.signal
    BY <1>1, <1>5 DEF Jobs
  <2>2. QED
    BY <1>3, <2>1
<1>6. {"general", "count", "check", "submit", "record", "graduation", "match"} \subseteq Pcs
  BY DEF Pcs
<1>7. CASE job.pc \notin {"confluence", "match", "copy"}
  <2> USE <1>1, <1>4, <1>5, <1>6, <1>7 DEF Becomes
  <2>1. CASE ReadGeneral(w)
    <3>1. \/ work'[w] = [job EXCEPT !.pc = "count", !.mode = general.mode]
          \/ work'[w] = NextPath(job)
      BY <2>1 DEF ReadGeneral
    <3>2. "count" \in Pcs \ {"idle", "insert"}
      OBVIOUS
    <3>3. QED
      BY <3>1, <3>2
  <2>2. CASE CountOpen(w)
    <3>1. work'[w] = [job EXCEPT !.pc = "check"] \/ work'[w] = NextPath(job)
      BY <2>2 DEF CountOpen
    <3>2. QED
      BY <3>1
  <2>3. CASE CheckExists(w)
    <3>1. \/ work'[w] = [job EXCEPT !.pc = "submit"] \/ work'[w] = [job EXCEPT !.pc = "record"]
          \/ work'[w] = NextPath(job)
      BY <2>3 DEF CheckExists
    <3>2. QED
      BY <3>1
  <2>4. CASE SubmitEntry(w)
    <3>1. work'[w] = [job EXCEPT !.pc = "record"] \/ work'[w] = NextPath(job)
      BY <2>4 DEF SubmitEntry
    <3>2. QED
      BY <3>1
  <2>5. CASE RecordOrder(w)
    BY <2>5 DEF RecordOrder
  <2>6. CASE ReadDedicated(w)
    <3>1. work'[w] = [job EXCEPT !.pc = "graduation"] \/ work'[w] = NextPath(job)
      BY <2>6 DEF ReadDedicated
    <3>2. QED
      BY <3>1
  <2>7. CASE ReadGraduation(w)
    <3>1. work'[w] = [job EXCEPT !.pc = "check", !.mode = graduated[ChannelOf(job.signal)]]
      BY <2>7 DEF ReadGraduation
    <3>2. "check" \in Pcs \ {"idle", "insert"}
      OBVIOUS
    <3>3. QED
      BY <3>1, <3>2
  <2>8. QED
    BY <1>2, <2>1, <2>2, <2>3, <2>4, <2>5, <2>6, <2>7
       DEF WorkerStep, InsertSignal, ReadConfluence, FindMatch, InsertConfluence
<1>8. CASE job.pc = "confluence"
  <2>1. ReadConfluence(w)
    BY <1>8 DEF WorkerStep, InsertSignal, ReadGeneral, CountOpen, CheckExists, SubmitEntry,
                RecordOrder, ReadDedicated, ReadGraduation, FindMatch, InsertConfluence
  <2>2. confluence = TRUE
    BY DEF HeadingInv, IntakeInv, TypeOK
  <2>3. work'[w] = [job EXCEPT !.pc = "match"]
    BY <1>1, <2>1, <2>2 DEF ReadConfluence, Becomes
  <2>4. QED
    BY <1>5, <1>6, <2>3
<1>9. CASE job.pc = "match"
  <2> DEFINE next(m) == [job EXCEPT !.pc = "copy", !.signal = Own(IF Source[e] = "scanner" THEN e ELSE m)]
  <2>1. FindMatch(w)
    BY <1>9 DEF WorkerStep, InsertSignal, ReadGeneral, CountOpen, CheckExists, SubmitEntry,
                RecordOrder, ReadDedicated, ReadGraduation, ReadConfluence, InsertConfluence
  <2>2. Source[e] = "scanner" \/ Source[e] = "chartink"
    BY <1>2 DEF SourcesWithConfluence
  <2>3. created[Own(s)] > 0 /\ created[Own(c)] > 0
    BY <1>1, SignalFacts DEF BothRecorded, IsRecorded
  <2>4. Matches(e) # {}
    <3>1. CASE Source[e] = "scanner"
      <4>1. c \in Matches(e)
        BY <1>2, <2>3, <3>1 DEF Matches, OtherSource, BothRecorded
      <4>2. QED
        BY <4>1
    <3>2. CASE Source[e] = "chartink"
      <4>1. s \in Matches(e)
        BY <1>2, <2>3, <3>2 DEF Matches, OtherSource, BothRecorded
      <4>2. QED
        BY <4>1
    <3>3. QED
      BY <2>2, <3>1, <3>2
  <2>5. PICK m \in Matches(e) : work'[w] = next(m)
    BY <1>1, <2>1, <2>4 DEF FindMatch, Becomes
  <2>6. /\ next(m).pc = "copy"
        /\ next(m).signal = Own(IF Source[e] = "scanner" THEN e ELSE m)
    BY <1>1 DEF Jobs
  <2>7. m \in Events /\ Source[m] = OtherSource(e) /\ Pair[m] = Pair[e]
    BY DEF Matches
  <2>8. CASE Source[e] = "scanner"
    BY <1>2, <2>5, <2>6, <2>8 DEF Heading, Own
  <2>9. CASE Source[e] = "chartink"
    <3>1. Source[m] = "scanner" /\ next(m).signal = Own(m)
      BY <2>6, <2>7, <2>9 DEF OtherSource
    <3>2. QED
      BY <1>2, <2>5, <2>6, <2>7, <3>1 DEF Heading, Own, SourcesWithConfluence
  <2>10. QED
    BY <2>2, <2>8, <2>9
<1>10. CASE job.pc = "copy"
  <2>1. InsertConfluence(w)
    BY <1>10 DEF WorkerStep, InsertSignal, ReadGeneral, CountOpen, CheckExists, SubmitEntry,
                RecordOrder, ReadDedicated, ReadGraduation, ReadConfluence, FindMatch
  <2>2. Source[e] = "scanner"
    BY <1>10 DEF IntakeInv, PathInv
  <2>3. created'[Confluence(e)] # 0
    BY <1>1, <2>1, NowType, SignalFacts DEF InsertConfluence, IsRecorded
  <2>4. QED
    BY <1>1, <1>2, <2>2, <2>3 DEF IsConfirmed, IsRecorded
<1>11. QED
  BY <1>7, <1>8, <1>9, <1>10

\* The thread whose signal completes the pair is on its way to the match.
LEMMA InsertHeads ==
    ASSUME IntakeInv, [Next]_vars, NEW s \in Events, NEW c \in Events,
           BothRecorded(s, c)', ~BothRecorded(s, c)
    PROVE  \E w \in Workers : Heading(w, Pair[c])'
<1>1. /\ work \in [Workers -> Jobs] /\ created \in [SignalIds -> Nat]
      /\ \A w \in Workers : work[w] \in Jobs /\ work[w].signal \in SignalIds
  BY DEF IntakeInv, TypeOK, Jobs
<1>2. PICK d \in {s, c} : created'[Own(d)] # created[Own(d)]
  BY DEF BothRecorded, IsRecorded
<1>3. PICK w \in Workers : InsertSignal(w) /\ created' # created
  <2>1. CASE \E w \in Workers : InsertConfluence(w)
    <3>1. PICK w \in Workers : InsertConfluence(w)
      BY <2>1
    <3>2. created'[Own(d)] = created[Own(d)]
      BY <1>1, <3>1, SignalFacts DEF InsertConfluence, SignalIds
    <3>3. QED
      BY <1>2, <3>2
  <2>2. CASE ~\E w \in Workers : InsertSignal(w) \/ InsertConfluence(w)
    <3>1. created' = created
      <4>1. CASE \E w \in Workers : WorkerStep(w)
        BY <2>2, <4>1 DEF WorkerStep, ReadGeneral, CountOpen, CheckExists, SubmitEntry, RecordOrder,
                     ReadDedicated, ReadGraduation, ReadConfluence, FindMatch
      <4>2. CASE ~\E w \in Workers : WorkerStep(w)
        BY <4>2 DEF Next, vars, WorkerFails, Receive, CloseHit, CloseByHand, CheckGraduation,
                    SaveSettings, WindowMoves, Crash
      <4>3. QED
        BY <4>1, <4>2
    <3>2. QED
      BY <1>2, <3>1
  <2>3. QED
    BY <1>2, <2>1, <2>2
<1>4. /\ created' = [created EXCEPT ![work[w].signal] = Now]
      /\ work' = [work EXCEPT ![w] = [work[w] EXCEPT !.pc = "general"]]
  BY <1>3 DEF InsertSignal, Becomes
<1>5. work[w].signal = Own(d)
  BY <1>1, <1>2, <1>4, SignalFacts
<1>6. work'[w].pc = "general" /\ work'[w].signal = Own(d)
  BY <1>1, <1>4, <1>5 DEF Jobs
<1>7. Source[d] \in SourcesWithConfluence /\ Pair[d] = Pair[c]
  BY DEF BothRecorded, SourcesWithConfluence
<1>8. QED
  BY <1>6, <1>7 DEF Heading, Own

LEMMA HeadingStep == ASSUME IntakeInv, HeadingInv, [Next]_vars PROVE HeadingInv'
<1>1. /\ TypeOK /\ faults \in Nat /\ window \in Nat
  BY DEF IntakeInv, TypeOK
<1> DEFINE StepOf(w) == WorkerStep(w) \/ WorkerFails(w) \/ \E e \in Events : Receive(w, e)
<1>2. work' = work \/ Crash \/ \E w \in Workers : StepOf(w)
  BY DEF Next, vars, CloseHit, CloseByHand, CheckGraduation, SaveSettings, WindowMoves
<1>3. confluence' \in ConfluenceChoices
  <2>1. confluence \in ConfluenceChoices
    BY DEF HeadingInv
  <2>2. CASE SaveSettings
    BY <2>1, <2>2 DEF SaveSettings
  <2>3. CASE \E w \in Workers : WorkerStep(w)
    BY <2>1, <2>3 DEF WorkerStep, InsertSignal, ReadGeneral, CountOpen, CheckExists, SubmitEntry,
       RecordOrder, ReadDedicated, ReadGraduation, ReadConfluence, FindMatch, InsertConfluence, settings
  <2>4. QED
    BY <2>1, <2>2, <2>3 DEF Next, vars, WorkerFails, Receive, CloseHit, CloseByHand,
       CheckGraduation, WindowMoves, Crash, settings
<1>4. \A w \in Workers : OnItsPath(work'[w])
  <2>1. CASE work' = work
    BY <2>1 DEF HeadingInv, OnItsPath
  <2>2. CASE Crash
    BY <2>2, JobFacts DEF Crash, OnItsPath
  <2>3. CASE \E w \in Workers : StepOf(w)
    <3>1. PICK w \in Workers : StepOf(w)
      BY <2>3
    <3>2. OnItsPath(work'[w])
      BY <3>1, PathJob
    <3>3. \A v \in Workers \ {w} : work'[v] = work[v]
      BY <3>1, OthersStay
    <3>4. QED
      BY <3>2, <3>3 DEF HeadingInv, OnItsPath
  <2>4. QED
    BY <1>2, <2>1, <2>2, <2>3
<1>5. ASSUME faults' = 0, window' = 0, FALSE \notin ConfluenceChoices,
             NEW s \in Events, NEW c \in Events, BothRecorded(s, c)'
      PROVE  IsConfirmed(Pair[c])' \/ \E w \in Workers : Heading(w, Pair[c])'
  <2>1. faults = 0 /\ window = 0 /\ ~Crash /\ \A w \in Workers : ~WorkerFails(w)
    <3>1. window' = window \/ window' = window + 1
      <4>1. CASE \E w \in Workers : WorkerStep(w)
        BY <4>1 DEF WorkerStep, InsertSignal, ReadGeneral, CountOpen, CheckExists, SubmitEntry,
           RecordOrder, ReadDedicated, ReadGraduation, ReadConfluence, FindMatch, InsertConfluence
      <4>2. QED
        BY <4>1 DEF Next, vars, WorkerFails, Receive, CloseHit, CloseByHand,
           CheckGraduation, SaveSettings, WindowMoves, Crash
    <3>2. faults' = faults \/ faults' = faults + 1
      <4>1. CASE \E w \in Workers : WorkerStep(w)
        BY <4>1 DEF WorkerStep, InsertSignal, ReadGeneral, CountOpen, CheckExists, SubmitEntry,
           RecordOrder, ReadDedicated, ReadGraduation, ReadConfluence, FindMatch, InsertConfluence
      <4>2. QED
        BY <4>1 DEF Next, vars, WorkerFails, Receive, CloseHit, CloseByHand,
           CheckGraduation, SaveSettings, WindowMoves, Crash
    <3>3. Crash \/ (\E w \in Workers : WorkerFails(w)) => faults' = faults + 1
      BY DEF Crash, WorkerFails
    <3>4. QED
      BY <1>1, <1>5, <3>1, <3>2, <3>3
  <2>2. CASE ~BothRecorded(s, c)
    BY <1>5, <2>2, InsertHeads
  <2>3. CASE BothRecorded(s, c)
    <3>1. IsConfirmed(Pair[c]) \/ \E w \in Workers : Heading(w, Pair[c])
      BY <1>5, <2>1, <2>3 DEF HeadingInv, BothRecorded
    <3>2. CASE IsConfirmed(Pair[c])
      BY <1>1, <3>2, CreatedStep, SignalFacts DEF IsConfirmed
    <3>3. CASE \E w \in Workers : Heading(w, Pair[c])
      <4>1. PICK w \in Workers : Heading(w, Pair[c])
        BY <3>3
      <4>2. CASE WorkerStep(w)
        BY <1>5, <2>1, <2>3, <4>1, <4>2, HeadingKept
      <4>3. CASE work'[w] = work[w]
        BY <4>1, <4>3 DEF Heading
      <4>4. CASE \E v \in Workers \ {w} : StepOf(v)
        <5>1. work'[w] = work[w]
          BY <4>4, OthersStay
        <5>2. QED
          BY <4>3, <5>1
      <4>5. ~\E e \in Events : Receive(w, e)
        BY <4>1 DEF Heading, Receive
      <4>6. QED
        BY <1>2, <2>1, <4>2, <4>3, <4>4, <4>5
    <3>4. QED
      BY <3>1, <3>2, <3>3
  <2>4. QED
    BY <2>2, <2>3
<1>6. QED
  BY <1>3, <1>4, <1>5 DEF HeadingInv, OnItsPath, BothRecorded

LEMMA HeadingInit == ASSUME Init PROVE HeadingInv
<1>1. \A w \in Workers : work[w].path = "general"
  BY JobFacts DEF Init
<1>2. \A e \in Events : ~IsRecorded(Own(e))
  BY SignalFacts DEF Init, IsRecorded
<1>3. confluence \in ConfluenceChoices
  BY DEF Init
<1>4. QED
  BY <1>1, <1>2, <1>3 DEF HeadingInv

\* No interleaving loses a confluence (confluence.py:1-19): once no thread is at work
\* on a pair with both signals in the table, its confluence signal is there too, for
\* any number of threads, events and deliveries.
THEOREM ConfluencesAreFound == Spec => []ConfluenceNotMissed
<1>1. Init => IntakeInv /\ HeadingInv
  BY IntakeInit, HeadingInit
<1>2. IntakeInv /\ HeadingInv /\ [Next]_vars => HeadingInv'
  BY HeadingStep
<1>3. HeadingInv => ConfluenceNotMissed
  <2>1. \A w \in Workers, c \in Events : Heading(w, Pair[c]) => Busy(c)
    BY DEF Heading, Busy
  <2>2. QED
    BY <2>1 DEF HeadingInv, ConfluenceNotMissed, IsConfirmed
<1>4. QED
  BY <1>1, <1>2, <1>3, IntakeHolds, PTL DEF Spec

-----------------------------------------------------------------------------
(* AutoTrade implements SignalBook.                                         *)

\* The table of the book, and its list of placed signals.
Recorded == {s \in SignalIds : IsRecorded(s)}
Placed   == [i \in OrderIds |-> orders[i].signal]

\* A signal that is inserted is new, and joins the table.
LEMMA RecordedGrows ==
    ASSUME TypeOK, NEW s \in SignalIds, ~IsRecorded(s), created' = [created EXCEPT ![s] = Now]
    PROVE  Recorded' = Recorded \cup {s} /\ s \notin Recorded
<1>1. Now # 0 /\ created \in [SignalIds -> Nat]
  BY NowType DEF TypeOK
<1>2. QED
  BY <1>1 DEF Recorded, IsRecorded

\* Orders that are closed, or stay as they are, stay placed.
LEMMA PlacedStays == ASSUME TypeOK, [Next]_vars, OrderIds' = OrderIds PROVE Placed' = Placed
  BY OrdersGrow DEF Placed

\* A thread that inserts a signal, of its own event or of a confluence, records it on
\* the grounds the book asks for.
LEMMA InsertRecords ==
    ASSUME IntakeInv, [Next]_vars, NEW w \in Workers, InsertSignal(w) \/ InsertConfluence(w),
           created' # created
    PROVE  Intake!Next
<1>1. /\ TypeOK /\ work[w] \in Jobs
      /\ work[w].signal \in SignalIds /\ work[w].signal.event \in Events
  BY DEF IntakeInv, TypeOK, Jobs, SignalIds
<1>2. Placed' = Placed
  <2>1. orders' = orders
    BY DEF InsertSignal, InsertConfluence
  <2>2. QED
    BY <2>1 DEF Placed, OrderIds
<1>3. CASE InsertSignal(w)
  <2> DEFINE s == work[w].signal
  <2>1. ~IsRecorded(s) /\ created' = [created EXCEPT ![s] = Now]
    BY <1>3 DEF InsertSignal
  <2>2. s.kind = "own"
    BY <1>3 DEF InsertSignal, IntakeInv, WorkInv, PathInv
  <2>3. {} \in Supports[s]
    BY <1>1, <2>2 DEF Supports
  <2>4. Recorded' = Recorded \cup {s} /\ s \notin Recorded
    BY <1>1, <2>1, RecordedGrows
  <2>5. Intake!Record(s)
    BY <1>2, <2>3, <2>4 DEF Intake!Record, Recorded, Placed
  <2>6. QED
    BY <1>1, <2>5 DEF Intake!Next
<1>4. CASE InsertConfluence(w)
  <2> DEFINE e == work[w].signal.event
             s == Confluence(e)
  <2>1. ~IsRecorded(s) /\ created' = [created EXCEPT ![s] = Now] /\ work[w].pc = "copy"
    BY <1>4 DEF InsertConfluence
  <2>2. s \in SignalIds /\ Own(e) \in SignalIds /\ s.kind = "confluence" /\ s.event = e
    BY <1>1, SignalFacts DEF Confluence
  <2>3. work[w].signal = Own(e) /\ IsRecorded(Own(e)) /\ Source[e] = "scanner"
    BY <1>1, <2>1, SignalFacts DEF IntakeInv, WorkInv, PathInv
  <2>4. PICK c \in Events : Source[c] = "chartink" /\ IsRecorded(Own(c)) /\ Pair[c] = Pair[e]
    BY <2>1 DEF IntakeInv, PathInv
  <2>5. {Own(e), Own(c)} \in Supports[s]
    BY <2>2, <2>3, <2>4 DEF Supports
  <2>6. {Own(e), Own(c)} \subseteq Recorded
    BY <2>2, <2>3, <2>4, SignalFacts DEF Recorded
  <2>7. Recorded' = Recorded \cup {s} /\ s \notin Recorded
    BY <1>1, <2>1, <2>2, RecordedGrows
  <2>8. Intake!Record(s)
    BY <1>2, <2>5, <2>6, <2>7 DEF Intake!Record, Recorded, Placed
  <2>9. QED
    BY <2>2, <2>8 DEF Intake!Next
<1>5. QED
  BY <1>3, <1>4

\* A thread that inserts an order places its signal, which had none.
LEMMA OrderPlaces ==
    ASSUME IntakeInv, NEW w \in Workers, RecordOrder(w)
    PROVE  Intake!Next
<1> DEFINE s == work[w].signal
           o == [signal |-> s, mode |-> work[w].mode, path |-> work[w].path,
                 status |-> "open", won |-> FALSE]
<1>1. /\ orders \in Seq(Order) /\ OrderIds = 1..Len(orders) /\ Len(orders) \in Nat
      /\ work[w] \in Jobs /\ s \in SignalIds
  BY LenProperties DEF IntakeInv, TypeOK, OrderIds, Jobs
<1>2. IsRecorded(s) /\ OrdersOf(s) = {}
  BY DEF RecordOrder, IntakeInv, WorkInv
<1>3. o \in Order /\ o.signal = s
  BY <1>1 DEF Jobs, Order, Exits
<1>4. orders' = Append(orders, o)
  BY DEF RecordOrder
<1>5. /\ Len(orders') = Len(orders) + 1 /\ orders' \in Seq(Order)
      /\ \A i \in 1..Len(orders) : orders'[i] = orders[i]
      /\ orders'[Len(orders) + 1] = o
  BY <1>1, <1>3, <1>4, AppendProperties
<1>6. Placed' = [i \in 1..Len(orders) + 1 |-> IF i = Len(orders) + 1 THEN s ELSE Placed[i]]
  <2>1. OrderIds' = 1..Len(orders) + 1
    BY <1>1, <1>5, LenProperties DEF OrderIds
  <2>2. Placed' = [i \in 1..Len(orders) + 1 |-> orders'[i].signal]
    BY <2>1 DEF Placed
  <2>3. \A i \in 1..Len(orders) + 1 :
            orders'[i].signal = IF i = Len(orders) + 1 THEN s ELSE Placed[i]
    BY <1>1, <1>3, <1>5 DEF Placed
  <2>4. QED
    BY <2>2, <2>3
<1>7. Append(Placed, s) = [i \in 1..Len(orders) + 1 |-> IF i = Len(orders) + 1 THEN s ELSE Placed[i]]
  <2>1. Placed \in Seq(SignalIds) /\ Len(Placed) = Len(orders)
    <3>1. \A i \in 1..Len(orders) : orders[i].signal \in SignalIds
      <4>1. \A i \in 1..Len(orders) : orders[i] \in Order
        BY <1>1, ElementOfSeq
      <4>2. QED
        BY <4>1 DEF Order
    <3>2. Placed \in [1..Len(orders) -> SignalIds]
      BY <1>1, <3>1 DEF Placed
    <3>3. QED
      BY <1>1, <3>2, IsASeq, LenProperties
  <2>2. QED
    BY <1>1, <2>1
<1>8. s \in Recorded /\ \A i \in DOMAIN Placed : Placed[i] # s
  BY <1>1, <1>2 DEF Recorded, Placed, OrdersOf
<1>9. Recorded' = Recorded
  <2>1. created' = created
    BY DEF RecordOrder
  <2>2. QED
    BY <2>1 DEF Recorded, IsRecorded
<1>10. Placed' = Append(Placed, s)
  BY <1>6, <1>7
<1>11. QED
  BY <1>1, <1>8, <1>9, <1>10 DEF Intake!Next, Intake!Place, Recorded, Placed

\* Every step of the intake is a step of the book, or changes nothing in it.
LEMMA IntakeStep ==
    ASSUME IntakeInv, [Next]_vars
    PROVE  \/ Intake!Next
           \/ Recorded' = Recorded /\ Placed' = Placed
<1>1. TypeOK
  BY DEF IntakeInv
<1>2. CASE \E w \in Workers : (InsertSignal(w) \/ InsertConfluence(w)) /\ created' # created
  BY <1>2, InsertRecords
<1>3. CASE \E w \in Workers : RecordOrder(w)
  BY <1>3, OrderPlaces
<1>4. ASSUME created' = created, ~\E w \in Workers : RecordOrder(w)
      PROVE  Recorded' = Recorded /\ Placed' = Placed
  <2>1. Recorded' = Recorded
    BY <1>4 DEF Recorded, IsRecorded
  <2>2. OrderIds' = OrderIds
    BY <1>1, <1>4, OrdersGrow
  <2>3. QED
    BY <1>1, <2>1, <2>2, PlacedStays
<1>5. ASSUME \A w \in Workers : InsertSignal(w) \/ InsertConfluence(w) => created' = created
      PROVE  created' = created
  <2>1. CASE \E w \in Workers : WorkerStep(w)
    BY <1>5, <2>1 DEF WorkerStep, ReadGeneral, CountOpen, CheckExists, SubmitEntry, RecordOrder,
                      ReadDedicated, ReadGraduation, ReadConfluence, FindMatch
  <2>2. CASE ~\E w \in Workers : WorkerStep(w)
    BY <2>2 DEF Next, vars, WorkerFails, Receive, CloseHit, CloseByHand, CheckGraduation,
                SaveSettings, WindowMoves, Crash
  <2>3. QED
    BY <2>1, <2>2
<1>6. QED
  BY <1>2, <1>3, <1>4, <1>5

\* AutoTrade implements SignalBook: for any number of threads, deliveries, settings,
\* exceptions and crashes, a signal is recorded once, on recorded grounds, and an order
\* is placed for it after that and at most once (db.py:1529, confluence.py:1).
THEOREM ImplementsSignalBook == Spec => IntakeSpec
<1>1. Init => Intake!Init
  <2> SUFFICES ASSUME Init PROVE Intake!Init
    OBVIOUS
  <2>1. OrderIds = {} /\ \A s \in SignalIds : ~IsRecorded(s)
    BY DEF Init, OrderIds, IsRecorded
  <2>2. [i \in OrderIds |-> orders[i].signal] = <<>>
    BY <2>1
  <2>3. QED
    BY <2>1, <2>2 DEF Intake!Init
<1>2. IntakeInv /\ [Next]_vars =>
        [Intake!Next]_<<{s \in SignalIds : IsRecorded(s)}, [i \in OrderIds |-> orders[i].signal]>>
  BY IntakeStep DEF Recorded, Placed
<1>3. QED
  BY <1>1, <1>2, IntakeHolds, PTL DEF Spec, IntakeSpec, Intake!Spec
=============================================================================
