--------------------------- MODULE ScannerSignals ---------------------------
(***************************************************************************)
(* The F&O scanner (app/scanner.py) and the signals it makes of a stock    *)
(* that has just qualified (app/scanner_signals.py), for one strategy.  A  *)
(* scan is started by the 15-minute loop or by a user's request, each in a *)
(* thread of its own, so scans overlap and every SQL statement of one is a *)
(* step that any of the others may come before.                            *)
(***************************************************************************)
EXTENDS Integers, FiniteSets

CONSTANTS
    Stocks,    \* the F&O universe
    Users,     \* the users with scanner signals and the strategy switched on
    MaxRuns,   \* bound: scans started
    MaxActive, \* scans that may be under way at once
    MaxFaults  \* bound: exceptions and crashes

Qualified == {"CE_QUALIFIED", "PE_QUALIFIED"}
Classes   == Qualified \cup {"NOT_QUALIFIED"} \* with NEAR_*, DATA_UNAVAILABLE, DATA_CONFLICT
NoClass   == "none"
Runs      == 1..MaxRuns

ASSUME UniverseAssumption == IsFiniteSet(Stocks) /\ IsFiniteSet(Users) /\ Stocks # {}
ASSUME BoundsAssumption   == MaxRuns \in Nat /\ MaxActive \in Nat /\ MaxFaults \in Nat

VARIABLES
    started,  \* scan_runs: ids are given in the order scans start
    scan,     \* per run: where its thread is
    todo,     \* per run: the stocks it has not scanned, or not looked at for signals
    current,  \* per run: the stock signals are being made of, and the users left
    class,    \* scanner_results: the classification of a stock in a run
    signals,  \* the signals made: [run, stock, user]
    overlaps, \* pairs of runs that have been under way together
    faults

vars == <<started, scan, todo, current, class, signals, overlaps, faults>>

-----------------------------------------------------------------------------
Stages == {"absent", "scanning", "calls", "puts", "done", "broken"}
Active == {r \in Runs : scan[r] \in {"scanning", "calls", "puts"}}
NoStock == [users |-> {}, stock |-> CHOOSE s \in Stocks : TRUE]

Init ==
    /\ started = 0
    /\ scan = [r \in Runs |-> "absent"]
    /\ todo = [r \in Runs |-> {}]
    /\ current = [r \in Runs |-> NoStock]
    /\ class = [r \in Runs |-> [s \in Stocks |-> NoClass]]
    /\ signals = {}
    /\ overlaps = {}
    /\ faults = 0

\* create_scan_run.
StartScan ==
    LET r == started + 1
    IN  /\ started < MaxRuns /\ Cardinality(Active) < MaxActive
        /\ started' = r
        /\ scan' = [scan EXCEPT ![r] = "scanning"]
        /\ todo' = [todo EXCEPT ![r] = Stocks]
        /\ overlaps' = overlaps \cup {<<q, r>> : q \in Active}
        /\ UNCHANGED <<current, class, signals, faults>>

\* The stocks are evaluated in a pool and their rows inserted as they come; a
\* stock whose evaluation raised gets none.
ScanStock(r, s) ==
    /\ scan[r] = "scanning" /\ s \in todo[r]
    /\ \E c \in Classes \cup {NoClass} : class' = [class EXCEPT ![r][s] = c]
    /\ todo' = [todo EXCEPT ![r] = @ \ {s}]
    /\ UNCHANGED <<started, scan, current, signals, overlaps, faults>>

Rows(r, c) == {s \in Stocks : class[r][s] = c}

\* finish_scan_run; generate_signals_for_scan begins with the calls ...
FinishScan(r) ==
    /\ scan[r] = "scanning" /\ todo[r] = {}
    /\ scan' = [scan EXCEPT ![r] = IF Users = {} THEN "done" ELSE "calls"]
    /\ todo' = [todo EXCEPT ![r] = IF Users = {} THEN {} ELSE Rows(r, "CE_QUALIFIED")]
    /\ UNCHANGED <<started, current, class, signals, overlaps, faults>>

\* get_previous_classification: the row of the newest earlier run that has one.
Earlier(r, s) == {q \in 1..(r - 1) : class[q][s] # NoClass}
Newest(qs)    == CHOOSE q \in qs : \A p \in qs : p <= q
\* Mutant: only the run just before is looked at.
PreviousRun(r, s) == IF r = 1 THEN NoClass ELSE class[r - 1][s]
Previous(r, s) == IF Earlier(r, s) = {} THEN NoClass ELSE class[Newest(Earlier(r, s))][s]

Idle(r) == current[r].users = {}

\* Mutant: a stock that turns from calls to puts is not new.
LookAtQualified(r, s) ==
    /\ scan[r] \in {"calls", "puts"} /\ Idle(r) /\ s \in todo[r]
    /\ todo' = [todo EXCEPT ![r] = @ \ {s}]
    /\ current' = IF Previous(r, s) \in Qualified THEN current
                  ELSE [current EXCEPT ![r] = [users |-> Users, stock |-> s]]
    /\ UNCHANGED <<started, scan, class, signals, overlaps, faults>>

\* ... each stock of the run that was not so classified before ...
LookAt(r, s) ==
    /\ scan[r] \in {"calls", "puts"} /\ Idle(r) /\ s \in todo[r]
    /\ todo' = [todo EXCEPT ![r] = @ \ {s}]
    /\ current' = IF Previous(r, s) = class[r][s] THEN current
                  ELSE [current EXCEPT ![r] = [users |-> Users, stock |-> s]]
    /\ UNCHANGED <<started, scan, class, signals, overlaps, faults>>

\* ... gives every user a signal (_generate_one, insert_signal) ...
MakeSignal(r, u) ==
    /\ scan[r] \in {"calls", "puts"} /\ u \in current[r].users
    /\ signals' = signals \cup {[run |-> r, stock |-> current[r].stock, user |-> u]}
    /\ current' = [current EXCEPT ![r].users = @ \ {u}]
    /\ UNCHANGED <<started, scan, todo, class, overlaps, faults>>

\* ... and the puts come after the calls.
NextClassification(r) ==
    /\ scan[r] \in {"calls", "puts"} /\ Idle(r) /\ todo[r] = {}
    /\ \/ /\ scan[r] = "calls"
          /\ scan' = [scan EXCEPT ![r] = "puts"]
          /\ todo' = [todo EXCEPT ![r] = Rows(r, "PE_QUALIFIED")]
       \/ /\ scan[r] = "puts"
          /\ scan' = [scan EXCEPT ![r] = "done"]
          /\ UNCHANGED todo
    /\ UNCHANGED <<started, current, class, signals, overlaps, faults>>

ScanStep(r) ==
    \/ \E s \in Stocks : ScanStock(r, s) \/ LookAt(r, s)
    \/ \E u \in Users : MakeSignal(r, u)
    \/ FinishScan(r) \/ NextClassification(r)

\* An exception ends a scan where it is: what it has not scanned, or made
\* signals of, is left.  A crash ends all of them.
End(rs) ==
    /\ faults < MaxFaults
    /\ faults' = faults + 1
    /\ scan' = [r \in Runs |-> IF r \in rs THEN "broken" ELSE scan[r]]
    /\ todo' = [r \in Runs |-> IF r \in rs THEN {} ELSE todo[r]]
    /\ current' = [r \in Runs |-> IF r \in rs THEN NoStock ELSE current[r]]
    /\ UNCHANGED <<started, class, signals, overlaps>>
ScanFails(r) == r \in Active /\ End({r})
Crash        == Active # {} /\ End(Active)

Next ==
    \/ StartScan \/ Crash
    \/ \E r \in Runs : ScanStep(r) \/ ScanFails(r)

Spec == Init /\ [][Next]_vars

-----------------------------------------------------------------------------
(* Types: every variable stays in its type.                                 *)
TypeOK ==
    /\ started \in 0..MaxRuns
    /\ scan \in [Runs -> Stages]
    /\ todo \in [Runs -> SUBSET Stocks]
    /\ current \in [Runs -> [users : SUBSET Users, stock : Stocks]]
    /\ class \in [Runs -> [Stocks -> Classes \cup {NoClass}]]
    /\ signals \subseteq [run : Runs, stock : Stocks, user : Users]
    /\ overlaps \subseteq Runs \X Runs
    /\ faults \in Nat

\* The rows of a stock from one run to a later one all say the same.
SameStreak(q, r, s) == \A p \in q..r : class[p][s] \in {class[r][s], NoClass}
InStreak(q, r, s)   == class[q][s] = class[r][s] /\ SameStreak(q, r, s)

(* "One continuous qualification period produces one signal, not one every  *)
(* scan" (scanner_signals.py:12-14).  What the code keeps of it, whatever   *)
(* fails: a user gets a second signal in one period only of a run that was  *)
(* under way together with an earlier one of the period.                    *)
RepeatMeansOverlap ==
    \A x, y \in signals :
        /\ x.stock = y.stock /\ x.user = y.user /\ x.run < y.run
        /\ SameStreak(x.run, y.run, x.stock)
        => \E q \in x.run..(y.run - 1) : <<q, y.run>> \in overlaps

(* And the other way round, "a scanner qualification never silently         *)
(* produces nothing" (scanner_signals.py:9-10): when the runs of a period   *)
(* were done, none of them broken off or under way together with an earlier *)
(* one, every user has a signal of it.                                      *)
Alone(r) == \A q \in Runs : <<q, r>> \notin overlaps
StreakIsSignaled ==
    \A r \in Runs, s \in Stocks, u \in Users :
        /\ class[r][s] \in Qualified
        /\ \A q \in 1..r : InStreak(q, r, s) => scan[q] = "done" /\ Alone(q)
        => \E q \in 1..r : InStreak(q, r, s) /\ [run |-> q, stock |-> s, user |-> u] \in signals

-----------------------------------------------------------------------------
(***************************************************************************)
(* The inductive invariant behind the theorems of ScannerSignalsProofs.    *)
(***************************************************************************)
Finished(r)  == scan[r] \in {"done", "broken"}
Committed(r) == scan[r] \in {"calls", "puts", "done", "broken"}

\* Runs start in the order of their ids; those that were not under way together
\* came one after the other.
RunsInv ==
    /\ \A r \in Runs : scan[r] = "absent" <=> r > started
    /\ \A q, r \in Runs : q < r /\ r <= started /\ <<q, r>> \notin overlaps => Finished(q)
    /\ \A q, r \in Runs : <<q, r>> \in overlaps => r <= started
    /\ \A r \in Runs, s \in Stocks :
         /\ scan[r] = "absent" => class[r][s] = NoClass
         /\ scan[r] \in {"calls", "puts"} /\ s \in todo[r] =>
               class[r][s] = IF scan[r] = "calls" THEN "CE_QUALIFIED" ELSE "PE_QUALIFIED"

\* A stock a run makes signals of was not in a period already, as far as the
\* rows of finished runs can say.
New(r, s) ==
    /\ Committed(r) /\ class[r][s] \in Qualified
    /\ \A q \in 1..(r - 1) :
         /\ class[q][s] # NoClass
         /\ \A p \in q..(r - 1) : <<p, r>> \notin overlaps
         => ~SameStreak(q, r, s)
NewInv ==
    /\ \A x \in signals : New(x.run, x.stock)
    /\ \A r \in Runs : current[r].users # {} => New(r, current[r].stock) /\ scan[r] \in {"calls", "puts"}

\* What a run that is alone has left to do, or has done, of each qualified stock.
Pending(r, s) ==
    \/ scan[r] = "scanning"
    \/ scan[r] \in {"calls", "puts"} /\ s \in todo[r]
    \/ scan[r] = "calls" /\ class[r][s] = "PE_QUALIFIED"
WorkInv ==
    \A r \in Runs, s \in Stocks :
        scan[r] # "broken" /\ Alone(r) /\ class[r][s] \in Qualified =>
            \/ Pending(r, s)
            \/ Previous(r, s) = class[r][s]
            \/ \A u \in Users : \/ [run |-> r, stock |-> s, user |-> u] \in signals
                                \/ current[r].stock = s /\ u \in current[r].users

ScanInv == TypeOK /\ RunsInv /\ NewInv /\ WorkInv
=============================================================================
