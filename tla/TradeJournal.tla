---------------------------- MODULE TradeJournal ----------------------------
(***************************************************************************)
(* The trading journal (app/trademind): tradebook files are imported, the  *)
(* executions grouped into trades, the trades judged by the user's rules;  *)
(* an import can be rolled back.  One user with one broker account.        *)
(*                                                                         *)
(* The import endpoint is a coroutine that never awaits once it has the    *)
(* file, so imports come one after the other; every other endpoint runs in *)
(* a thread of its own and may come between two commits of an import.      *)
(***************************************************************************)
EXTENDS TradeGrouping

CONSTANTS
    Histories, \* what the user may have executed at the broker, in order
    Files,     \* tradebook files: sets of positions in that history
    Rules,     \* ids of the rules the user may create
    RuleKind, Threshold,
    Plans,     \* plans a user may give a trade
    MaxListed, \* how many trades an evaluation lists: 5000 in the code
    MaxJobs,   \* bound on imports
    MaxTroubles \* bound on rollbacks, edits and faults, together

ASSUME HistoriesAssumption == Histories \subseteq Seq(Executions)
ASSUME BoundsAssumption == {MaxListed, MaxJobs, MaxTroubles} \subseteq Nat
ASSUME RulesAssumption ==
    RuleKind \in [Rules -> DayKinds \cup {"mandatory_stop_loss", "min_risk_reward"}]

VARIABLES
    history,    \* the executions at the broker
    jobs,       \* tm_import_jobs: sequence of [file, status]
    execs,      \* tm_executions: id -> [row, job, trade]
    trades,     \* tm_trades: id -> [job, trade, plan]
    journals,   \* tm_trade_journal: ids of the trades that have an entry
    rules,      \* tm_rules: "new", "on", "off" or "deleted"
    evals,      \* tm_rule_evaluations: [trade, rule, day, verdict]
    lastExec, lastTrade, \* AUTOINCREMENT
    import,     \* the import under way
    plan,       \* a plan edit under way
    rollbacks, edits, faults,
    stale,      \* history: the tables changed after the verdicts were computed
    stranded,   \* history: trades whose import died before linking them
    origin,     \* history: the row of the history each id was ever given to
    erased,     \* history: rows a rollback deleted while a trade that stays has them
    cut         \* history: days an evaluation listed only a part of

importVars == <<jobs, execs, lastExec, import>>
ruleVars   == <<rules, evals>>
past       == <<origin, erased, cut>>
counters   == <<rollbacks, edits, faults>>
vars == <<history, jobs, execs, trades, journals, rules, evals, lastExec, lastTrade,
          import, plan, rollbacks, edits, faults, stale, stranded, past>>

-----------------------------------------------------------------------------
NoImport == [pc |-> "idle", job |-> 0, left |-> <<>>, evals |-> {}]
NoEdit   == [pc |-> "idle", evals |-> {}]
Empty    == [x \in {} |-> x]
NoPlan   == [sl |-> None, target |-> None, risk |-> None]

Init ==
    /\ history \in Histories
    /\ jobs = <<>> /\ execs = Empty /\ trades = Empty /\ journals = {}
    /\ \E s \in {"new", "on"} : rules = [r \in Rules |-> s]
    /\ evals = {}
    /\ lastExec = 0 /\ lastTrade = 0
    /\ import = NoImport /\ plan = NoEdit
    /\ rollbacks = 0 /\ edits = 0 /\ faults = 0
    /\ stale = FALSE /\ stranded = {} /\ origin = <<>> /\ erased = {} /\ cut = {}

Trouble == rollbacks + edits + faults < MaxTroubles

Rows(file)     == file \cap DOMAIN history
Execution(id)  == [history[execs[id].row] EXCEPT !.id = id]

\* Mutants: the executions of trades are listed too; only this import's are.
AnyExecution   == DOMAIN execs
ThisImports    == {id \in DOMAIN execs : execs[id].trade = 0 /\ execs[id].job = import.job}
Ungrouped      == {id \in DOMAIN execs : execs[id].trade = 0}
ByTime(ids)    == LET sorted == InOrder([id \in ids |-> execs[id].row])
                  IN  [i \in DOMAIN sorted |-> Execution(sorted[i])]

\* find_import_job_by_checksum, create_import_job.
ImportedBefore(f)  == \E j \in DOMAIN jobs : jobs[j].file = f /\ jobs[j].status = "completed"
AddJob(f, status) == jobs' = Append(jobs, [file |-> f, status |-> status])

\* A file without rows stands for one without a header row, which parse_csv
\* refuses (fail_import_job).
StartImport(f) ==
    /\ import.pc = "idle" /\ Len(jobs) < MaxJobs /\ ~ ImportedBefore(f)
    /\ \/ /\ Rows(f) = {}
          /\ AddJob(f, "failed")
          /\ UNCHANGED import
       \/ /\ Rows(f) # {}
          /\ AddJob(f, "processing")
          /\ import' = [NoImport EXCEPT !.pc = "insert", !.job = Len(jobs) + 1]
    /\ UNCHANGED <<history, execs, trades, journals, ruleVars, lastExec, lastTrade, plan,
                   counters, stale, stranded, past>>

\* A row whose fingerprint the table has is skipped.
InsertExecutions ==
    LET new == Rows(jobs[import.job].file) \ {execs[id].row : id \in DOMAIN execs}
        row == InOrder([r \in new |-> r])
        ids == (lastExec + 1)..(lastExec + Len(row))
    IN  /\ import.pc = "insert"
        /\ execs' = [id \in DOMAIN execs \cup ids |->
                        IF id \in ids
                        THEN [row |-> row[id - lastExec], job |-> import.job, trade |-> 0]
                        ELSE execs[id]]
        /\ lastExec' = lastExec + Len(row)
        /\ origin' = origin \o row
        /\ import' = [import EXCEPT !.pc = "group"]
        /\ UNCHANGED <<history, jobs, trades, journals, ruleVars, lastTrade, plan, counters,
                       stale, stranded, erased, cut>>

\* list_all_executions_for_account: what belongs to no trade yet, of this and
\* of every earlier import.
GroupUngrouped ==
    /\ import.pc = "group"
    /\ import' = [import EXCEPT !.pc = "trade", !.left = GroupIntoTrades(ByTime(Ungrouped))]
    /\ UNCHANGED <<history, jobs, execs, trades, journals, ruleVars, lastExec, lastTrade,
                   plan, counters, stale, stranded, past>>

\* insert_trade ...
InsertTrade ==
    /\ import.pc = "trade" /\ import.left # <<>>
    /\ lastTrade' = lastTrade + 1
    /\ trades' = [t \in DOMAIN trades \cup {lastTrade'} |->
                     IF t = lastTrade'
                     THEN [job |-> import.job, trade |-> Head(import.left), plan |-> NoPlan]
                     ELSE trades[t]]
    /\ import' = [import EXCEPT !.pc = "link"]
    /\ stale' = TRUE
    /\ UNCHANGED <<history, jobs, execs, journals, ruleVars, lastExec, plan, counters,
                   stranded, past>>

LegsOf(t) == ToSet(t.entries) \cup ToSet(t.exits)
IdsOf(t)  == {leg.ex.id : leg \in LegsOf(t)}

\* ... and link_executions_to_trade commit apart.
LinkExecutions ==
    LET ids == IdsOf(Head(import.left))
    IN  /\ import.pc = "link"
        /\ execs' = [id \in DOMAIN execs |->
                        IF id \in ids THEN [execs[id] EXCEPT !.trade = lastTrade] ELSE execs[id]]
        /\ import' = [import EXCEPT !.pc = "trade", !.left = Tail(@)]
        /\ UNCHANGED <<history, jobs, trades, journals, ruleVars, lastExec, lastTrade, plan,
                       counters, stale, stranded, past>>

FinishJob ==
    /\ import.pc = "trade" /\ import.left = <<>>
    /\ jobs' = [jobs EXCEPT ![import.job].status = "completed"]
    /\ import' = [import EXCEPT !.pc = "rules"]
    /\ UNCHANGED <<history, execs, trades, journals, ruleVars, lastExec, lastTrade, plan,
                   counters, stale, stranded, past>>

DayOf(t)      == ExitDay(trades[t].trade)
OnOrAfter(t, d) == DayOf(t) = d \/ DayOf(t) > d
OnDay(ts, d)  == {t \in ts : DayOf(t) = d}
Enabled(r)    == rules[r] = "on"
NetsOn(ts, d) == LET on == SetToSeq(OnDay(ts, d))
                 IN  [i \in DOMAIN on |-> NetPnl(trades[on[i]].trade)]
DayVerdict(ts, r, d) ==
    IF DayCompliant(RuleKind[r], Threshold[r], NetsOn(ts, d)) THEN "kept" ELSE "broken"

\* list_trades: the newest by the time they were closed.  Which trades of one
\* day come first is left open.
Newest(ts) ==
    /\ Cardinality(ts) = Lesser(MaxListed, Cardinality(DOMAIN trades))
    /\ \A t \in ts, u \in DOMAIN trades \ ts : OnOrAfter(t, DayOf(u))

\* evaluate_day_rules for each day the listed trades have.
Evaluate(listed, days) ==
    /\ import.pc = "rules"
    /\ import' = [import EXCEPT !.pc = "save",
           !.evals = {[trade |-> t, rule |-> r, day |-> DayOf(t),
                       verdict |-> DayVerdict(listed, r, DayOf(t))] :
                        t \in listed,
                        r \in {q \in Rules : Enabled(q) /\ RuleKind[q] \in DayKinds}}]
    /\ cut' = cut \cup days
    /\ stale' = FALSE
    /\ UNCHANGED <<history, jobs, execs, trades, journals, ruleVars, lastExec, lastTrade, plan,
                   counters, stranded, origin, erased>>

\* Mutant: only the trades of this import are judged.
EvaluateNewTrades == Evaluate({t \in DOMAIN trades : trades[t].job = import.job}, {})

\* evaluate_rules_for_recent_trades: the newest trades the user has, by day.
DaysOf(ts)   == {DayOf(t) : t \in ts}
EvaluateDays ==
    \E ts \in SUBSET DOMAIN trades :
        Newest(ts) /\ Evaluate(ts, DaysOf(ts) \cap DaysOf(DOMAIN trades \ ts))

\* The foreign keys of tm_rule_evaluations.
Accepts(es)    == \A e \in es : e.trade \in DOMAIN trades /\ rules[e.rule] \in {"on", "off"}
Replaced(es)   == {e \in evals : \A n \in es : <<n.trade, n.rule>> # <<e.trade, e.rule>>} \cup es

\* save_rule_evaluations: one transaction a day.
SaveDay(d) ==
    LET es == {e \in import.evals : e.day = d}
    IN  /\ import.pc = "save" /\ es # {} /\ Accepts(es)
        /\ evals' = Replaced(es)
        /\ import' = [import EXCEPT !.evals = @ \ es]
        /\ UNCHANGED <<history, jobs, execs, trades, journals, rules, lastExec, lastTrade, plan,
                       counters, stale, stranded, past>>

EndImport ==
    /\ import.pc = "save" /\ import.evals = {}
    /\ import' = NoImport
    /\ UNCHANGED <<history, jobs, execs, trades, journals, ruleVars, lastExec, lastTrade, plan,
                   counters, stale, stranded, past>>

\* A verdict the database refuses is an exception: the other days keep theirs.
RefusedDay(d) ==
    /\ import.pc = "save" /\ ~ Accepts({e \in import.evals : e.day = d})
    /\ import' = NoImport
    /\ UNCHANGED <<history, jobs, execs, trades, journals, ruleVars, lastExec, lastTrade, plan,
                   counters, stale, stranded, past>>

\* Any other exception, or a crash: nothing ever resumes the import, and its
\* job stays as it is.
ImportDies ==
    /\ import.pc # "idle" /\ Trouble
    /\ faults' = faults + 1
    /\ import' = NoImport
    /\ stale' = TRUE
    /\ stranded' = IF import.pc = "link" THEN stranded \cup {lastTrade} ELSE stranded
    /\ UNCHANGED <<history, jobs, execs, trades, journals, ruleVars, lastExec, lastTrade, plan,
                   rollbacks, edits, past>>

\* rollback_import_job, one transaction: the job's trades with all that refers
\* to them, and its executions.
Rollback(j) ==
    LET kept == {t \in DOMAIN trades : trades[t].job # j}
        gone == {id \in DOMAIN execs : execs[id].job = j}
        used == (UNION {IdsOf(trades[t].trade) : t \in kept})
                    \cup (UNION {IdsOf(import.left[i]) : i \in DOMAIN import.left})
    IN  /\ j \in DOMAIN jobs /\ Trouble
        /\ rollbacks' = rollbacks + 1
        /\ journals' = journals \cap kept
        /\ evals' = {e \in evals : e.trade \in kept}
        /\ trades' = [t \in kept |-> trades[t]]
        /\ execs' = [id \in DOMAIN execs \ gone |-> execs[id]]
        /\ erased' = erased \cup {execs[id].row : id \in gone \cap used}
        /\ jobs' = [jobs EXCEPT ![j].status = "rolled_back"]
        /\ stale' = TRUE
        /\ UNCHANGED <<history, rules, lastExec, lastTrade, import, plan, edits, faults,
                       stranded, origin, cut>>

-----------------------------------------------------------------------------
(* The other endpoints *)

Edit == Trouble /\ edits' = edits + 1

RuleBecomes(r, to) ==
    /\ rules' = [rules EXCEPT ![r] = to]
    /\ stale' = TRUE
    /\ UNCHANGED <<history, importVars, trades, journals, lastTrade, plan, rollbacks, faults,
                   stranded, past>>

CreateRule(r) ==
    /\ Edit /\ rules[r] = "new"
    /\ RuleBecomes(r, "on")
    /\ UNCHANGED evals

\* set_rule_enabled: the verdicts stay as they are.
ToggleRule(r) ==
    /\ Edit /\ rules[r] \in {"on", "off"}
    /\ RuleBecomes(r, IF rules[r] = "on" THEN "off" ELSE "on")
    /\ UNCHANGED evals

DeleteRule(r) ==
    /\ Edit /\ rules[r] \in {"on", "off"}
    /\ RuleBecomes(r, "deleted")
    /\ evals' = {e \in evals : e.rule # r}

\* update_trade_plan and the reading of the trade and of the rules ...
EditPlan(t, p) ==
    LET verdict(r) == TradeVerdict(RuleKind[r], Threshold[r], p, trades[t].trade)
        judging == {r \in Rules : Enabled(r) /\ RuleKind[r] \notin DayKinds}
    IN  /\ Edit /\ plan.pc = "idle" /\ t \in DOMAIN trades
        /\ trades' = [trades EXCEPT ![t].plan = p]
        /\ plan' = [pc |-> "save",
                    evals |-> {[trade |-> t, rule |-> r, day |-> DayOf(t), verdict |-> verdict(r)] :
                                 r \in {q \in judging : verdict(q) # NotJudged}}]
        /\ UNCHANGED <<history, importVars, journals, ruleVars, lastTrade, rollbacks, faults,
                       stale, stranded, past>>

\* ... then the verdicts, unless the trade or a rule is gone.
SavePlan ==
    /\ plan.pc = "save"
    /\ evals' = IF Accepts(plan.evals) THEN Replaced(plan.evals) ELSE evals
    /\ plan' = NoEdit
    /\ UNCHANGED <<history, importVars, trades, journals, rules, lastTrade, counters, stale,
                   stranded, past>>

SaveJournal(t) ==
    /\ Edit /\ t \in DOMAIN trades
    /\ journals' = journals \cup {t}
    /\ UNCHANGED <<history, importVars, trades, ruleVars, lastTrade, plan, rollbacks, faults,
                   stale, stranded, past>>

-----------------------------------------------------------------------------
Days == {history[i].day : i \in DOMAIN history}

Import ==
    \/ InsertExecutions \/ GroupUngrouped \/ InsertTrade \/ LinkExecutions \/ FinishJob
    \/ EvaluateDays \/ EndImport
    \/ \E d \in Days : SaveDay(d) \/ RefusedDay(d)

Next ==
    \/ Import \/ ImportDies \/ SavePlan
    \/ \E f \in Files : StartImport(f)
    \/ \E j \in DOMAIN jobs : Rollback(j)
    \/ \E r \in Rules : CreateRule(r) \/ ToggleRule(r) \/ DeleteRule(r)
    \/ \E t \in DOMAIN trades : SaveJournal(t) \/ \E p \in Plans : EditPlan(t, p)

Spec == Init /\ [][Next]_vars

-----------------------------------------------------------------------------
(* Properties *)

\* A rule on a whole day judges all the day's trades alike, also when an
\* import ended half way through its days (evaluate_day_rules gives every
\* trade of the day the one verdict).  A day the limit of the listing ever
\* went through may have old and new verdicts side by side.
DayVerdictsAgree ==
    \A e, f \in evals :
        e.rule = f.rule /\ e.day = f.day /\ RuleKind[e.rule] \in DayKinds /\ e.day \notin cut =>
            e.verdict = f.verdict

\* The verdicts of the enabled day rules on a trade are those of its day's
\* trades as they are.
JudgedAsIs(t) ==
    \A r \in Rules :
        Enabled(r) /\ RuleKind[r] \in DayKinds =>
            [trade |-> t, rule |-> r, day |-> DayOf(t),
             verdict |-> DayVerdict(DOMAIN trades, r, DayOf(t))] \in evals

\* The trades of a day and of all later ones are no more than an evaluation lists.
WithinLimit(d) ==
    Cardinality({u \in DOMAIN trades : OnOrAfter(u, d)}) <= MaxListed

\* After an import the trades of every day within the limit, of this import and
\* of earlier ones, are judged as they are, unless a rollback or an edit of
\* the rules came after the import read them.
VerdictsCurrent ==
    import.pc = "idle" /\ ~ stale =>
        \A t \in DOMAIN trades : WithinLimit(DayOf(t)) => JudgedAsIs(t)

Table == ByTime(DOMAIN execs)

\* The trades there are, but those an import died on, by id.
Live == [t \in 1..lastTrade |-> IF t \in DOMAIN trades \ stranded THEN trades[t].trade
                                ELSE Trade("long")]

\* How much of a row of the history trades use, whatever ids the row was given.
OfRow(ls, r)    == SumSeq([i \in DOMAIN ls |-> IF origin[ls[i].ex.id] = r THEN ls[i].qty ELSE 0])
RowUse(t, r)    == OfRow(t.entries, r) + OfRow(t.exits, r)
RowUseOf(ts, r) == SumSeq([i \in DOMAIN ts |-> RowUse(ts[i], r)])

\* Over any sequence of imports, overlapping files, rollbacks in the middle of
\* an import and crashes, no execution at the broker is counted in trades for
\* more than its quantity, also when it was deleted and imported again.  The
\* exceptions are an execution a rollback deleted under a trade of another
\* import, which the next import of its file uses once more, and a trade whose
\* import died before it linked the executions, which the next import makes
\* again.  And grouping whatever is in the table loses nothing: a closed trade
\* exits what it entered, first in, first out, and the rest is the open
\* position.
NoDoubleCount ==
    /\ \A r \in DOMAIN history \ erased : RowUseOf(Live, r) <= history[r].qty
    /\ GroupingConserves(Table)

Chronological == \A a, b \in DOMAIN execs : a < b => execs[a].row < execs[b].row
Undisturbed   == import.pc = "idle" /\ rollbacks = 0 /\ faults = 0 /\ Chronological

\* Some execution turns a long position into a short one or back.
Flips ==
    LET position(sym, k) == SumSeq([i \in 1..k |-> IF Table[i].symbol # sym THEN 0
                                        ELSE Table[i].qty * Sign(SideOf(Table[i]))])
    IN  \E k \in DOMAIN Table :
            position(Table[k].symbol, k - 1) * position(Table[k].symbol, k) < 0

\* Files in the order of time, overlapping or not, give the trades that one
\* file with everything would give, as long as no execution turned a position
\* over (list_all_executions_for_account, run_import).
SplitImportsAgree ==
    Undisturbed /\ ~ Flips =>
        {trades[t].trade : t \in DOMAIN trades} = ToSet(GroupIntoTrades(Table))

=============================================================================
