------------------------- MODULE TradeJournalProofs -------------------------
(***************************************************************************)
(* Proofs about the trading journal (TradeJournal).  First, the verdicts   *)
(* belong together and are up to date: what a day's trades come to stays   *)
(* opaque there, the proofs are about which trades are judged together and *)
(* when the verdicts are stored.  Then, no execution is counted twice, and *)
(* files imported in order make the trades of one file with everything,    *)
(* from what TradeGroupingProofs shows of a grouping and of its parts.     *)
(***************************************************************************)
EXTENDS TradeJournal, TradeGroupingProofs, SequenceTheorems

-----------------------------------------------------------------------------
(* The inductive invariant *)

OfDayRule(e) == RuleKind[e.rule] \in DayKinds
IsVerdict(e) ==
    e = [trade |-> e.trade, rule |-> e.rule, day |-> e.day, verdict |-> e.verdict]
Alike(e, f)  == e.rule = f.rule /\ e.day = f.day
DayRules     == {r \in Rules : Enabled(r) /\ RuleKind[r] \in DayKinds}
WholeDay(r, d) == DayVerdict(DOMAIN trades, r, d)
VerdictOf(t, r) ==
    [trade |-> t, rule |-> r, day |-> DayOf(t), verdict |-> WholeDay(r, DayOf(t))]

\* Ids of trades are never given twice, and only an import at its last stage
\* holds verdicts.
TablesHold ==
    /\ lastTrade \in Nat /\ DOMAIN trades \subseteq 1..lastTrade
    /\ \A t \in DOMAIN trades :
           trades[t] = [job |-> trades[t].job, trade |-> trades[t].trade, plan |-> trades[t].plan]
    /\ import = [pc |-> import.pc, job |-> import.job, left |-> import.left,
                 evals |-> import.evals]
    /\ import.pc # "save" => import.evals = {}

\* What an import holds covers whole days, but those the limit of the listing
\* went through: whoever has a verdict of a rule on a day, all the day's trades
\* have the same one.
HeldVerdicts ==
    \A e \in import.evals :
        /\ IsVerdict(e) /\ OfDayRule(e)
        /\ e.trade \in DOMAIN trades => e.day = DayOf(e.trade)
        /\ \A f \in import.evals : Alike(e, f) => e.verdict = f.verdict
        /\ e.day \notin cut =>
               \A t \in DOMAIN trades :
                   DayOf(t) = e.day =>
                       \E f \in import.evals : f.trade = t /\ Alike(e, f)

\* A stored verdict is of a trade there is; that of a day rule, on the trade's
\* day.
StoredVerdicts ==
    \A e \in evals : /\ e.trade \in DOMAIN trades
                     /\ OfDayRule(e) => e.day = DayOf(e.trade)

PlanVerdicts == \A e \in plan.evals : ~ OfDayRule(e)

\* While nothing changed since an import judged the trades, the database will
\* take what it holds, and every verdict is stored or held.
HeldAreCurrent ==
    ~ stale =>
        /\ Accepts(import.evals)
        /\ \A e \in import.evals :
               WithinLimit(e.day) => e.verdict = WholeDay(e.rule, e.day)

AllJudged ==
    ~ stale /\ import.pc \in {"idle", "save"} =>
        \A t \in DOMAIN trades, r \in DayRules :
            WithinLimit(DayOf(t)) => VerdictOf(t, r) \in evals \cup import.evals

JournalInv ==
    /\ TablesHold /\ HeldVerdicts /\ StoredVerdicts /\ PlanVerdicts
    /\ HeldAreCurrent /\ AllJudged /\ DayVerdictsAgree

-----------------------------------------------------------------------------
(* What the days' verdicts depend on *)

\* The days are as they were.
SameDays ==
    /\ (DOMAIN trades)' = DOMAIN trades
    /\ \A t \in DOMAIN trades : DayOf(t)' = DayOf(t)
    /\ \A r, d : WholeDay(r, d)' = WholeDay(r, d)
    /\ \A d : WithinLimit(d)' = WithinLimit(d)

LEMMA SameTradesSameDays == ASSUME trades' = trades PROVE SameDays
<1>1. \A t : DayOf(t)' = DayOf(t)  BY DEF DayOf
<1>2. ASSUME NEW d PROVE NetsOn(DOMAIN trades, d)' = NetsOn(DOMAIN trades, d)
    BY Zenon DEF NetsOn, OnDay, DayOf
<1>3. \A r, d : WholeDay(r, d)' = WholeDay(r, d)  BY <1>2 DEF WholeDay, DayVerdict
<1>4. \A d : WithinLimit(d)' = WithinLimit(d)  BY <1>1 DEF WithinLimit, OnOrAfter
<1> QED  BY <1>1, <1>3, <1>4 DEF SameDays

LEMMA DaysAreFinite ==
    ASSUME TablesHold, NEW d
    PROVE  IsFiniteSet(OnDay(DOMAIN trades, d)) /\ OnDay(DOMAIN trades, d) \subseteq DOMAIN trades
<1>1. OnDay(DOMAIN trades, d) \subseteq DOMAIN trades  BY DEF OnDay
<1>2. IsFiniteSet(1..lastTrade)  BY FS_Interval DEF TablesHold
<1>3. OnDay(DOMAIN trades, d) \in SUBSET (1..lastTrade)  BY <1>1 DEF TablesHold
<1> QED  BY <1>1, <1>2, <1>3, FS_Subset

\* A plan says nothing of the day.
LEMMA PlansLeaveDays ==
    ASSUME TablesHold, NEW t \in DOMAIN trades, NEW p,
           trades' = [trades EXCEPT ![t].plan = p]
    PROVE  SameDays
<1>1. /\ (DOMAIN trades)' = DOMAIN trades
      /\ \A u \in DOMAIN trades : trades'[u].trade = trades[u].trade
    BY DEF TablesHold
<1>2. \A u \in DOMAIN trades : DayOf(u)' = DayOf(u)  BY <1>1 DEF DayOf
<1>3. ASSUME NEW d PROVE NetsOn(DOMAIN trades, d)' = NetsOn(DOMAIN trades, d)
    <2>1. OnDay(DOMAIN trades, d)' = OnDay(DOMAIN trades, d)  BY <1>1, <1>2 DEF OnDay
    <2> DEFINE ts == SetToSeq(OnDay(DOMAIN trades, d))
    <2>2. \A i \in DOMAIN ts : ts[i] \in DOMAIN trades
        BY DaysAreFinite, ListedOnce
    <2>3. NetsOn(DOMAIN trades, d)' = [i \in DOMAIN ts |-> NetPnl(trades'[ts[i]].trade)]
        BY <2>1 DEF NetsOn
    <2>4. NetsOn(DOMAIN trades, d) = [i \in DOMAIN ts |-> NetPnl(trades[ts[i]].trade)]
        BY DEF NetsOn
    <2> HIDE DEF ts
    <2> QED  BY <1>1, <2>2, <2>3, <2>4
<1>4. \A r, d : WholeDay(r, d)' = WholeDay(r, d)  BY <1>3 DEF WholeDay, DayVerdict
<1>5. ASSUME NEW d PROVE WithinLimit(d)' = WithinLimit(d)
    <2>1. {u \in DOMAIN trades : OnOrAfter(u, d)}' = {u \in DOMAIN trades : OnOrAfter(u, d)}
        BY <1>1, <1>2 DEF OnOrAfter
    <2> QED  BY <2>1 DEF WithinLimit
<1> QED  BY <1>1, <1>2, <1>4, <1>5 DEF SameDays

-----------------------------------------------------------------------------
(* The initial states, and steps that only end or begin something *)

LEMMA JournalStarts == ASSUME Init PROVE JournalInv
<1> USE DEF Init, NoImport, NoEdit, Empty
<1>1. TablesHold  BY DEF TablesHold
<1>2. HeldVerdicts /\ StoredVerdicts /\ PlanVerdicts
    BY DEF HeldVerdicts, StoredVerdicts, PlanVerdicts
<1>3. HeldAreCurrent  BY DEF HeldAreCurrent, Accepts
<1>4. AllJudged  BY DEF AllJudged
<1>5. DayVerdictsAgree  BY DEF DayVerdictsAgree
<1> QED  BY <1>1, <1>2, <1>3, <1>4, <1>5 DEF JournalInv

\* The tables and the verdicts stay.
TablesStay ==
    UNCHANGED <<trades, lastTrade, evals, rules, plan, cut>>

\* A step of an import that stores no verdict, and ends with none held.
HoldsNone ==
    /\ import' = [pc |-> import'.pc, job |-> import'.job, left |-> import'.left,
                  evals |-> import'.evals]
    /\ import'.evals = {}
    /\ ~ stale' /\ import'.pc \in {"idle", "save"} =>
           ~ stale /\ import.pc \in {"idle", "save"} /\ import.evals = {}

LEMMA ImportGoesOn ==
    ASSUME JournalInv, TablesStay, HoldsNone
    PROVE  JournalInv'
<1> USE DEF TablesStay
<1>0. SameDays  BY SameTradesSameDays
<1>1. TablesHold'  BY DEF JournalInv, TablesHold, HoldsNone
<1>2. HeldVerdicts'  BY DEF HeldVerdicts, HoldsNone
<1>3. StoredVerdicts'
    BY <1>0 DEF JournalInv, StoredVerdicts, OfDayRule, SameDays
<1>4. PlanVerdicts'  BY DEF JournalInv, PlanVerdicts, OfDayRule
<1>5. HeldAreCurrent'  BY DEF HeldAreCurrent, HoldsNone, Accepts
<1>6. AllJudged'
    <2> SUFFICES ASSUME ~ stale', import'.pc \in {"idle", "save"},
                        NEW t \in DOMAIN trades, NEW r \in DayRules', WithinLimit(DayOf(t))
                 PROVE  VerdictOf(t, r)' \in evals
        BY <1>0 DEF AllJudged, HoldsNone, SameDays
    <2>1. r \in DayRules  BY DEF DayRules, Enabled
    <2>2. VerdictOf(t, r)' = VerdictOf(t, r)  BY <1>0 DEF SameDays, VerdictOf
    <2>3. VerdictOf(t, r) \in evals
        BY <2>1 DEF HoldsNone, JournalInv, AllJudged
    <2> QED  BY <2>2, <2>3
<1>7. DayVerdictsAgree'  BY DEF JournalInv, DayVerdictsAgree
<1> QED  BY <1>1, <1>2, <1>3, <1>4, <1>5, <1>6, <1>7 DEF JournalInv

LEMMA NothingHappens ==
    ASSUME JournalInv, TablesStay, UNCHANGED <<import, stale>>
    PROVE  JournalInv'
<1> USE DEF TablesStay
<1>0. SameDays  BY SameTradesSameDays
<1>1. TablesHold'  BY DEF JournalInv, TablesHold
<1>2. HeldVerdicts'
    BY <1>0 DEF JournalInv, HeldVerdicts, IsVerdict, OfDayRule, Alike, SameDays
<1>3. StoredVerdicts'
    BY <1>0 DEF JournalInv, StoredVerdicts, OfDayRule, SameDays
<1>4. PlanVerdicts'  BY DEF JournalInv, PlanVerdicts, OfDayRule
<1>5. HeldAreCurrent'
    BY <1>0 DEF JournalInv, HeldAreCurrent, Accepts, SameDays
<1>6. AllJudged'
    <2> SUFFICES ASSUME ~ stale, import.pc \in {"idle", "save"},
                        NEW t \in DOMAIN trades, NEW r \in DayRules', WithinLimit(DayOf(t))
                 PROVE  VerdictOf(t, r)' \in evals \cup import.evals
        BY <1>0 DEF AllJudged, SameDays
    <2>1. r \in DayRules  BY DEF DayRules, Enabled
    <2>2. VerdictOf(t, r)' = VerdictOf(t, r)  BY <1>0 DEF SameDays, VerdictOf
    <2> QED  BY <2>1, <2>2 DEF JournalInv, AllJudged
<1>7. DayVerdictsAgree'  BY DEF JournalInv, DayVerdictsAgree
<1> QED  BY <1>1, <1>2, <1>3, <1>4, <1>5, <1>6, <1>7 DEF JournalInv

-----------------------------------------------------------------------------
(* Steps that change what the verdicts are about: the tables are stale *)

\* A trade that comes or goes.
TradesChange ==
    /\ stale' = TRUE
    /\ UNCHANGED <<rules, plan, cut>>
    /\ evals' = {e \in evals : e.trade \in DOMAIN trades'}
    /\ \A t \in DOMAIN trades \cap DOMAIN trades' : DayOf(t)' = DayOf(t)
    /\ import'.evals = import.evals
    /\ import.evals # {} => DOMAIN trades' \subseteq DOMAIN trades

LEMMA TradesComeAndGo ==
    ASSUME JournalInv, TablesHold', TradesChange
    PROVE  JournalInv'
<1> USE DEF TradesChange
<1>1. HeldVerdicts'
    <2> SUFFICES ASSUME NEW e \in import.evals
                 PROVE  /\ IsVerdict(e) /\ OfDayRule(e)
                        /\ e.trade \in DOMAIN trades' => e.day = DayOf(e.trade)'
                        /\ \A f \in import.evals : Alike(e, f) => e.verdict = f.verdict
                        /\ e.day \notin cut =>
                               \A t \in DOMAIN trades' :
                                   DayOf(t)' = e.day =>
                                       \E f \in import.evals : f.trade = t /\ Alike(e, f)
        BY DEF HeldVerdicts, IsVerdict, OfDayRule, Alike
    <2>1. DOMAIN trades' \subseteq DOMAIN trades  OBVIOUS
    <2> QED  BY <2>1 DEF JournalInv, HeldVerdicts
<1>2. StoredVerdicts'
    <2> SUFFICES ASSUME NEW e \in evals, e.trade \in DOMAIN trades', OfDayRule(e)
                 PROVE  e.day = DayOf(e.trade)'
        BY DEF StoredVerdicts, OfDayRule
    <2> QED  BY DEF JournalInv, StoredVerdicts
<1>3. PlanVerdicts'  BY DEF JournalInv, PlanVerdicts, OfDayRule
<1>4. HeldAreCurrent' /\ AllJudged'  BY DEF HeldAreCurrent, AllJudged
<1>5. DayVerdictsAgree'  BY DEF JournalInv, DayVerdictsAgree
<1> QED  BY <1>1, <1>2, <1>3, <1>4, <1>5 DEF JournalInv

LEMMA TradeComes == ASSUME JournalInv, InsertTrade PROVE JournalInv'
<1> USE DEF InsertTrade, ruleVars, past
<1>1. lastTrade \in Nat /\ DOMAIN trades \subseteq 1..lastTrade  BY DEF JournalInv, TablesHold
<1>2. lastTrade' = lastTrade + 1 /\ lastTrade' \notin DOMAIN trades  BY <1>1
<1>3. DOMAIN trades' = DOMAIN trades \cup {lastTrade'}  OBVIOUS
<1>4. \A t \in DOMAIN trades : trades'[t] = trades[t]  BY <1>2, <1>3
<1>5. trades'[lastTrade'] = [job |-> import.job, trade |-> Head(import.left), plan |-> NoPlan]
    BY <1>2
<1>6. import.evals = {} /\ import'.evals = import.evals
    BY DEF JournalInv, TablesHold
<1>7. TablesHold'
    <2>1. lastTrade' \in Nat /\ DOMAIN trades' \subseteq 1..lastTrade'  BY <1>1, <1>2, <1>3
    <2>2. \A t \in DOMAIN trades' :
              trades'[t] = [job |-> trades'[t].job, trade |-> trades'[t].trade,
                            plan |-> trades'[t].plan]
        BY <1>3, <1>4, <1>5 DEF JournalInv, TablesHold
    <2>3. import' = [pc |-> import'.pc, job |-> import'.job, left |-> import'.left,
                     evals |-> import'.evals]
        BY DEF JournalInv, TablesHold
    <2> QED  BY <2>1, <2>2, <2>3, <1>6 DEF TablesHold
<1>8. TradesChange
    <2>1. \A t \in DOMAIN trades \cap DOMAIN trades' : DayOf(t)' = DayOf(t)
        BY <1>4 DEF DayOf
    <2>2. evals' = {e \in evals : e.trade \in DOMAIN trades'}
        BY <1>3 DEF JournalInv, StoredVerdicts
    <2> QED  BY <2>1, <2>2, <1>3, <1>6 DEF TradesChange
<1> QED  BY <1>7, <1>8, TradesComeAndGo

LEMMA JobGoes == ASSUME JournalInv, NEW j, Rollback(j) PROVE JournalInv'
<1> DEFINE kept == {t \in DOMAIN trades : trades[t].job # j}
<1> USE DEF Rollback
<1>1. trades' = [t \in kept |-> trades[t]] /\ DOMAIN trades' = kept  OBVIOUS
<1>2. kept \subseteq DOMAIN trades /\ \A t \in kept : trades'[t] = trades[t]  BY <1>1
<1>3. TablesHold'  BY <1>1, <1>2 DEF JournalInv, TablesHold
<1>4. TradesChange
    <2>1. \A t \in DOMAIN trades \cap DOMAIN trades' : DayOf(t)' = DayOf(t)
        BY <1>1, <1>2 DEF DayOf
    <2>2. evals' = {e \in evals : e.trade \in DOMAIN trades'}  BY <1>1
    <2> QED  BY <2>1, <2>2, <1>1, <1>2 DEF TradesChange
<1> QED  BY <1>3, <1>4, TradesComeAndGo

\* A rule that changes: verdicts may go, none comes.
RulesChange ==
    /\ stale' = TRUE /\ evals' \subseteq evals
    /\ UNCHANGED <<trades, lastTrade, plan, import, cut>>

LEMMA RulesComeAndGo == ASSUME JournalInv, RulesChange PROVE JournalInv'
<1> USE DEF RulesChange
<1>0. SameDays  BY SameTradesSameDays
<1>1. TablesHold'  BY DEF JournalInv, TablesHold
<1>2. HeldVerdicts'
    BY <1>0 DEF JournalInv, HeldVerdicts, IsVerdict, OfDayRule, Alike, SameDays
<1>3. StoredVerdicts'
    BY <1>0 DEF JournalInv, StoredVerdicts, OfDayRule, SameDays
<1>4. PlanVerdicts'  BY DEF JournalInv, PlanVerdicts, OfDayRule
<1>5. HeldAreCurrent' /\ AllJudged'  BY DEF HeldAreCurrent, AllJudged
<1>6. DayVerdictsAgree'  BY DEF JournalInv, DayVerdictsAgree
<1> QED  BY <1>1, <1>2, <1>3, <1>4, <1>5, <1>6 DEF JournalInv

LEMMA RuleEdits ==
    ASSUME JournalInv, NEW r, CreateRule(r) \/ ToggleRule(r) \/ DeleteRule(r)
    PROVE  JournalInv'
<1> SUFFICES RulesChange  BY RulesComeAndGo
<1> QED
    BY DEF CreateRule, ToggleRule, DeleteRule, RuleBecomes, RulesChange, importVars, past

-----------------------------------------------------------------------------
(* Plans *)

LEMMA PlanEdited ==
    ASSUME JournalInv, NEW t \in DOMAIN trades, NEW p, EditPlan(t, p)
    PROVE  JournalInv'
<1> USE DEF EditPlan, importVars, ruleVars, past
<1>0. SameDays  BY PlansLeaveDays DEF JournalInv
<1>1. TablesHold'
    <2>1. /\ (DOMAIN trades)' = DOMAIN trades
          /\ \A u \in DOMAIN trades :
                 trades'[u] = [job |-> trades'[u].job, trade |-> trades'[u].trade,
                               plan |-> trades'[u].plan]
        BY DEF JournalInv, TablesHold
    <2> QED  BY <2>1 DEF JournalInv, TablesHold
<1>2. HeldVerdicts'
    BY <1>0 DEF JournalInv, HeldVerdicts, IsVerdict, OfDayRule, Alike, SameDays
<1>3. StoredVerdicts'
    BY <1>0 DEF JournalInv, StoredVerdicts, OfDayRule, SameDays
<1>4. PlanVerdicts'
    <2> SUFFICES ASSUME NEW e \in plan'.evals PROVE RuleKind[e.rule] \notin DayKinds
        BY DEF PlanVerdicts, OfDayRule
    <2>1. \E r \in Rules : RuleKind[r] \notin DayKinds /\ e.rule = r  OBVIOUS
    <2> QED  BY <2>1
<1>5. HeldAreCurrent'
    BY <1>0 DEF JournalInv, HeldAreCurrent, Accepts, SameDays
<1>6. AllJudged'
    <2> SUFFICES ASSUME ~ stale, import.pc \in {"idle", "save"},
                        NEW u \in DOMAIN trades, NEW r \in DayRules', WithinLimit(DayOf(u))
                 PROVE  VerdictOf(u, r)' \in evals \cup import.evals
        BY <1>0 DEF AllJudged, SameDays
    <2>1. r \in DayRules  BY DEF DayRules, Enabled
    <2>2. VerdictOf(u, r)' = VerdictOf(u, r)  BY <1>0 DEF SameDays, VerdictOf
    <2> QED  BY <2>1, <2>2 DEF JournalInv, AllJudged
<1>7. DayVerdictsAgree'  BY DEF JournalInv, DayVerdictsAgree
<1> QED  BY <1>1, <1>2, <1>3, <1>4, <1>5, <1>6, <1>7 DEF JournalInv

\* What a plan's verdicts replace is never of a day rule.
LEMMA PlanSaved == ASSUME JournalInv, SavePlan PROVE JournalInv'
<1> USE DEF SavePlan, importVars, counters, past
<1>0. SameDays  BY SameTradesSameDays
<1>1. \A e \in plan.evals : ~ OfDayRule(e)  BY DEF JournalInv, PlanVerdicts
<1>2. \A e : OfDayRule(e) => (e \in evals' <=> e \in evals)
    <2>1. CASE evals' = evals  BY <2>1
    <2>2. CASE evals' = Replaced(plan.evals)
        BY <2>2, <1>1 DEF Replaced, OfDayRule
    <2> QED  BY <2>1, <2>2
<1>3. \A e \in evals' : e.trade \in DOMAIN trades
    BY DEF Replaced, Accepts, JournalInv, StoredVerdicts
<1>4. TablesHold'  BY DEF JournalInv, TablesHold
<1>5. HeldVerdicts'
    BY <1>0 DEF JournalInv, HeldVerdicts, IsVerdict, OfDayRule, Alike, SameDays
<1>6. StoredVerdicts'
    BY <1>0, <1>2, <1>3 DEF JournalInv, StoredVerdicts, OfDayRule, SameDays
<1>7. PlanVerdicts'  BY DEF PlanVerdicts, NoEdit
<1>8. HeldAreCurrent'
    BY <1>0 DEF JournalInv, HeldAreCurrent, Accepts, SameDays
<1>9. AllJudged'
    <2> SUFFICES ASSUME ~ stale, import.pc \in {"idle", "save"},
                        NEW u \in DOMAIN trades, NEW r \in DayRules', WithinLimit(DayOf(u))
                 PROVE  VerdictOf(u, r)' \in evals' \cup import.evals
        BY <1>0 DEF AllJudged, SameDays
    <2>1. r \in DayRules  BY DEF DayRules, Enabled
    <2>2. VerdictOf(u, r)' = VerdictOf(u, r)  BY <1>0 DEF SameDays, VerdictOf
    <2>3. OfDayRule(VerdictOf(u, r))  BY <2>1 DEF DayRules, OfDayRule, VerdictOf
    <2> QED  BY <1>2, <2>1, <2>2, <2>3 DEF JournalInv, AllJudged
<1>10. DayVerdictsAgree'
    BY <1>2 DEF JournalInv, DayVerdictsAgree, OfDayRule
<1> QED  BY <1>4, <1>5, <1>6, <1>7, <1>8, <1>9, <1>10 DEF JournalInv

-----------------------------------------------------------------------------
(* The import judges and stores *)

\* A day within the limit is listed whole: what is not listed is no newer than
\* what is, so with a trade of the day left out, more would be newer than that.
LEMMA WithinIsListed ==
    ASSUME TablesHold, NEW ts \in SUBSET DOMAIN trades, Newest(ts),
           NEW u \in DOMAIN trades, WithinLimit(DayOf(u))
    PROVE  u \in ts
<1> SUFFICES ASSUME u \notin ts PROVE FALSE  OBVIOUS
<1> DEFINE newer == {v \in DOMAIN trades : OnOrAfter(v, DayOf(u))}
<1>1. IsFiniteSet(DOMAIN trades)
    <2>1. lastTrade \in Nat /\ DOMAIN trades \subseteq 1..lastTrade  BY DEF TablesHold
    <2>2. IsFiniteSet(1..lastTrade)  BY <2>1, FS_Interval
    <2> QED  BY <2>1, <2>2, FS_Subset
<1>2. \A v \in ts : OnOrAfter(v, DayOf(u))  BY DEF Newest
<1>3. IsFiniteSet(ts) /\ Cardinality(ts) \in Nat
    BY <1>1, FS_Subset, FS_CardinalityType
<1>4. /\ IsFiniteSet(ts \cup {u}) /\ Cardinality(ts \cup {u}) = Cardinality(ts) + 1
    BY <1>3, FS_AddElement
<1>5. /\ Cardinality(ts) + 1 <= Cardinality(DOMAIN trades) /\ Cardinality(DOMAIN trades) \in Nat
    <2>1. ts \cup {u} \subseteq DOMAIN trades  OBVIOUS
    <2> QED  BY <1>1, <1>4, <2>1, FS_Subset, FS_CardinalityType
<1>6. Cardinality(ts) + 1 <= MaxListed
    <2>1. OnOrAfter(u, DayOf(u))  BY DEF OnOrAfter
    <2>a. ts \cup {u} \subseteq newer  BY <1>2, <2>1
    <2>2. Cardinality(ts) + 1 <= MaxListed
        <3>1. IsFiniteSet(newer)  BY <1>1, FS_Subset
        <3>2. Cardinality(ts \cup {u}) <= Cardinality(newer) /\ Cardinality(newer) \in Nat
            BY <2>a, <3>1, FS_Subset, FS_CardinalityType
        <3>3. Cardinality(newer) <= MaxListed  BY DEF WithinLimit
        <3> QED  BY <1>3, <1>4, <3>2, <3>3, BoundsAssumption
    <2> QED  BY <2>2
<1>7. Cardinality(ts) = Lesser(MaxListed, Cardinality(DOMAIN trades))  BY DEF Newest
<1> QED  BY <1>3, <1>5, <1>6, <1>7, BoundsAssumption DEF Lesser

LEMMA DaysEvaluated == ASSUME JournalInv, EvaluateDays PROVE JournalInv'
<1> PICK ts \in SUBSET DOMAIN trades :
          Newest(ts) /\ Evaluate(ts, DaysOf(ts) \cap DaysOf(DOMAIN trades \ ts))
    BY DEF EvaluateDays
<1>u. /\ UNCHANGED <<trades, evals, rules, lastTrade, plan>>
      /\ cut' = cut \cup (DaysOf(ts) \cap DaysOf(DOMAIN trades \ ts))
    BY DEF Evaluate, ruleVars, counters
<1>0. SameDays  BY <1>u, SameTradesSameDays
<1> DEFINE said(t, r) == [trade |-> t, rule |-> r, day |-> DayOf(t),
                          verdict |-> DayVerdict(ts, r, DayOf(t))]
           held == {said(t, r) : t \in ts, r \in DayRules}
<1>1. import' = [import EXCEPT !.pc = "save", !.evals = held]
    BY DEF Evaluate, DayRules
<1>4. \A e \in held : \E t \in ts, r \in DayRules :
          /\ e.trade = t /\ e.rule = r /\ e.day = DayOf(t)
          /\ e.verdict = DayVerdict(ts, r, DayOf(t))
    OBVIOUS
<1>5. \A t \in ts, r \in DayRules :
          /\ said(t, r) \in held
          /\ said(t, r).trade = t /\ said(t, r).rule = r /\ said(t, r).day = DayOf(t)
    OBVIOUS
<1>v. \A e \in held : IsVerdict(e)  BY DEF IsVerdict
<1>w. \A t \in ts, r \in DayRules :
          DayVerdict(ts, r, DayOf(t)) = WholeDay(r, DayOf(t)) => said(t, r) = VerdictOf(t, r)
    BY DEF VerdictOf
<1> HIDE DEF held, said
<1>2. /\ import'.evals = held /\ import'.pc = "save"
      /\ import' = [pc |-> import'.pc, job |-> import'.job, left |-> import'.left,
                    evals |-> import'.evals]
    BY <1>1 DEF JournalInv, TablesHold
<1>3. TablesHold'  BY <1>2, <1>u DEF JournalInv, TablesHold
<1>l. ASSUME NEW d, \A u \in DOMAIN trades : DayOf(u) = d => u \in ts, NEW r
      PROVE  DayVerdict(ts, r, d) = WholeDay(r, d)
    <2>1. OnDay(ts, d) = OnDay(DOMAIN trades, d)  BY <1>l DEF OnDay
    <2>2. NetsOn(ts, d) = NetsOn(DOMAIN trades, d)  BY <2>1, Zenon DEF NetsOn
    <2> QED  BY <2>2 DEF DayVerdict, WholeDay
<1>t. TablesHold  BY DEF JournalInv
<1>6. HeldVerdicts'
    <2> SUFFICES ASSUME NEW e \in held
                 PROVE  /\ IsVerdict(e) /\ OfDayRule(e)
                        /\ e.trade \in DOMAIN trades => e.day = DayOf(e.trade)
                        /\ \A f \in held : Alike(e, f) => e.verdict = f.verdict
                        /\ e.day \notin cut' =>
                               \A t \in DOMAIN trades :
                                   DayOf(t) = e.day =>
                                       \E f \in held : f.trade = t /\ Alike(e, f)
        BY <1>0, <1>2, <1>u DEF HeldVerdicts, IsVerdict, OfDayRule, Alike, SameDays
    <2>1. IsVerdict(e)  BY <1>v
    <2>2. OfDayRule(e)  BY <1>4 DEF OfDayRule, DayRules
    <2>3. e.trade \in ts /\ e.day = DayOf(e.trade)  BY <1>4
    <2>4. \A f \in held : Alike(e, f) => e.verdict = f.verdict
        BY <1>4 DEF Alike
    <2>5. ASSUME e.day \notin cut', NEW t \in DOMAIN trades, DayOf(t) = e.day
          PROVE  \E f \in held : f.trade = t /\ Alike(e, f)
        <3>1. e.rule \in DayRules  BY <1>4
        <3>2. t \in ts  BY <1>u, <2>3, <2>5 DEF DaysOf
        <3>3. said(t, e.rule) \in held /\ Alike(e, said(t, e.rule))
            BY <1>5, <2>5, <3>1, <3>2 DEF Alike
        <3> QED  BY <1>5, <3>1, <3>2, <3>3
    <2> QED  BY <2>1, <2>2, <2>3, <2>4, <2>5
<1>7. StoredVerdicts'
    BY <1>0, <1>u DEF JournalInv, StoredVerdicts, OfDayRule, SameDays
<1>8. PlanVerdicts'  BY <1>u DEF JournalInv, PlanVerdicts, OfDayRule
<1>9. HeldAreCurrent'
    <2>1. \A e \in held : e.trade \in DOMAIN trades /\ rules[e.rule] = "on"
        BY <1>4 DEF DayRules, Enabled
    <2>2. ASSUME NEW e \in held, WithinLimit(e.day) PROVE e.verdict = WholeDay(e.rule, e.day)
        <3>1. \A u \in DOMAIN trades : DayOf(u) = e.day => u \in ts
            BY <1>t, <2>2, WithinIsListed
        <3>2. DayVerdict(ts, e.rule, e.day) = WholeDay(e.rule, e.day)  BY <1>l, <3>1
        <3> QED  BY <1>4, <3>2
    <2> QED  BY <2>1, <2>2, <1>0, <1>2, <1>u DEF HeldAreCurrent, Accepts, SameDays
<1>10. AllJudged'
    <2> SUFFICES ASSUME NEW u \in DOMAIN trades, NEW r \in DayRules', WithinLimit(DayOf(u))
                 PROVE  VerdictOf(u, r)' \in held
        BY <1>0, <1>2 DEF AllJudged, SameDays
    <2>1. r \in DayRules  BY <1>u DEF DayRules, Enabled
    <2>2. VerdictOf(u, r)' = VerdictOf(u, r)  BY <1>0 DEF SameDays, VerdictOf
    <2>3. u \in ts /\ \A v \in DOMAIN trades : DayOf(v) = DayOf(u) => v \in ts
        BY <1>t, WithinIsListed
    <2>4. DayVerdict(ts, r, DayOf(u)) = WholeDay(r, DayOf(u))  BY <1>l, <2>3
    <2>5. said(u, r) = VerdictOf(u, r)  BY <1>w, <2>1, <2>3, <2>4
    <2> QED  BY <1>5, <2>1, <2>2, <2>3, <2>5
<1>11. DayVerdictsAgree'  BY <1>u DEF JournalInv, DayVerdictsAgree
<1> QED  BY <1>3, <1>6, <1>7, <1>8, <1>9, <1>10, <1>11 DEF JournalInv

\* A day is stored whole, so whatever of it was stored before is replaced.
LEMMA DaySaved == ASSUME JournalInv, NEW d, SaveDay(d) PROVE JournalInv'
<1> DEFINE es == {e \in import.evals : e.day = d}
<1> USE DEF SaveDay, counters, past
<1>0. SameDays  BY SameTradesSameDays
<1>1. /\ import'.evals = import.evals \ es /\ import'.pc = import.pc /\ import.pc = "save"
      /\ import' = [pc |-> import'.pc, job |-> import'.job, left |-> import'.left,
                    evals |-> import'.evals]
    BY DEF JournalInv, TablesHold
<1>2. \A e \in es : e \in import.evals /\ e.day = d /\ e.trade \in DOMAIN trades
    BY DEF Accepts
<1>3. \A e \in import.evals \ es : e \in import.evals /\ e.day # d  OBVIOUS
<1>4. \A e \in import.evals : e.day = d => e \in es  OBVIOUS
<1>5. evals' = Replaced(es)  OBVIOUS
<1> HIDE DEF es
<1>6. TablesHold'  BY <1>1 DEF JournalInv, TablesHold
<1>7. HeldVerdicts'
    <2> SUFFICES ASSUME NEW e \in import.evals \ es
                 PROVE  /\ IsVerdict(e) /\ OfDayRule(e)
                        /\ e.trade \in DOMAIN trades => e.day = DayOf(e.trade)
                        /\ \A f \in import.evals \ es : Alike(e, f) => e.verdict = f.verdict
                        /\ e.day \notin cut =>
                               \A t \in DOMAIN trades :
                                   DayOf(t) = e.day =>
                                       \E f \in import.evals \ es : f.trade = t /\ Alike(e, f)
        BY <1>0, <1>1 DEF HeldVerdicts, IsVerdict, OfDayRule, Alike, SameDays
    <2>1. e \in import.evals /\ e.day # d  BY <1>3
    <2>2. ASSUME e.day \notin cut, NEW t \in DOMAIN trades, DayOf(t) = e.day
          PROVE  \E f \in import.evals \ es : f.trade = t /\ Alike(e, f)
        <3>1. PICK f \in import.evals : f.trade = t /\ Alike(e, f)
            BY <2>1, <2>2 DEF JournalInv, HeldVerdicts
        <3>2. f \notin es  BY <1>2, <2>1, <3>1 DEF Alike
        <3> QED  BY <3>1, <3>2
    <2> QED  BY <2>1, <2>2 DEF JournalInv, HeldVerdicts
<1>8. StoredVerdicts'
    <2> SUFFICES ASSUME NEW e \in Replaced(es)
                 PROVE  /\ e.trade \in DOMAIN trades
                        /\ OfDayRule(e) => e.day = DayOf(e.trade)
        BY <1>0, <1>5 DEF StoredVerdicts, OfDayRule, SameDays
    <2>1. CASE e \in es  BY <2>1, <1>2 DEF JournalInv, HeldVerdicts
    <2>2. CASE e \in evals  BY <2>2 DEF JournalInv, StoredVerdicts
    <2> QED  BY <2>1, <2>2 DEF Replaced
<1>9. PlanVerdicts'  BY DEF JournalInv, PlanVerdicts, OfDayRule
<1>10. HeldAreCurrent'
    BY <1>0, <1>1 DEF JournalInv, HeldAreCurrent, Accepts, SameDays
<1>11. AllJudged'
    <2> SUFFICES ASSUME ~ stale, NEW u \in DOMAIN trades, NEW r \in DayRules', WithinLimit(DayOf(u))
                 PROVE  VerdictOf(u, r)' \in Replaced(es) \cup (import.evals \ es)
        BY <1>0, <1>1, <1>5 DEF AllJudged, SameDays
    <2> DEFINE v == VerdictOf(u, r)
    <2>1. r \in DayRules  BY DEF DayRules, Enabled
    <2>2. VerdictOf(u, r)' = v  BY <1>0 DEF SameDays, VerdictOf
    <2>3. v \in evals \cup import.evals
        BY <1>1, <2>1 DEF JournalInv, AllJudged
    <2>4. v.trade = u /\ v.rule = r  BY DEF VerdictOf
    <2>5. ASSUME NEW n \in es, n.trade = u, n.rule = r PROVE n = v
        <3>1. /\ n \in import.evals /\ IsVerdict(n) /\ n.day = DayOf(u)
              /\ n.verdict = WholeDay(n.rule, n.day)
            BY <1>2, <2>5 DEF JournalInv, HeldVerdicts, HeldAreCurrent
        <3>2. n.trade = u /\ n.rule = r /\ n.verdict = WholeDay(r, DayOf(u))
            BY <2>5, <3>1
        <3> QED  BY <3>1, <3>2 DEF IsVerdict, VerdictOf
    <2> HIDE DEF v
    <2>6. CASE v \in es  BY <2>2, <2>6 DEF Replaced
    <2>7. CASE v \in import.evals \ es  BY <2>2, <2>7
    <2>8. CASE v \in evals /\ v \notin es
        <3>1. \A n \in es : <<n.trade, n.rule>> # <<v.trade, v.rule>>
            BY <2>4, <2>5, <2>8
        <3> QED  BY <2>2, <2>8, <3>1 DEF Replaced
    <2> QED  BY <2>3, <2>6, <2>7, <2>8
<1>12. DayVerdictsAgree'
    <2> SUFFICES ASSUME NEW e \in Replaced(es), NEW f \in Replaced(es),
                        Alike(e, f), OfDayRule(e), e.day \notin cut
                 PROVE  e.verdict = f.verdict
        BY <1>5 DEF DayVerdictsAgree, Alike, OfDayRule
    <2>1. ASSUME NEW a \in es, NEW b \in evals, Alike(a, b), OfDayRule(b), a.day \notin cut,
                 \A n \in es : <<n.trade, n.rule>> # <<b.trade, b.rule>>
          PROVE  FALSE
        <3>1. b.trade \in DOMAIN trades /\ DayOf(b.trade) = d
            BY <1>2, <2>1 DEF JournalInv, StoredVerdicts, Alike
        <3>2. PICK g \in import.evals : g.trade = b.trade /\ Alike(a, g)
            BY <1>2, <2>1, <3>1 DEF JournalInv, HeldVerdicts
        <3>3. g \in es /\ g.rule = b.rule  BY <1>2, <1>4, <2>1, <3>2 DEF Alike
        <3> QED  BY <2>1, <3>2, <3>3
    <2>2. CASE e \in es /\ f \in es
        BY <2>2, <1>2 DEF JournalInv, HeldVerdicts
    <2>3. CASE e \in es /\ f \notin es
        BY <2>1, <2>3 DEF Replaced, Alike, OfDayRule
    <2>4. CASE e \notin es /\ f \in es
        BY <2>1, <2>4 DEF Replaced, Alike, OfDayRule
    <2>5. CASE e \notin es /\ f \notin es
        BY <2>5 DEF JournalInv, DayVerdictsAgree, Replaced, Alike, OfDayRule
    <2> QED  BY <2>2, <2>3, <2>4, <2>5
<1> QED  BY <1>6, <1>7, <1>8, <1>9, <1>10, <1>11, <1>12 DEF JournalInv

-----------------------------------------------------------------------------
(* Every step *)

\* A day is refused only when something changed since it was judged.
LEMMA DayRefused == ASSUME JournalInv, NEW d, RefusedDay(d) PROVE JournalInv'
<1> USE DEF RefusedDay, ruleVars, counters, past
<1>1. stale
    <2>1. ~ Accepts({e \in import.evals : e.day = d})  OBVIOUS
    <2> QED  BY <2>1 DEF JournalInv, HeldAreCurrent, Accepts
<1>2. HoldsNone  BY <1>1 DEF HoldsNone, NoImport
<1>3. TablesStay  BY DEF TablesStay
<1> QED  BY <1>2, <1>3, ImportGoesOn

LEMMA ImportSteps ==
    ASSUME JournalInv,
           \/ \E f \in Files : StartImport(f)
           \/ InsertExecutions \/ GroupUngrouped \/ LinkExecutions \/ FinishJob
           \/ EndImport \/ ImportDies
    PROVE  JournalInv'
<1>0. /\ import = [pc |-> import.pc, job |-> import.job, left |-> import.left,
                   evals |-> import.evals]
      /\ import.pc # "save" => import.evals = {}
    BY DEF JournalInv, TablesHold
<1>1. CASE \E f \in Files : StartImport(f)
    <2> PICK f \in Files : StartImport(f)  BY <1>1
    <2>1. TablesStay  BY DEF StartImport, TablesStay, ruleVars, past
    <2>2. import.pc = "idle" /\ UNCHANGED stale  BY DEF StartImport
    <2>3. ASSUME UNCHANGED import PROVE HoldsNone
        BY <1>0, <2>2, <2>3 DEF HoldsNone
    <2>4. ASSUME import' = [NoImport EXCEPT !.pc = "insert", !.job = Len(jobs) + 1]
          PROVE  HoldsNone
        BY <2>4 DEF HoldsNone, NoImport
    <2>5. HoldsNone  BY <2>3, <2>4 DEF StartImport
    <2> QED  BY <2>1, <2>5, ImportGoesOn
<1>2. CASE InsertExecutions
    <2>1. TablesStay  BY <1>2 DEF InsertExecutions, TablesStay, ruleVars, past
    <2>2. HoldsNone  BY <1>0, <1>2 DEF InsertExecutions, HoldsNone
    <2> QED  BY <2>1, <2>2, ImportGoesOn
<1>3. CASE GroupUngrouped
    <2>1. TablesStay  BY <1>3 DEF GroupUngrouped, TablesStay, ruleVars, past
    <2>2. HoldsNone  BY <1>0, <1>3 DEF GroupUngrouped, HoldsNone
    <2> QED  BY <2>1, <2>2, ImportGoesOn
<1>4. CASE LinkExecutions
    <2>1. TablesStay  BY <1>4 DEF LinkExecutions, TablesStay, ruleVars, past
    <2>2. HoldsNone  BY <1>0, <1>4 DEF LinkExecutions, HoldsNone
    <2> QED  BY <2>1, <2>2, ImportGoesOn
<1>5. CASE FinishJob
    <2>1. TablesStay  BY <1>5 DEF FinishJob, TablesStay, ruleVars, past
    <2>2. HoldsNone  BY <1>0, <1>5 DEF FinishJob, HoldsNone
    <2> QED  BY <2>1, <2>2, ImportGoesOn
<1>6. CASE EndImport
    <2>1. TablesStay /\ HoldsNone
        BY <1>0, <1>6 DEF EndImport, TablesStay, HoldsNone, NoImport, ruleVars, past
    <2> QED  BY <2>1, ImportGoesOn
<1>7. CASE ImportDies
    <2>1. TablesStay  BY <1>7 DEF ImportDies, TablesStay, ruleVars, past
    <2>2. HoldsNone  BY <1>7 DEF ImportDies, HoldsNone, NoImport
    <2> QED  BY <2>1, <2>2, ImportGoesOn
<1> QED  BY <1>1, <1>2, <1>3, <1>4, <1>5, <1>6, <1>7

LEMMA JournalKept ==
    ASSUME JournalInv, [Next]_vars
    PROVE  JournalInv'
<1>1. CASE \/ \E f \in Files : StartImport(f)
           \/ InsertExecutions \/ GroupUngrouped \/ LinkExecutions \/ FinishJob
           \/ EndImport \/ ImportDies
    BY <1>1, ImportSteps
<1>2. CASE InsertTrade  BY <1>2, TradeComes
<1>3. CASE EvaluateDays  BY <1>3, DaysEvaluated
<1>4. ASSUME NEW d \in Days, SaveDay(d) \/ RefusedDay(d) PROVE JournalInv'
    BY <1>4, DaySaved, DayRefused
<1>5. CASE SavePlan  BY <1>5, PlanSaved
<1>6. ASSUME NEW j \in DOMAIN jobs, Rollback(j) PROVE JournalInv'
    BY <1>6, JobGoes
<1>7. ASSUME NEW r \in Rules, CreateRule(r) \/ ToggleRule(r) \/ DeleteRule(r)
      PROVE  JournalInv'
    BY <1>7, RuleEdits
<1>8. ASSUME NEW t \in DOMAIN trades, SaveJournal(t) PROVE JournalInv'
    BY <1>8, NothingHappens DEF SaveJournal, TablesStay, importVars, ruleVars, past
<1>9. ASSUME NEW t \in DOMAIN trades, NEW p \in Plans, EditPlan(t, p)
      PROVE  JournalInv'
    BY <1>9, PlanEdited
<1>10. CASE UNCHANGED vars  BY <1>10, NothingHappens DEF vars, past, TablesStay
<1> QED
    BY <1>1, <1>2, <1>3, <1>4, <1>5, <1>6, <1>7, <1>8, <1>9, <1>10 DEF Next, Import

\* The inductive invariant of the journal's verdicts: an import holds verdicts
\* of whole days, or of days it notes as cut by the limit of the listing
\* (evaluate_rules_for_recent_trades), what is stored is of trades there are,
\* and unless the tables changed since, on the days within the limit it is what
\* they come to.
THEOREM VerdictsHold == Spec => []JournalInv
<1>1. Init => JournalInv  BY JournalStarts
<1>2. JournalInv /\ [Next]_vars => JournalInv'  BY JournalKept
<1> QED  BY <1>1, <1>2, PTL DEF Spec

\* Whatever imports, rollbacks, edits of rules and plans, refused days and
\* crashes come after each other, and also between the days an import stores
\* one by one (save_rule_evaluations), the stored verdicts of a day rule on a
\* day agree, unless an evaluation ever listed only a part of the day's trades.
THEOREM DaysAgree == Spec => []DayVerdictsAgree
<1>1. JournalInv => DayVerdictsAgree  BY DEF JournalInv
<1> QED  BY <1>1, VerdictsHold, PTL

\* Once an import is over, the verdicts of the enabled day rules on every day
\* within the limit of the listing, whatever the limit, are there and are those
\* of the trades as they are, for the trades of earlier imports too
\* (run_import), unless an edit of the rules, a rollback or a crash came after
\* they were judged; a plan's verdicts, saved at the same time, take none away.
THEOREM VerdictsAreCurrent == Spec => []VerdictsCurrent
<1>1. JournalInv => VerdictsCurrent
    <2> SUFFICES ASSUME JournalInv, import.pc = "idle", ~ stale,
                        NEW t \in DOMAIN trades, WithinLimit(DayOf(t)), NEW r \in Rules,
                        Enabled(r), RuleKind[r] \in DayKinds
                 PROVE  VerdictOf(t, r) \in evals
        BY DEF VerdictsCurrent, JudgedAsIs, VerdictOf, WholeDay
    <2>1. r \in DayRules  BY DEF DayRules
    <2>2. import.evals = {}  BY DEF JournalInv, TablesHold
    <2> QED  BY <2>1, <2>2 DEF JournalInv, AllJudged
<1> QED  BY <1>1, VerdictsHold, PTL

-----------------------------------------------------------------------------
(* No execution is counted twice *)

\* Executions that were ever in the table; of these, the ones no import will
\* group again: they are linked to a trade, or gone.
Seen    == {ex \in Executions : ex.id \in 1..lastExec}
Linked  == {ex \in Seen : ex.id \in DOMAIN execs => execs[ex.id].trade # 0}

\* The trade an import inserted and did not link yet, and the trades it has
\* still to insert.
Linking(t) == import.pc = "link" /\ t = lastTrade
Pending == CASE import.pc = "trade" -> import.left
             [] import.pc = "link"  -> Tail(import.left)
             [] OTHER               -> <<>>

\* An execution has one row of the table.
RowsHold ==
    /\ history \in Seq(Executions)
    /\ lastExec \in Nat /\ DOMAIN execs \subseteq 1..lastExec
    /\ \A id \in DOMAIN execs :
           /\ execs[id] = [row |-> execs[id].row, job |-> execs[id].job, trade |-> execs[id].trade]
           /\ execs[id].row \in DOMAIN history
    /\ \A a, b \in DOMAIN execs : execs[a].row = execs[b].row => a = b

\* What a trade uses is linked, unless the import died or is about to do it.
TradesAreLinked ==
    /\ stranded \subseteq 1..lastTrade
    /\ \A t \in DOMAIN trades \ stranded : ~ Linking(t) => trades[t].trade \in TradesOf(Linked)

\* An import inserts what it grouped, the first that is left before it links it.
LeftAreSeen ==
    /\ import.pc \in {"trade", "link"} => import.left \in Seq(TradesOf(Seen))
    /\ import.pc = "link" =>
           /\ import.left # <<>> /\ lastTrade # 0
           /\ lastTrade \in DOMAIN trades => trades[lastTrade].trade = Head(import.left)

\* What the trades use and what is still to come stay within the executions.
NotOverused == \A x \in Executions : UsedOf(Live, x) + UsedOf(Pending, x) <= x.qty

CountInv == RowsHold /\ TradesAreLinked /\ LeftAreSeen /\ NotOverused

\* A trade is of the executions its legs are of.
LEMMA LegsTell ==
    ASSUME NEW X, NEW Y, NEW t \in TradesOf(Y)
    PROVE  /\ \A leg \in LegsOf(t) : leg.ex \in Y
           /\ (\A leg \in LegsOf(t) : leg.ex \in X) => t \in TradesOf(X)
<1>1. t.entries \in Seq(Legs(Y)) /\ t.exits \in Seq(Legs(Y))  BY DEF TradesOf
<1>2. LegsOf(t) \subseteq Legs(Y)  BY <1>1 DEF LegsOf, ToSet
<1>3. \A leg \in LegsOf(t) : leg.ex \in Y  BY <1>2 DEF Legs
<1>4. ASSUME \A leg \in LegsOf(t) : leg.ex \in X PROVE t \in TradesOf(X)
    <2>1. \A leg \in LegsOf(t) : leg \in Legs(X)  BY <1>2, <1>4 DEF Legs
    <2>2. \A i \in 1..Len(t.entries) : t.entries[i] \in Legs(X)
        BY <1>1, <2>1 DEF LegsOf, ToSet
    <2>3. \A i \in 1..Len(t.exits) : t.exits[i] \in Legs(X)
        BY <1>1, <2>1 DEF LegsOf, ToSet
    <2>4. t.entries \in Seq(Legs(X))  BY <1>1, <2>2
    <2>5. t.exits \in Seq(Legs(X))  BY <1>1, <2>3
    <2> QED  BY <2>4, <2>5 DEF TradesOf
<1> QED  BY <1>3, <1>4

\* Both are sequences of trades of executions that were ever in the table.
LEMMA LiveAndPending ==
    ASSUME TablesHold, TradesAreLinked, LeftAreSeen
    PROVE  /\ Live \in Seq(TradesOf(Seen)) /\ Len(Live) = lastTrade /\ DOMAIN Live = 1..lastTrade
           /\ Pending \in Seq(TradesOf(Seen))
<1>1. TradesOf(Linked) \subseteq TradesOf(Seen)  BY MoreTrades DEF Linked
<1>2. \A t \in DOMAIN trades \ stranded : trades[t].trade \in TradesOf(Seen)
    <2> SUFFICES ASSUME NEW t \in DOMAIN trades \ stranded PROVE trades[t].trade \in TradesOf(Seen)
        OBVIOUS
    <2>1. CASE Linking(t)
        <3>1. trades[t].trade = Head(import.left) /\ import.left \in Seq(TradesOf(Seen))
              /\ import.left # <<>>
            BY <2>1 DEF Linking, LeftAreSeen
        <3> QED  BY <3>1, UseOfHead
    <2>2. CASE ~ Linking(t)  BY <1>1, <2>2 DEF TradesAreLinked
    <2> QED  BY <2>1, <2>2
<1>3. Trade("long") \in TradesOf(Seen)  BY NewTrade DEF Sides
<1>4. \A t \in 1..lastTrade : Live[t] \in TradesOf(Seen)  BY <1>2, <1>3 DEF Live
<1>5. lastTrade \in Nat /\ Live = [t \in 1..lastTrade |-> Live[t]]
    BY DEF TablesHold, Live
<1>6. Live \in Seq(TradesOf(Seen)) /\ Len(Live) = lastTrade /\ DOMAIN Live = 1..lastTrade
    BY <1>4, <1>5
<1>7. Pending \in Seq(TradesOf(Seen))
    <2>1. <<>> \in Seq(TradesOf(Seen))  OBVIOUS
    <2>2. CASE import.pc = "trade"  BY <2>2 DEF Pending, LeftAreSeen
    <2>3. CASE import.pc = "link"
        <3>1. import.left \in Seq(TradesOf(Seen)) /\ import.left # <<>>
            BY <2>3 DEF LeftAreSeen
        <3>2. Tail(import.left) \in Seq(TradesOf(Seen))  BY <3>1, UseOfHead
        <3> QED  BY <2>3, <3>2 DEF Pending
    <2>4. CASE import.pc \notin {"trade", "link"}  BY <2>1, <2>4 DEF Pending
    <2> QED  BY <2>2, <2>3, <2>4
<1> QED  BY <1>6, <1>7

LEMMA LiveStaysTyped ==
    (TablesHold /\ TradesAreLinked /\ LeftAreSeen)' =>
        (Live \in Seq(TradesOf(Seen)) /\ Len(Live) = lastTrade)'
<1>1. TablesHold /\ TradesAreLinked /\ LeftAreSeen =>
          Live \in Seq(TradesOf(Seen)) /\ Len(Live) = lastTrade
    BY LiveAndPending
<1> QED  BY <1>1, PTL

\* The executions in the order of their time.
LEMMA ListedByTime ==
    ASSUME RowsHold, NEW ids \in SUBSET DOMAIN execs
    PROVE  /\ {Execution(id) : id \in ids} \in SUBSET Executions
           /\ \A id \in ids : Execution(id).id = id
           /\ ByTime(ids) \in Seq({Execution(id) : id \in ids})
           /\ Distinct(ByTime(ids))
<1> DEFINE at == [id \in ids |-> execs[id].row]
           s  == InOrder(at)
<1>1. \A id \in ids : Execution(id) \in Executions /\ Execution(id).id = id
    <2> SUFFICES ASSUME NEW id \in ids
                 PROVE  Execution(id) \in Executions /\ Execution(id).id = id
        OBVIOUS
    <2>1. history[execs[id].row] \in Executions /\ id \in Nat  BY DEF RowsHold
    <2> QED  BY <2>1 DEF Execution, Executions
<1>2. IsFiniteSet(ids) /\ ids \in SUBSET Nat
    <2>1. ids \in SUBSET (1..lastExec) /\ lastExec \in Nat  BY DEF RowsHold
    <2>2. IsFiniteSet(1..lastExec)  BY <2>1, FS_Interval
    <2>3. IsFiniteSet(ids)  BY <2>1, <2>2, FS_Subset
    <2> QED  BY <2>1, <2>3
<1>3. \A id \in ids : at[id] \in Int
    <2> SUFFICES ASSUME NEW id \in ids PROVE execs[id].row \in Int  OBVIOUS
    <2> QED  BY DEF RowsHold
<1>4. \A a, b \in ids : at[a] = at[b] => a = b  BY DEF RowsHold
<1>5. DOMAIN at = ids  OBVIOUS
<1> HIDE DEF at
<1>6. s \in Seq(ids) /\ Distinct(s)  BY <1>2, <1>3, <1>4, <1>5, Ordered
<1>7. ByTime(ids) = [i \in DOMAIN s |-> Execution(s[i])]  BY DEF ByTime, at
<1> HIDE DEF s
<1>8. \A i \in DOMAIN s : s[i] \in ids  BY <1>6
<1>9. ByTime(ids) \in Seq({Execution(id) : id \in ids}) /\ DOMAIN ByTime(ids) = DOMAIN s
    BY <1>6, <1>7, <1>8
<1>10. \A i, j \in DOMAIN s : Execution(s[i]) = Execution(s[j]) => i = j
    BY <1>1, <1>6, <1>8 DEF Distinct
<1>11. Distinct(ByTime(ids))  BY <1>7, <1>9, <1>10 DEF Distinct
<1> QED  BY <1>1, <1>9, <1>11

LEMMA CountsStart == ASSUME Init PROVE CountInv
<1> USE DEF Init, NoImport, Empty
<1>1. RowsHold  BY HistoriesAssumption DEF RowsHold
<1>2. TradesAreLinked /\ LeftAreSeen  BY DEF TradesAreLinked, LeftAreSeen
<1>3. NotOverused
    <2>1. Live = <<>> /\ Pending = <<>>  BY DEF Live, Pending
    <2>2. \A x \in Executions : UsedOf(<<>>, x) = 0 /\ x.qty \in Nat
        BY UseOfTrades DEF Executions
    <2> QED  BY <2>1, <2>2 DEF NotOverused
<1> QED  BY <1>1, <1>2, <1>3 DEF CountInv

-----------------------------------------------------------------------------
\* Rows and trades that go, and an import that ends.
OnlyLess ==
    /\ UNCHANGED <<history, lastExec, lastTrade>>
    /\ DOMAIN execs' \subseteq DOMAIN execs /\ \A id \in DOMAIN execs' : execs'[id] = execs[id]
    /\ DOMAIN trades' \subseteq DOMAIN trades
    /\ \A t \in DOMAIN trades' : trades'[t].trade = trades[t].trade
    /\ stranded \subseteq stranded' /\ stranded' \subseteq 1..lastTrade
    /\ \/ import'.pc = import.pc /\ import'.left = import.left
       \/ import'.pc \notin {"trade", "link"} /\ (import.pc = "link" => lastTrade \in stranded')

LEMMA LessIsLinked ==
    ASSUME OnlyLess PROVE Seen' = Seen /\ Linked \subseteq Linked'
BY DEF OnlyLess, Seen, Linked

LEMMA CountsSurvive ==
    ASSUME TablesHold, TablesHold', CountInv, OnlyLess
    PROVE  CountInv'
<1>0. Seen' = Seen /\ Linked \subseteq Linked'  BY LessIsLinked
<1>1. RowsHold'
    <2>1. RowsHold  BY DEF CountInv
    <2> QED  BY <2>1 DEF RowsHold, OnlyLess
<1>2. TradesAreLinked'
    <2>1. TradesOf(Linked) \subseteq TradesOf(Linked')  BY <1>0, MoreTrades
    <2>2. ASSUME NEW t \in DOMAIN trades' \ stranded', ~ Linking(t)'
          PROVE  trades'[t].trade \in TradesOf(Linked')
        <3>1. t \in DOMAIN trades \ stranded /\ trades'[t].trade = trades[t].trade
            BY <2>2 DEF OnlyLess
        <3>2. ~ Linking(t)  BY <2>2 DEF OnlyLess, Linking
        <3>3. trades[t].trade \in TradesOf(Linked)  BY <3>1, <3>2 DEF CountInv, TradesAreLinked
        <3> QED  BY <2>1, <3>1, <3>3
    <2>3. TradesOf(Linked') = TradesOf(Linked)'  OBVIOUS
    <2>4. stranded' \subseteq 1..lastTrade'  BY DEF OnlyLess
    <2> QED  BY <2>2, <2>4 DEF TradesAreLinked
<1>3. LeftAreSeen'
    <2>1. CASE import'.pc = import.pc /\ import'.left = import.left
        BY <1>0, <2>1 DEF CountInv, LeftAreSeen, OnlyLess
    <2>2. CASE import'.pc \notin {"trade", "link"}  BY <2>2 DEF LeftAreSeen
    <2> QED  BY <2>1, <2>2 DEF OnlyLess
<1>4. NotOverused'
    <2>1. /\ Live \in Seq(TradesOf(Seen)) /\ Len(Live) = lastTrade
          /\ Pending \in Seq(TradesOf(Seen))
        BY LiveAndPending DEF CountInv
    <2>2. (/\ Live \in Seq(TradesOf(Seen)) /\ Len(Live) = lastTrade)'
        BY <1>2, <1>3, LiveStaysTyped
    <2>3. Live' \in Seq(TradesOf(Seen)) /\ Len(Live') = Len(Live)
        BY <1>0, <2>1, <2>2 DEF OnlyLess
    <2>4. \A i \in 1..Len(Live) : Live'[i] \in {Live[i], Trade("long")}
        <3> SUFFICES ASSUME NEW i \in 1..lastTrade
                     PROVE  Live'[i] \in {Live[i], Trade("long")}
            BY <2>1
        <3>1. Live[i] = IF i \in DOMAIN trades \ stranded THEN trades[i].trade ELSE Trade("long")
            BY DEF Live
        <3>2. Live'[i] = IF i \in DOMAIN trades' \ stranded' THEN trades'[i].trade ELSE Trade("long")
            BY DEF Live, OnlyLess
        <3> QED  BY <3>1, <3>2 DEF OnlyLess
    <2>5. Pending' = Pending \/ Pending' = <<>>  BY DEF Pending, OnlyLess
    <2> SUFFICES ASSUME NEW x \in Executions
                 PROVE  UsedOf(Live', x) + UsedOf(Pending', x) <= x.qty
        BY DEF NotOverused
    <2>6. UsedOf(Live', x) <= UsedOf(Live, x)  BY <2>1, <2>3, <2>4, FewerUse
    <2>7. UsedOf(Pending', x) <= UsedOf(Pending, x)
        <3>1. UsedOf(Pending, x) \in Nat  BY <2>1, UseIsNat
        <3>2. UsedOf(<<>>, x) = 0  BY UseOfTrades
        <3> QED  BY <2>5, <3>1, <3>2
    <2>8. /\ UsedOf(Live, x) \in Nat /\ UsedOf(Pending, x) \in Nat
          /\ UsedOf(Live', x) \in Nat /\ UsedOf(Pending', x) \in Nat
        <3>1. UsedOf(<<>>, x) = 0  BY UseOfTrades
        <3>2. UsedOf(Live, x) \in Nat /\ UsedOf(Pending, x) \in Nat /\ UsedOf(Live', x) \in Nat
            BY <2>1, <2>3, UseIsNat
        <3>3. UsedOf(Pending', x) = UsedOf(Pending, x) \/ UsedOf(Pending', x) = 0
            BY <2>5, <3>1
        <3> QED  BY <3>2, <3>3
    <2>9. UsedOf(Live, x) + UsedOf(Pending, x) <= x.qty  BY DEF CountInv, NotOverused
    <2>10. x.qty \in Nat  BY DEF Executions
    <2> QED  BY <2>6, <2>7, <2>8, <2>9, <2>10
<1> QED  BY <1>1, <1>2, <1>3, <1>4 DEF CountInv

\* New rows have new ids.
LEMMA CountsAfterInsert ==
    ASSUME TablesHold, TablesHold', CountInv, InsertExecutions
    PROVE  CountInv'
<1> DEFINE new == Rows(jobs[import.job].file) \ {execs[id].row : id \in DOMAIN execs}
           at  == [r \in new |-> r]
           row == InOrder(at)
           N   == Len(row)
           ids == (lastExec + 1)..(lastExec + N)
<1>0. RowsHold /\ lastExec \in Nat  BY DEF CountInv, RowsHold
<1>1. row \in Seq(new) /\ Distinct(row) /\ N \in Nat
    <2>1. new \in SUBSET (1..Len(history)) /\ Len(history) \in Nat
        BY <1>0 DEF Rows, RowsHold
    <2>2. IsFiniteSet(new)
        <3>1. IsFiniteSet(1..Len(history))  BY <2>1, FS_Interval
        <3> HIDE DEF new
        <3> QED  BY <2>1, <3>1, FS_Subset
    <2>3. DOMAIN at = new /\ \A r \in new : at[r] = r /\ r \in Int  BY <2>1
    <2> HIDE DEF at, new
    <2>4. row \in Seq(new) /\ Distinct(row)  BY <2>2, <2>3, Ordered
    <2> QED  BY <2>4
<1>2. /\ execs' = [id \in DOMAIN execs \cup ids |->
                      IF id \in ids THEN [row |-> row[id - lastExec], job |-> import.job, trade |-> 0]
                      ELSE execs[id]]
      /\ lastExec' = lastExec + N
      /\ import'.pc = "group" /\ import.pc = "insert"
      /\ UNCHANGED <<history, trades, lastTrade, stranded>>
    BY DEF InsertExecutions, TablesHold
<1>3. \A r \in new : r \in DOMAIN history /\ \A id \in DOMAIN execs : execs[id].row # r
    BY DEF Rows
<1> HIDE DEF new, row, N
<1>4. \A id \in ids : id - lastExec \in 1..N /\ row[id - lastExec] \in new
    <2> SUFFICES ASSUME NEW id \in ids PROVE id - lastExec \in 1..N /\ row[id - lastExec] \in new
        OBVIOUS
    <2>1. id - lastExec \in 1..N  BY <1>0, <1>1
    <2>2. 1..N = DOMAIN row  BY <1>1 DEF N
    <2> QED  BY <1>1, <2>1, <2>2
<1>5. \A a, b \in ids : row[a - lastExec] = row[b - lastExec] => a = b
    <2> SUFFICES ASSUME NEW a \in ids, NEW b \in ids, row[a - lastExec] = row[b - lastExec]
                 PROVE  a = b
        OBVIOUS
    <2>1. a - lastExec \in DOMAIN row /\ b - lastExec \in DOMAIN row  BY <1>1, <1>4 DEF N
    <2>2. a - lastExec = b - lastExec  BY <1>1, <2>1 DEF Distinct
    <2>3. a \in Int /\ b \in Int  BY <1>0, <1>1
    <2> QED  BY <1>0, <2>2, <2>3
<1>6. ids \cap DOMAIN execs = {} /\ DOMAIN execs \cup ids \subseteq 1..(lastExec + N)
      /\ lastExec + N \in Nat
    BY <1>0, <1>1 DEF RowsHold
<1> HIDE DEF ids
<1>7. \A id \in DOMAIN execs' :
         \/ id \in ids /\ execs'[id] = [row |-> row[id - lastExec], job |-> import.job, trade |-> 0]
         \/ id \in DOMAIN execs \ ids /\ execs'[id] = execs[id]
    BY <1>2
<1>8. RowsHold'
    <2>1. DOMAIN execs' \subseteq 1..lastExec' /\ lastExec' \in Nat /\ history' \in Seq(Executions)
        BY <1>0, <1>2, <1>6 DEF RowsHold
    <2>2. \A id \in DOMAIN execs' :
             /\ execs'[id] = [row |-> execs'[id].row, job |-> execs'[id].job, trade |-> execs'[id].trade]
             /\ execs'[id].row \in DOMAIN history'
        BY <1>0, <1>2, <1>3, <1>4, <1>7 DEF RowsHold
    <2>3. ASSUME NEW a \in DOMAIN execs', NEW b \in DOMAIN execs', execs'[a].row = execs'[b].row
          PROVE  a = b
        <3>1. CASE a \in ids /\ b \in ids  BY <1>5, <1>6, <1>7, <2>3, <3>1
        <3>2. CASE a \in ids /\ b \in DOMAIN execs \ ids  BY <1>3, <1>4, <1>6, <1>7, <2>3, <3>2
        <3>3. CASE a \in DOMAIN execs \ ids /\ b \in ids  BY <1>3, <1>4, <1>6, <1>7, <2>3, <3>3
        <3>4. CASE a \in DOMAIN execs \ ids /\ b \in DOMAIN execs \ ids
            BY <1>0, <1>6, <1>7, <2>3, <3>4 DEF RowsHold
        <3> QED  BY <1>7, <3>1, <3>2, <3>3, <3>4
    <2> QED  BY <2>1, <2>2, <2>3 DEF RowsHold
<1>9. Linked \subseteq Linked'
    <2> SUFFICES ASSUME NEW ex \in Linked PROVE ex \in Linked'  OBVIOUS
    <2>1. ex \in Executions /\ ex.id \in 1..lastExec /\ (ex.id \in DOMAIN execs => execs[ex.id].trade # 0)
        BY DEF Linked, Seen
    <2>2. ex.id \in 1..lastExec'  BY <1>0, <1>1, <1>2, <2>1
    <2>3. ex.id \notin ids  BY <1>0, <1>1, <2>1 DEF ids
    <2>4. ex.id \in DOMAIN execs' => execs'[ex.id].trade # 0  BY <1>7, <2>1, <2>3
    <2> QED  BY <2>1, <2>2, <2>4 DEF Linked, Seen
<1>10. TradesAreLinked'
    <2>1. TradesOf(Linked) \subseteq TradesOf(Linked')  BY <1>9, MoreTrades
    <2> QED  BY <1>2, <2>1 DEF CountInv, TradesAreLinked, Linking
<1>11. LeftAreSeen'  BY <1>2 DEF LeftAreSeen
<1>12. NotOverused'
    <2>1. Live' = Live /\ Pending' = Pending  BY <1>2 DEF Live, Pending
    <2> QED  BY <2>1 DEF CountInv, NotOverused
<1> QED  BY <1>8, <1>10, <1>11, <1>12 DEF CountInv

\* What is grouped belongs to no trade.
LEMMA CountsAfterGroup ==
    ASSUME TablesHold, CountInv, GroupUngrouped
    PROVE  CountInv'
<1> DEFINE X == {Execution(id) : id \in Ungrouped}
           made == GroupIntoTrades(ByTime(Ungrouped))
<1>1. /\ import.pc = "group" /\ import'.pc = "trade" /\ import'.left = made
      /\ UNCHANGED <<history, execs, trades, lastExec, lastTrade, stranded>>
    BY DEF GroupUngrouped, TablesHold
<1>2. RowsHold /\ Ungrouped \in SUBSET DOMAIN execs  BY DEF CountInv, Ungrouped
<1>3. /\ X \in SUBSET Executions /\ \A id \in Ungrouped : Execution(id).id = id
      /\ ByTime(Ungrouped) \in Seq(X) /\ Distinct(ByTime(Ungrouped))
    BY <1>2, ListedByTime
<1>4. made \in Seq(TradesOf(X)) /\ \A x \in X : UsedOf(made, x) <= x.qty
    <2> HIDE DEF X
    <2> QED  BY <1>3, AllGrouped
<1>5. X \subseteq Seen /\ X \cap Linked = {}
    <2> SUFFICES ASSUME NEW id \in Ungrouped
                 PROVE  Execution(id) \in Seen /\ Execution(id) \notin Linked
        OBVIOUS
    <2>1. Execution(id) \in Executions /\ Execution(id).id = id  BY <1>3
    <2>2. id \in DOMAIN execs /\ execs[id].trade = 0 /\ id \in 1..lastExec
        BY <1>2 DEF Ungrouped, RowsHold
    <2> QED  BY <2>1, <2>2 DEF Seen, Linked
<1> HIDE DEF X, made
<1>6. Seen' = Seen /\ Linked' = Linked /\ Live' = Live
    BY <1>1 DEF Seen, Linked, Live
<1>7. RowsHold'  BY <1>1, <1>2 DEF RowsHold
<1>8. TradesAreLinked'  BY <1>1, <1>6 DEF CountInv, TradesAreLinked, Linking
<1>9. LeftAreSeen'
    <2>1. made \in Seq(TradesOf(Seen))  BY <1>4, <1>5, MoreTrades
    <2> QED  BY <1>1, <1>6, <2>1 DEF LeftAreSeen
<1>10. NotOverused'
    <2> SUFFICES ASSUME NEW x \in Executions PROVE UsedOf(Live, x) + UsedOf(made, x) <= x.qty
        <3>1. Pending' = made  BY <1>1 DEF Pending
        <3> QED  BY <1>6, <3>1 DEF NotOverused
    <2>1. Live \in Seq(TradesOf(Linked))
        <3>1. Live \in Seq(TradesOf(Seen)) /\ Len(Live) = lastTrade
            BY LiveAndPending DEF CountInv
        <3>2. Trade("long") \in TradesOf(Linked)  BY NewTrade DEF Sides
        <3>3. \A t \in 1..lastTrade : Live[t] \in TradesOf(Linked)
            BY <1>1, <3>2 DEF Live, CountInv, TradesAreLinked, Linking
        <3> QED  BY <3>1, <3>3
    <2>2. x.qty \in Nat  BY DEF Executions
    <2>3. CASE x \in X
        <3>1. UsedOf(Live, x) = 0  BY <1>5, <2>1, <2>3, NotThere
        <3>2. UsedOf(made, x) \in Nat  BY <1>4, UseIsNat
        <3> QED  BY <1>4, <2>2, <2>3, <3>1, <3>2
    <2>4. CASE x \notin X
        <3>1. UsedOf(made, x) = 0  BY <1>4, <2>4, NotThere
        <3>2. Pending = <<>>  BY <1>1 DEF Pending
        <3>3. UsedOf(<<>>, x) = 0  BY UseOfTrades
        <3>4. UsedOf(Live, x) \in Nat  BY <2>1, UseIsNat
        <3>5. UsedOf(Live, x) + UsedOf(Pending, x) <= x.qty  BY DEF CountInv, NotOverused
        <3> QED  BY <2>2, <3>1, <3>2, <3>3, <3>4, <3>5
    <2> QED  BY <2>3, <2>4
<1> QED  BY <1>7, <1>8, <1>9, <1>10 DEF CountInv

\* The first trade that is left becomes one of the trades there are ...
LEMMA CountsAfterTrade ==
    ASSUME TablesHold, CountInv, InsertTrade
    PROVE  CountInv'
<1> DEFINE t == Head(import.left)
<1>1. /\ import.pc = "trade" /\ import.left # <<>> /\ import'.pc = "link"
      /\ import'.left = import.left
      /\ lastTrade' = lastTrade + 1 /\ lastTrade \in Nat
      /\ UNCHANGED <<history, execs, lastExec, stranded>>
    BY DEF InsertTrade, TablesHold
<1>2. /\ DOMAIN trades' = DOMAIN trades \cup {lastTrade + 1}
      /\ trades'[lastTrade + 1].trade = t
      /\ \A u \in DOMAIN trades : u # lastTrade + 1 => trades'[u] = trades[u]
    BY <1>1 DEF InsertTrade
<1>3. /\ RowsHold /\ TradesAreLinked /\ LeftAreSeen /\ NotOverused
      /\ DOMAIN trades \subseteq 1..lastTrade /\ stranded \subseteq 1..lastTrade
    BY DEF CountInv, TablesHold, TradesAreLinked
<1>4. Seen' = Seen /\ Linked' = Linked  BY <1>1 DEF Seen, Linked
<1>5. import.left \in Seq(TradesOf(Seen))  BY <1>1, <1>3 DEF LeftAreSeen
<1>6. t \in TradesOf(Seen) /\ Tail(import.left) \in Seq(TradesOf(Seen))
    BY <1>1, <1>5, UseOfHead
<1>7. Live \in Seq(TradesOf(Seen)) /\ Len(Live) = lastTrade
    BY <1>3, LiveAndPending
<1>8. Live' = Append(Live, t)
    <2> HIDE DEF t
    <2>1. \A i \in 1..lastTrade : Live'[i] = Live[i]
        <3> SUFFICES ASSUME NEW i \in 1..lastTrade PROVE Live'[i] = Live[i]  OBVIOUS
        <3>1. i \in 1..(lastTrade + 1) /\ i # lastTrade + 1  BY <1>1
        <3>2. Live'[i] = IF i \in DOMAIN trades' \ stranded THEN trades'[i].trade ELSE Trade("long")
            BY <1>1, <3>1 DEF Live
        <3>3. Live[i] = IF i \in DOMAIN trades \ stranded THEN trades[i].trade ELSE Trade("long")
            BY DEF Live
        <3> QED  BY <1>2, <3>1, <3>2, <3>3
    <2>2. Live'[lastTrade + 1] = t
        <3>1. lastTrade + 1 \in 1..(lastTrade + 1) /\ lastTrade + 1 \notin stranded  BY <1>1, <1>3
        <3> QED  BY <1>1, <1>2, <3>1 DEF Live
    <2>3. Live' = [i \in 1..(lastTrade + 1) |-> Live'[i]]  BY <1>1 DEF Live
    <2>4. Append(Live, t) = [i \in 1..(lastTrade + 1) |-> IF i = lastTrade + 1 THEN t ELSE Live[i]]
        BY <1>1, <1>6, <1>7 DEF t
    <2>5. \A i \in 1..(lastTrade + 1) : Live'[i] = IF i = lastTrade + 1 THEN t ELSE Live[i]
        BY <1>1, <2>1, <2>2
    <2> QED  BY <2>3, <2>4, <2>5
<1>9. RowsHold'  BY <1>1, <1>3 DEF RowsHold
<1>10. TradesAreLinked'
    <2>1. ASSUME NEW u \in DOMAIN trades' \ stranded', ~ Linking(u)'
          PROVE  trades'[u].trade \in TradesOf(Linked)
        <3>1. u # lastTrade + 1  BY <1>1, <2>1 DEF Linking
        <3>2. u \in DOMAIN trades \ stranded /\ trades'[u] = trades[u] /\ ~ Linking(u)
            BY <1>1, <1>2, <2>1, <3>1 DEF Linking
        <3> QED  BY <1>3, <3>2 DEF TradesAreLinked
    <2>2. stranded' \subseteq 1..lastTrade'  BY <1>1, <1>3
    <2> QED  BY <1>4, <2>1, <2>2 DEF TradesAreLinked
<1>11. LeftAreSeen'  BY <1>1, <1>2, <1>4, <1>5 DEF LeftAreSeen
<1>12. NotOverused'
    <2> SUFFICES ASSUME NEW x \in Executions
                 PROVE  UsedOf(Append(Live, t), x) + UsedOf(Tail(import.left), x) <= x.qty
        <3>1. Pending' = Tail(import.left)  BY <1>1 DEF Pending
        <3> QED  BY <1>8, <3>1 DEF NotOverused
    <2>1. UsedOf(Append(Live, t), x) = UsedOf(Live, x) + UsedIn(t, x)
        BY <1>6, <1>7, UseOfTrades
    <2>2. UsedOf(import.left, x) = UsedIn(t, x) + UsedOf(Tail(import.left), x)
        BY <1>1, <1>5, UseOfHead
    <2>3. UsedOf(Live, x) + UsedOf(import.left, x) <= x.qty
        BY <1>1, <1>3 DEF NotOverused, Pending
    <2>4. /\ UsedOf(Live, x) \in Nat /\ UsedIn(t, x) \in Nat
          /\ UsedOf(Tail(import.left), x) \in Nat
        BY <1>6, <1>7, UseIsNat
    <2>5. x.qty \in Nat  BY DEF Executions
    <2> HIDE DEF t
    <2> QED  BY <2>1, <2>2, <2>3, <2>4, <2>5
<1> QED  BY <1>9, <1>10, <1>11, <1>12 DEF CountInv

\* ... and then its executions are linked.
LEMMA CountsAfterLink ==
    ASSUME TablesHold, CountInv, LinkExecutions
    PROVE  CountInv'
<1> DEFINE t == Head(import.left)
           ids == IdsOf(t)
<1>1. /\ import.pc = "link" /\ import'.pc = "trade" /\ import'.left = Tail(import.left)
      /\ UNCHANGED <<history, trades, lastExec, lastTrade, stranded>>
      /\ DOMAIN execs' = DOMAIN execs
      /\ \A id \in DOMAIN execs :
             execs'[id] = IF id \in ids THEN [execs[id] EXCEPT !.trade = lastTrade] ELSE execs[id]
    BY DEF LinkExecutions, TablesHold
<1>2. /\ RowsHold /\ TradesAreLinked /\ LeftAreSeen /\ NotOverused
      /\ import.left \in Seq(TradesOf(Seen)) /\ import.left # <<>> /\ lastTrade # 0
      /\ lastTrade \in DOMAIN trades => trades[lastTrade].trade = t
    BY <1>1 DEF CountInv, LeftAreSeen
<1>3. t \in TradesOf(Seen) /\ Tail(import.left) \in Seq(TradesOf(Seen))
    BY <1>2, UseOfHead
<1>4. \A leg \in LegsOf(t) : leg.ex.id \in ids  BY DEF IdsOf
<1> HIDE DEF ids, t
<1>5. \A id \in DOMAIN execs :
         execs'[id] = [row |-> execs[id].row, job |-> execs[id].job,
                       trade |-> IF id \in ids THEN lastTrade ELSE execs[id].trade]
    <2> SUFFICES ASSUME NEW id \in DOMAIN execs
                 PROVE  execs'[id] = [row |-> execs[id].row, job |-> execs[id].job,
                                      trade |-> IF id \in ids THEN lastTrade ELSE execs[id].trade]
        OBVIOUS
    <2>1. execs[id] = [row |-> execs[id].row, job |-> execs[id].job, trade |-> execs[id].trade]
        BY <1>2 DEF RowsHold
    <2>2. execs'[id] = IF id \in ids THEN [execs[id] EXCEPT !.trade = lastTrade] ELSE execs[id]
        BY <1>1
    <2> QED  BY <2>1, <2>2
<1>6. RowsHold'  BY <1>1, <1>2, <1>5 DEF RowsHold
<1>7. Seen' = Seen /\ Linked \subseteq Linked'  BY <1>1, <1>2, <1>5 DEF Seen, Linked
<1>8. t \in TradesOf(Linked')
    <2>1. \A leg \in LegsOf(t) : leg.ex \in Seen  BY <1>3, LegsTell
    <2>2. \A leg \in LegsOf(t) : leg.ex \in Linked'  BY <1>1, <1>2, <1>4, <1>5, <1>7, <2>1 DEF Linked
    <2> QED  BY <1>3, <2>2, LegsTell
<1>9. TradesAreLinked'
    <2>1. TradesOf(Linked) \subseteq TradesOf(Linked')  BY <1>7, MoreTrades
    <2>2. ASSUME NEW u \in DOMAIN trades \ stranded PROVE trades[u].trade \in TradesOf(Linked')
        <3>1. CASE u = lastTrade  BY <1>2, <1>8, <3>1
        <3>2. CASE u # lastTrade  BY <1>2, <2>1, <3>2 DEF TradesAreLinked, Linking
        <3> QED  BY <3>1, <3>2
    <2> QED  BY <1>1, <1>2, <2>2 DEF TradesAreLinked
<1>10. LeftAreSeen'  BY <1>1, <1>3, <1>7 DEF LeftAreSeen
<1>11. NotOverused'
    <2>1. Live' = Live /\ Pending' = Pending  BY <1>1 DEF Live, Pending
    <2> QED  BY <1>2, <2>1 DEF NotOverused
<1> QED  BY <1>6, <1>9, <1>10, <1>11 DEF CountInv

LEMMA CountsKept ==
    ASSUME TablesHold, TablesHold', CountInv, [Next]_vars
    PROVE  CountInv'
<1>0. /\ import = [pc |-> import.pc, job |-> import.job, left |-> import.left,
                   evals |-> import.evals]
      /\ stranded \subseteq 1..lastTrade
    BY DEF TablesHold, CountInv, TradesAreLinked
<1>1. CASE InsertExecutions  BY <1>1, CountsAfterInsert
<1>2. CASE GroupUngrouped  BY <1>2, CountsAfterGroup
<1>3. CASE InsertTrade  BY <1>3, CountsAfterTrade
<1>4. CASE LinkExecutions  BY <1>4, CountsAfterLink
<1>5. CASE FinishJob \/ EvaluateDays \/ EndImport
    <2>1. CASE FinishJob
        <3>1. OnlyLess  BY <1>0, <2>1 DEF FinishJob, OnlyLess
        <3> QED  BY <3>1, CountsSurvive
    <2>2. CASE EvaluateDays
        <3>1. import'.pc = "save" /\ import'.left = import.left  BY <1>0, <2>2 DEF EvaluateDays, Evaluate
        <3>2. OnlyLess  BY <1>0, <2>2, <3>1 DEF EvaluateDays, Evaluate, OnlyLess
        <3> QED  BY <3>2, CountsSurvive
    <2>3. CASE EndImport
        <3>1. OnlyLess  BY <1>0, <2>3 DEF EndImport, NoImport, OnlyLess
        <3> QED  BY <3>1, CountsSurvive
    <2> QED  BY <1>5, <2>1, <2>2, <2>3
<1>6. ASSUME NEW d \in Days, SaveDay(d) \/ RefusedDay(d) PROVE CountInv'
    <2>1. OnlyLess
        BY <1>0, <1>6 DEF SaveDay, RefusedDay, NoImport, OnlyLess
    <2> QED  BY <2>1, CountsSurvive
<1>7. CASE ImportDies
    <2>1. import.pc = "link" => lastTrade \in 1..lastTrade
        BY DEF TablesHold, CountInv, LeftAreSeen
    <2>2. OnlyLess  BY <1>0, <1>7, <2>1 DEF ImportDies, NoImport, OnlyLess
    <2> QED  BY <2>2, CountsSurvive
<1>8. ASSUME NEW f \in Files, StartImport(f) PROVE CountInv'
    <2>1. OnlyLess  BY <1>0, <1>8 DEF StartImport, NoImport, OnlyLess
    <2> QED  BY <2>1, CountsSurvive
<1>9. ASSUME NEW j \in DOMAIN jobs, Rollback(j) PROVE CountInv'
    <2>1. OnlyLess  BY <1>0, <1>9 DEF Rollback, OnlyLess
    <2> QED  BY <2>1, CountsSurvive
<1>10. ASSUME NEW r \in Rules, CreateRule(r) \/ ToggleRule(r) \/ DeleteRule(r)
       PROVE  CountInv'
    <2>1. OnlyLess
        BY <1>0, <1>10 DEF CreateRule, ToggleRule, DeleteRule, RuleBecomes, importVars, OnlyLess
    <2> QED  BY <2>1, CountsSurvive
<1>11. ASSUME NEW t \in DOMAIN trades, SaveJournal(t) PROVE CountInv'
    <2>1. OnlyLess  BY <1>0, <1>11 DEF SaveJournal, importVars, OnlyLess
    <2> QED  BY <2>1, CountsSurvive
<1>12. ASSUME NEW t \in DOMAIN trades, NEW p \in Plans, EditPlan(t, p) PROVE CountInv'
    <2>1. trades' = [trades EXCEPT ![t].plan = p]  BY <1>12 DEF EditPlan
    <2>2. /\ DOMAIN trades' = DOMAIN trades
          /\ \A u \in DOMAIN trades : trades'[u].trade = trades[u].trade
        BY <2>1 DEF TablesHold
    <2>3. OnlyLess  BY <1>0, <1>12, <2>2 DEF EditPlan, importVars, OnlyLess
    <2> QED  BY <2>3, CountsSurvive
<1>13. CASE SavePlan
    <2>1. OnlyLess  BY <1>0, <1>13 DEF SavePlan, importVars, OnlyLess
    <2> QED  BY <2>1, CountsSurvive
<1>14. CASE UNCHANGED vars
    <2>1. OnlyLess  BY <1>0, <1>14 DEF vars, OnlyLess
    <2> QED  BY <2>1, CountsSurvive
<1> QED
    BY <1>1, <1>2, <1>3, <1>4, <1>5, <1>6, <1>7, <1>8, <1>9, <1>10, <1>11, <1>12, <1>13, <1>14
    DEF Next, Import

\* The inductive invariant behind the counts: an execution a trade that is
\* there uses is in the table as linked, or is gone from it, or is of the trade
\* an import is about to link (insert_trade, link_executions_to_trade); what
\* those trades use of an execution and what the import has yet to insert come
\* to no more than its quantity.
THEOREM CountsAreKept == Spec => []CountInv
<1>1. Init => CountInv  BY CountsStart
<1>2. TablesHold /\ TablesHold' /\ CountInv /\ [Next]_vars => CountInv'  BY CountsKept
<1>3. JournalInv => TablesHold  BY DEF JournalInv
<1> QED  BY <1>1, <1>2, <1>3, VerdictsHold, PTL DEF Spec

-----------------------------------------------------------------------------
(* Ids and the executions at the broker they stand for *)

\* A leg is of the execution its id was given to, which is in the table, or
\* was deleted from under it.
Genuine(leg) ==
    /\ leg.ex.id \in 1..lastExec
    /\ leg.ex = [history[origin[leg.ex.id]] EXCEPT !.id = leg.ex.id]
    /\ leg.ex.id \in DOMAIN execs \/ origin[leg.ex.id] \in erased

\* So are the legs of the trades there are and of those to come.
OriginInv ==
    /\ origin \in Seq(Nat) /\ Len(origin) = lastExec
    /\ \A id \in DOMAIN execs : origin[id] = execs[id].row
    /\ \A t \in DOMAIN trades : \A leg \in LegsOf(trades[t].trade) : Genuine(leg)
    /\ \A i \in DOMAIN import.left : \A leg \in LegsOf(import.left[i]) : Genuine(leg)

LEMMA OriginStarts == ASSUME Init PROVE OriginInv
BY DEF Init, NoImport, Empty, OriginInv

\* Nothing is deleted, and no trade has other legs.
LegsStay ==
    /\ UNCHANGED <<history, execs, lastExec, origin, erased>>
    /\ DOMAIN trades' = DOMAIN trades
    /\ \A t \in DOMAIN trades : trades'[t].trade = trades[t].trade
    /\ import'.left = import.left \/ import'.left = <<>>

LEMMA OriginStays == ASSUME OriginInv, LegsStay PROVE OriginInv'
<1>1. \A leg : Genuine(leg)' <=> Genuine(leg)  BY DEF LegsStay, Genuine
<1>2. \A t \in DOMAIN trades' : \A leg \in LegsOf(trades'[t].trade) : Genuine(leg)'
    BY <1>1 DEF OriginInv, LegsStay
<1>3. \A i \in DOMAIN import'.left : \A leg \in LegsOf(import'.left[i]) : Genuine(leg)'
    BY <1>1 DEF OriginInv, LegsStay
<1> QED  BY <1>2, <1>3 DEF OriginInv, LegsStay, LegsOf

\* Ids are given once.
LEMMA OriginAfterInsert ==
    ASSUME TablesHold, RowsHold, OriginInv, InsertExecutions
    PROVE  OriginInv'
<1> DEFINE new == Rows(jobs[import.job].file) \ {execs[id].row : id \in DOMAIN execs}
           row == InOrder([r \in new |-> r])
           N   == Len(row)
           ids == (lastExec + 1)..(lastExec + N)
<1>1. row \in Seq(new) /\ N \in Nat
    <2>1. new \in SUBSET (1..Len(history)) /\ Len(history) \in Nat
        BY DEF Rows, RowsHold
    <2>2. IsFiniteSet(new)
        <3>1. IsFiniteSet(1..Len(history))  BY <2>1, FS_Interval
        <3> HIDE DEF new
        <3> QED  BY <2>1, <3>1, FS_Subset
    <2> DEFINE at == [r \in new |-> r]
    <2>3. DOMAIN at = new /\ \A r \in new : at[r] = r /\ r \in Int  BY <2>1
    <2> HIDE DEF at, new
    <2>4. InOrder(at) \in Seq(new)  BY <2>2, <2>3, Ordered
    <2> QED  BY <2>4 DEF at
<1>2. new \subseteq Nat /\ lastExec \in Nat  BY DEF Rows, RowsHold
<1>3. /\ execs' = [id \in DOMAIN execs \cup ids |->
                      IF id \in ids THEN [row |-> row[id - lastExec], job |-> import.job, trade |-> 0]
                      ELSE execs[id]]
      /\ lastExec' = lastExec + N /\ origin' = origin \o row
      /\ import'.left = import.left
      /\ UNCHANGED <<history, trades, erased>>
    BY DEF InsertExecutions, TablesHold
<1> HIDE DEF new, row, N
<1>4. row \in Seq(Nat) /\ Len(row) = N /\ N \in Nat
    <2>1. ASSUME NEW i \in 1..Len(row) PROVE row[i] \in Nat  
        <3>1. row[i] \in new  BY <1>1, <2>1
        <3> QED  BY <1>2, <3>1
    <2>2. row = [i \in 1..Len(row) |-> row[i]] /\ Len(row) \in Nat  BY <1>1
    <2> QED  BY <1>1, <2>1, <2>2 DEF N
<1>5. /\ origin' \in Seq(Nat) /\ Len(origin') = lastExec'
      /\ \A id \in 1..lastExec : id \in 1..lastExec' /\ origin'[id] = origin[id]
      /\ \A id \in ids : origin'[id] = row[id - lastExec]
    <2>1. origin \in Seq(Nat) /\ Len(origin) = lastExec  BY DEF OriginInv
    <2>2. /\ origin \o row \in Seq(Nat) /\ Len(origin \o row) = lastExec + N
          /\ \A i \in 1..(lastExec + N) :
                 (origin \o row)[i] = IF i <= lastExec THEN origin[i] ELSE row[i - lastExec]
        BY <1>4, <2>1, ConcatProperties
    <2> DEFINE all == origin \o row
    <2> HIDE DEF all
    <2>3. \A id \in 1..lastExec : id \in 1..(lastExec + N) /\ all[id] = origin[id]
        BY <1>2, <1>4, <2>2 DEF all
    <2>4. \A id \in ids : all[id] = row[id - lastExec]
        <3>1. SUFFICES ASSUME NEW id \in ids PROVE all[id] = row[id - lastExec]  OBVIOUS
        <3>2. id \in 1..(lastExec + N) /\ ~(id <= lastExec)  BY <1>2, <1>4
        <3> QED  BY <2>2, <3>2 DEF all
    <2>5. origin' = all /\ lastExec' = lastExec + N  BY <1>3 DEF all
    <2>6. all \in Seq(Nat) /\ Len(all) = lastExec + N  BY <2>2 DEF all
    <2> QED  BY <2>3, <2>4, <2>5, <2>6
<1>6. \A id \in DOMAIN execs' :
          \/ id \in ids /\ execs'[id].row = row[id - lastExec]
          \/ id \in DOMAIN execs \ ids /\ execs'[id] = execs[id]
    BY <1>3
<1>7. DOMAIN execs \subseteq DOMAIN execs' /\ DOMAIN execs \subseteq 1..lastExec
    BY <1>3 DEF RowsHold
<1> HIDE DEF ids
<1>8. \A id \in DOMAIN execs' : origin'[id] = execs'[id].row
    BY <1>5, <1>6, <1>7 DEF OriginInv
<1>9. \A leg : Genuine(leg) => Genuine(leg)'  BY <1>3, <1>5, <1>7 DEF Genuine
<1>10. \A t \in DOMAIN trades' : \A leg \in LegsOf(trades'[t].trade) : Genuine(leg)'
    BY <1>3, <1>9 DEF OriginInv
<1>11. \A i \in DOMAIN import'.left : \A leg \in LegsOf(import'.left[i]) : Genuine(leg)'
    BY <1>3, <1>9 DEF OriginInv
<1> QED  BY <1>5, <1>8, <1>10, <1>11 DEF OriginInv, LegsOf

\* What is grouped is in the table.
LEMMA OriginAfterGroup ==
    ASSUME TablesHold, RowsHold, OriginInv, GroupUngrouped
    PROVE  OriginInv'
<1> DEFINE X == {Execution(id) : id \in Ungrouped}
           made == GroupIntoTrades(ByTime(Ungrouped))
<1>1. /\ import'.left = made
      /\ UNCHANGED <<history, execs, trades, lastExec, origin, erased>>
    BY DEF GroupUngrouped, TablesHold, past
<1>2. /\ X \in SUBSET Executions /\ \A id \in Ungrouped : Execution(id).id = id
      /\ ByTime(Ungrouped) \in Seq(X) /\ Distinct(ByTime(Ungrouped))
      /\ Ungrouped \subseteq DOMAIN execs
    BY ListedByTime DEF Ungrouped
<1>3. \A x \in X : /\ x.id \in DOMAIN execs /\ x.id \in 1..lastExec
                   /\ x = [history[origin[x.id]] EXCEPT !.id = x.id]
    <2> SUFFICES ASSUME NEW id \in Ungrouped
                 PROVE  /\ id \in 1..lastExec
                        /\ Execution(id) = [history[origin[id]] EXCEPT !.id = id]
        BY <1>2
    <2> QED  BY <1>2 DEF RowsHold, OriginInv, Execution
<1> HIDE DEF X
<1>4. made \in Seq(TradesOf(X))  BY <1>2, AllGrouped
<1> HIDE DEF made
<1>5. ASSUME NEW i \in DOMAIN made, NEW leg \in LegsOf(made[i]) PROVE Genuine(leg)
    <2>1. made[i] \in TradesOf(X)  BY <1>4
    <2>2. leg.ex \in X  BY <2>1, LegsTell
    <2> QED  BY <1>3, <2>2 DEF Genuine
<1>6. \A leg : Genuine(leg)' <=> Genuine(leg)  BY <1>1 DEF Genuine
<1>7. \A t \in DOMAIN trades' : \A leg \in LegsOf(trades'[t].trade) : Genuine(leg)'
    BY <1>1, <1>6 DEF OriginInv
<1>8. \A i \in DOMAIN import'.left : \A leg \in LegsOf(import'.left[i]) : Genuine(leg)'
    BY <1>1, <1>5, <1>6
<1> QED  BY <1>1, <1>7, <1>8 DEF OriginInv, LegsOf

LEMMA OriginAfterTrade ==
    ASSUME TablesHold, LeftAreSeen, OriginInv, InsertTrade
    PROVE  OriginInv'
<1>1. /\ import.pc = "trade" /\ import.left # <<>> /\ import'.left = import.left
      /\ lastTrade' = lastTrade + 1
      /\ UNCHANGED <<history, execs, lastExec, origin, erased>>
      /\ \A t \in DOMAIN trades' :
             trades'[t].trade = Head(import.left) \/ (t \in DOMAIN trades /\ trades'[t] = trades[t])
    <2>1. /\ import.pc = "trade" /\ import.left # <<>>
          /\ lastTrade' = lastTrade + 1
          /\ UNCHANGED <<history, execs, lastExec, origin, erased>>
        BY DEF InsertTrade, past
    <2>2. import'.left = import.left  BY DEF InsertTrade, TablesHold
    <2>3. trades' = [t \in DOMAIN trades \cup {lastTrade'} |->
                        IF t = lastTrade'
                        THEN [job |-> import.job, trade |-> Head(import.left), plan |-> NoPlan]
                        ELSE trades[t]]
        BY DEF InsertTrade
    <2>4. ASSUME NEW t \in DOMAIN trades'
          PROVE  trades'[t].trade = Head(import.left) \/ (t \in DOMAIN trades /\ trades'[t] = trades[t])
        <3>1. CASE t = lastTrade'
            <4>1. trades'[t] = [job |-> import.job, trade |-> Head(import.left), plan |-> NoPlan]
                BY <2>3, <2>4, <3>1
            <4>2. trades'[t].trade = Head(import.left)  BY <4>1
            <4> QED  BY <4>2
        <3>2. CASE t # lastTrade'  BY <2>3, <2>4, <3>2
        <3> QED  BY <3>1, <3>2
    <2> QED  BY <2>1, <2>2, <2>4
<1>2. import.left \in Seq(TradesOf(Seen))  BY <1>1 DEF LeftAreSeen
<1>3. 1 \in DOMAIN import.left /\ Head(import.left) = import.left[1]  BY <1>1, <1>2
<1>4. \A leg : Genuine(leg)' <=> Genuine(leg)  BY <1>1 DEF Genuine
<1>5. \A leg \in LegsOf(Head(import.left)) : Genuine(leg)  BY <1>3 DEF OriginInv
<1>6. ASSUME NEW t \in DOMAIN trades', NEW leg \in LegsOf(trades'[t].trade) PROVE Genuine(leg)'
    BY <1>1, <1>4, <1>5, <1>6 DEF OriginInv
<1>7. \A i \in DOMAIN import'.left : \A leg \in LegsOf(import'.left[i]) : Genuine(leg)'
    BY <1>1, <1>4 DEF OriginInv
<1> QED  BY <1>1, <1>6, <1>7 DEF OriginInv, LegsOf

LEMMA OriginAfterLink ==
    ASSUME TablesHold, RowsHold, LeftAreSeen, OriginInv, LinkExecutions
    PROVE  OriginInv'
<1>1. /\ import.pc = "link" /\ import'.left = Tail(import.left)
      /\ UNCHANGED <<history, trades, lastExec, origin, erased>>
      /\ DOMAIN execs' = DOMAIN execs
      /\ \A id \in DOMAIN execs : execs'[id] = execs[id] \/ execs'[id] = [execs[id] EXCEPT !.trade = lastTrade]
    BY DEF LinkExecutions, TablesHold, past
<1>2. import.left \in Seq(TradesOf(Seen)) /\ import.left # <<>>  BY <1>1 DEF LeftAreSeen
<1>3. \A i \in DOMAIN Tail(import.left) :
          i + 1 \in DOMAIN import.left /\ Tail(import.left)[i] = import.left[i + 1]
    BY <1>2
<1>4. ASSUME NEW id \in DOMAIN execs PROVE execs'[id].row = execs[id].row
    <2>1. execs[id] = [row |-> execs[id].row, job |-> execs[id].job, trade |-> execs[id].trade]
        BY DEF RowsHold
    <2>2. [execs[id] EXCEPT !.trade = lastTrade].row = execs[id].row  BY <2>1
    <2> QED  BY <1>1, <2>2
<1>5. \A leg : Genuine(leg)' <=> Genuine(leg)  BY <1>1 DEF Genuine
<1>6. \A t \in DOMAIN trades' : \A leg \in LegsOf(trades'[t].trade) : Genuine(leg)'
    BY <1>1, <1>5 DEF OriginInv
<1>7. \A i \in DOMAIN import'.left : \A leg \in LegsOf(import'.left[i]) : Genuine(leg)'
    BY <1>1, <1>3, <1>5 DEF OriginInv
<1> QED  BY <1>1, <1>4, <1>6, <1>7 DEF OriginInv, LegsOf

\* A row that goes from under a trade is noted.
LEMMA OriginAfterRollback ==
    ASSUME TablesHold, RowsHold, OriginInv, NEW j, Rollback(j)
    PROVE  OriginInv'
<1> DEFINE kept == {t \in DOMAIN trades : trades[t].job # j}
           gone == {id \in DOMAIN execs : execs[id].job = j}
           used == (UNION {IdsOf(trades[t].trade) : t \in kept})
                       \cup (UNION {IdsOf(import.left[i]) : i \in DOMAIN import.left})
<1>1. /\ import' = import /\ UNCHANGED <<history, lastExec, origin>>
      /\ DOMAIN trades' = kept /\ \A t \in kept : t \in DOMAIN trades /\ trades'[t] = trades[t]
      /\ DOMAIN execs' = DOMAIN execs \ gone
      /\ \A id \in DOMAIN execs' : id \in DOMAIN execs /\ execs'[id] = execs[id]
      /\ erased' = erased \cup {execs[id].row : id \in gone \cap used}
    BY DEF Rollback
<1>u. /\ \A t \in kept : \A id \in IdsOf(trades[t].trade) : id \in used
      /\ \A i \in DOMAIN import.left : \A id \in IdsOf(import.left[i]) : id \in used
    <2>1. ASSUME NEW t \in kept, NEW id \in IdsOf(trades[t].trade) PROVE id \in used
        <3>1. id \in UNION {IdsOf(trades[u].trade) : u \in kept}  BY <2>1, Zenon
        <3> QED  BY <3>1
    <2>2. ASSUME NEW i \in DOMAIN import.left, NEW id \in IdsOf(import.left[i]) PROVE id \in used
        <3>1. id \in UNION {IdsOf(import.left[k]) : k \in DOMAIN import.left}  BY <2>2, Zenon
        <3> QED  BY <3>1
    <2> QED  BY <2>1, <2>2
<1> HIDE DEF used
<1>2. ASSUME NEW leg, Genuine(leg), leg.ex.id \in used PROVE Genuine(leg)'
    <2>1. CASE leg.ex.id \in gone
        <3>1. execs[leg.ex.id].row \in erased'  BY <1>1, <1>2, <2>1
        <3>2. origin[leg.ex.id] = execs[leg.ex.id].row  BY <2>1 DEF OriginInv
        <3> QED  BY <1>1, <1>2, <3>1, <3>2 DEF Genuine
    <2>2. CASE leg.ex.id \notin gone  BY <1>1, <1>2, <2>2 DEF Genuine
    <2> QED  BY <2>1, <2>2
<1>3. ASSUME NEW t \in DOMAIN trades', NEW leg \in LegsOf(trades'[t].trade) PROVE Genuine(leg)'
    <2>1. t \in kept /\ trades'[t] = trades[t] /\ leg \in LegsOf(trades[t].trade)  BY <1>1, <1>3
    <2>2. leg.ex.id \in used
        <3>1. leg.ex.id \in IdsOf(trades[t].trade)  BY <2>1 DEF IdsOf
        <3> QED  BY <1>u, <2>1, <3>1
    <2>3. Genuine(leg)  BY <2>1 DEF OriginInv
    <2> QED  BY <1>2, <2>2, <2>3
<1>4. ASSUME NEW i \in DOMAIN import.left, NEW leg \in LegsOf(import.left[i]) PROVE Genuine(leg)'
    <2>1. leg.ex.id \in used
        <3>1. leg.ex.id \in IdsOf(import.left[i])  BY <1>4 DEF IdsOf
        <3> QED  BY <1>u, <3>1
    <2>2. Genuine(leg)  BY <1>4 DEF OriginInv
    <2> QED  BY <1>2, <2>1, <2>2
<1>5. \A id \in DOMAIN execs' : origin[id] = execs'[id].row  BY <1>1 DEF OriginInv
<1> QED  BY <1>1, <1>3, <1>4, <1>5 DEF OriginInv, LegsOf

LEMMA OriginKept ==
    ASSUME TablesHold, CountInv, OriginInv, [Next]_vars
    PROVE  OriginInv'
<1>0. /\ import = [pc |-> import.pc, job |-> import.job, left |-> import.left,
                   evals |-> import.evals]
      /\ RowsHold /\ LeftAreSeen
    BY DEF TablesHold, CountInv
<1>1. CASE InsertExecutions  BY <1>0, <1>1, OriginAfterInsert
<1>2. CASE GroupUngrouped  BY <1>0, <1>2, OriginAfterGroup
<1>3. CASE InsertTrade  BY <1>0, <1>3, OriginAfterTrade
<1>4. CASE LinkExecutions  BY <1>0, <1>4, OriginAfterLink
<1>5. CASE FinishJob \/ EvaluateDays \/ EndImport
    <2>1. CASE FinishJob
        BY <1>0, <2>1, OriginStays DEF FinishJob, LegsStay, past
    <2>2. CASE EvaluateDays
        <3>1. import'.left = import.left  BY <1>0, <2>2 DEF EvaluateDays, Evaluate
        <3> QED  BY <2>2, <3>1, OriginStays DEF EvaluateDays, Evaluate, LegsStay
    <2>3. CASE EndImport
        BY <2>3, OriginStays DEF EndImport, NoImport, LegsStay, past
    <2> QED  BY <1>5, <2>1, <2>2, <2>3
<1>6. ASSUME NEW d \in Days, SaveDay(d) \/ RefusedDay(d) PROVE OriginInv'
    BY <1>0, <1>6, OriginStays DEF SaveDay, RefusedDay, NoImport, LegsStay, past
<1>7. CASE ImportDies
    BY <1>7, OriginStays DEF ImportDies, NoImport, LegsStay, past
<1>8. ASSUME NEW f \in Files, StartImport(f) PROVE OriginInv'
    BY <1>0, <1>8, OriginStays DEF StartImport, NoImport, LegsStay, past
<1>9. ASSUME NEW j \in DOMAIN jobs, Rollback(j) PROVE OriginInv'
    BY <1>0, <1>9, OriginAfterRollback
<1>10. ASSUME NEW r \in Rules, CreateRule(r) \/ ToggleRule(r) \/ DeleteRule(r)
       PROVE  OriginInv'
    BY <1>10, OriginStays
    DEF CreateRule, ToggleRule, DeleteRule, RuleBecomes, importVars, past, LegsStay
<1>11. ASSUME NEW t \in DOMAIN trades, SaveJournal(t) PROVE OriginInv'
    BY <1>11, OriginStays DEF SaveJournal, importVars, past, LegsStay
<1>12. ASSUME NEW t \in DOMAIN trades, NEW p \in Plans, EditPlan(t, p) PROVE OriginInv'
    <2>1. trades' = [trades EXCEPT ![t].plan = p]  BY <1>12 DEF EditPlan
    <2>2. /\ DOMAIN trades' = DOMAIN trades
          /\ \A u \in DOMAIN trades : trades'[u].trade = trades[u].trade
        BY <2>1 DEF TablesHold
    <2> QED  BY <1>12, <2>2, OriginStays DEF EditPlan, importVars, past, LegsStay
<1>13. CASE SavePlan  BY <1>13, OriginStays DEF SavePlan, importVars, past, LegsStay
<1>14. CASE UNCHANGED vars  BY <1>14, OriginStays DEF vars, past, LegsStay
<1> QED
    BY <1>1, <1>2, <1>3, <1>4, <1>5, <1>6, <1>7, <1>8, <1>9, <1>10, <1>11, <1>12, <1>13, <1>14
    DEF Next, Import

\* The inductive invariant of the ids: each is of the row of the history it was
\* given to, and a trade's legs are of rows of the table, or of rows a rollback
\* deleted from under it (rollback_import_job).
THEOREM OriginsHold == Spec => []OriginInv
<1>1. Init => OriginInv  BY OriginStarts
<1>2. TablesHold /\ CountInv /\ OriginInv /\ [Next]_vars => OriginInv'  BY OriginKept
<1>3. JournalInv => TablesHold  BY DEF JournalInv
<1> QED  BY <1>1, <1>2, <1>3, VerdictsHold, CountsAreKept, PTL DEF Spec

\* The legs of a row that was not deleted from under a trade are those of one
\* execution of the table, if there are any.
LEMMA OneExecution ==
    ASSUME TablesHold, CountInv, OriginInv, NEW r \in DOMAIN history \ erased
    PROVE  \E x \in Executions :
               /\ x.qty = history[r].qty
               /\ \A t \in 1..lastTrade : \A leg \in LegsOf(Live[t]) :
                      origin[leg.ex.id] = r <=> leg.ex = x
<1>1. history[r] \in Executions /\ RowsHold /\ lastExec \in Nat
    BY DEF CountInv, RowsHold
<1>2. ASSUME NEW t \in 1..lastTrade, NEW leg \in LegsOf(Live[t]) PROVE Genuine(leg)
    <2>1. CASE t \in DOMAIN trades \ stranded
        <3>1. Live[t] = trades[t].trade  BY <2>1 DEF Live
        <3> QED  BY <1>2, <2>1, <3>1 DEF OriginInv
    <2>2. CASE t \notin DOMAIN trades \ stranded
        <3>1. Live[t] = Trade("long")  BY <2>2 DEF Live
        <3> QED  BY <1>2, <3>1 DEF Trade, LegsOf, ToSet
    <2> QED  BY <2>1, <2>2
<1>3. \A id \in Nat : /\ [history[r] EXCEPT !.id = id] \in Executions
                      /\ [history[r] EXCEPT !.id = id].id = id
                      /\ [history[r] EXCEPT !.id = id].qty = history[r].qty
    BY <1>1 DEF Executions
<1>4. CASE \E id \in DOMAIN execs : execs[id].row = r
    <2> PICK id \in DOMAIN execs : execs[id].row = r  BY <1>4
    <2> DEFINE x == [history[r] EXCEPT !.id = id]
    <2>1. id \in Nat /\ x \in Executions /\ x.qty = history[r].qty /\ x.id = id
        BY <1>1, <1>3 DEF RowsHold
    <2>2. origin[id] = r  BY DEF OriginInv
    <2>3. ASSUME NEW t \in 1..lastTrade, NEW leg \in LegsOf(Live[t])
          PROVE  origin[leg.ex.id] = r <=> leg.ex = x
        <3>1. Genuine(leg)  BY <1>2
        <3>2. ASSUME origin[leg.ex.id] = r PROVE leg.ex = x
            <4>1. leg.ex.id \in DOMAIN execs  BY <3>1, <3>2 DEF Genuine
            <4>2. execs[leg.ex.id].row = r  BY <3>2, <4>1 DEF OriginInv
            <4>3. leg.ex.id = id  BY <1>1, <4>1, <4>2 DEF RowsHold
            <4> QED  BY <3>1, <3>2, <4>3 DEF Genuine
        <3> HIDE DEF x
        <3>3. leg.ex = x => origin[leg.ex.id] = r  BY <2>1, <2>2
        <3> QED  BY <3>2, <3>3
    <2> HIDE DEF x
    <2> QED  BY <2>1, <2>3
<1>5. CASE \A id \in DOMAIN execs : execs[id].row # r
    <2> DEFINE x == [history[r] EXCEPT !.id = 0]
    <2>1. x \in Executions /\ x.qty = history[r].qty /\ x.id = 0  BY <1>3
    <2> HIDE DEF x
    <2>2. ASSUME NEW t \in 1..lastTrade, NEW leg \in LegsOf(Live[t])
          PROVE  origin[leg.ex.id] # r /\ leg.ex # x
        <3>1. Genuine(leg)  BY <1>2
        <3>2. leg.ex # x  BY <2>1, <3>1 DEF Genuine
        <3>3. ASSUME origin[leg.ex.id] = r PROVE FALSE
            <4>1. leg.ex.id \in DOMAIN execs  BY <3>1, <3>3 DEF Genuine
            <4> QED  BY <1>5, <3>3, <4>1 DEF OriginInv
        <3> QED  BY <3>2, <3>3
    <2> QED  BY <2>1, <2>2
<1> QED  BY <1>4, <1>5

\* The invariants are enough.
LEMMA CountsHold == ASSUME TablesHold, CountInv, OriginInv PROVE NoDoubleCount
<1>1. Live \in Seq(TradesOf(Seen)) /\ Len(Live) = lastTrade /\ DOMAIN Live = 1..lastTrade
      /\ Pending \in Seq(TradesOf(Seen))
    BY LiveAndPending DEF CountInv
<1>2. ASSUME NEW r \in DOMAIN history \ erased PROVE RowUseOf(Live, r) <= history[r].qty
    <2> PICK x \in Executions :
              /\ x.qty = history[r].qty
              /\ \A t \in 1..lastTrade : \A leg \in LegsOf(Live[t]) :
                     origin[leg.ex.id] = r <=> leg.ex = x
        BY OneExecution
    <2>1. ASSUME NEW t \in DOMAIN Live PROVE RowUse(Live[t], r) = UsedIn(Live[t], x)
        <3>1. \A leg \in LegsOf(Live[t]) : origin[leg.ex.id] = r <=> leg.ex = x  BY <1>1
        <3>2. /\ \A i \in DOMAIN Live[t].entries :
                     origin[Live[t].entries[i].ex.id] = r <=> Live[t].entries[i].ex = x
              /\ \A i \in DOMAIN Live[t].exits :
                     origin[Live[t].exits[i].ex.id] = r <=> Live[t].exits[i].ex = x
            BY <3>1 DEF LegsOf, ToSet
        <3>3. OfRow(Live[t].entries, r) = OfExecution(Live[t].entries, x)
            BY <3>2 DEF OfRow, OfExecution
        <3>4. OfRow(Live[t].exits, r) = OfExecution(Live[t].exits, x)
            BY <3>2 DEF OfRow, OfExecution
        <3> QED  BY <3>3, <3>4 DEF RowUse, UsedIn
    <2>2. RowUseOf(Live, r) = UsedOf(Live, x)  BY <2>1 DEF RowUseOf, UsedOf
    <2>3. UsedOf(Live, x) \in Nat /\ UsedOf(Pending, x) \in Nat  BY <1>1, UseIsNat
    <2>4. UsedOf(Live, x) + UsedOf(Pending, x) <= x.qty  BY DEF CountInv, NotOverused
    <2>5. x.qty \in Nat  BY DEF Executions
    <2> QED  BY <2>2, <2>3, <2>4, <2>5
<1>3. GroupingConserves(Table)
    <2> DEFINE X == {Execution(id) : id \in DOMAIN execs}
    <2>1. X \in SUBSET Executions /\ Table \in Seq(X) /\ Distinct(Table)
        BY ListedByTime DEF CountInv, Table
    <2> QED  BY <2>1, GroupingIsExact
<1> QED  BY <1>2, <1>3 DEF NoDoubleCount

\* Over any sequence of imports, overlapping files, rollbacks in the middle of
\* an import and crashes, no execution at the broker is counted in the
\* journal's trades for more than its quantity, whatever ids it was given, but
\* one a rollback deleted from under a trade of another import, and in a trade
\* whose import died before it linked the executions; and grouping what is in
\* the table loses nothing.
THEOREM NothingCountedTwice == Spec => []NoDoubleCount
<1>1. TablesHold /\ CountInv /\ OriginInv => NoDoubleCount  BY CountsHold
<1>2. JournalInv => TablesHold  BY DEF JournalInv
<1> QED  BY <1>1, <1>2, VerdictsHold, CountsAreKept, OriginsHold, PTL

-----------------------------------------------------------------------------
(* Imports in parts: the invariant *)

\* The trades there are, and those of an import that are not linked yet.
Done      == {trades[t].trade : t \in DOMAIN trades}
Remaining == IF import.pc \in {"trade", "link"} THEN import.left ELSE <<>>
IdsUsed(ts) == UNION {IdsOf(t) : t \in ts}

\* All executions, in the order of their ids.
Log == [id \in 1..lastExec |-> Execution(id)]

\* What is linked and what there is of trades, or will be once the import has
\* inserted and linked the rest, is what the first n executions come to.
GroupedUpTo(n) ==
    /\ \A id \in 1..lastExec :
           execs[id].trade # 0 \/ id \in IdsUsed(ToSet(Remaining)) <=> id \in IdsUsed(Made(Log, n))
    /\ Done \cup ToSet(Pending) = Made(Log, n)

Orderly == rollbacks = 0 /\ faults = 0 /\ Chronological /\ Straight(Log, lastExec)

\* Only an import that has inserted its executions and not grouped them is behind.
SplitInv ==
    /\ rollbacks \in Nat /\ faults \in Nat
    /\ rollbacks = 0 => DOMAIN execs = 1..lastExec
    /\ Orderly =>
           \E n \in 0..lastExec : (import.pc # "group" => n = lastExec) /\ GroupedUpTo(n)

LEMMA LogHolds ==
    ASSUME RowsHold, DOMAIN execs = 1..lastExec
    PROVE  /\ lastExec \in Nat /\ ToSet(Log) \in SUBSET Executions
           /\ Log \in Seq(ToSet(Log)) /\ Len(Log) = lastExec /\ DOMAIN Log = 1..lastExec
           /\ Distinct(Log)
           /\ \A id \in 1..lastExec : Log[id] = Execution(id) /\ Log[id].id = id
<1>1. lastExec \in Nat  BY DEF RowsHold
<1>2. \A id \in 1..lastExec : Execution(id) \in Executions /\ Execution(id).id = id
    BY ListedByTime
<1>3. \A id \in 1..lastExec : Log[id] = Execution(id) /\ Log[id].id = id  BY <1>2 DEF Log
<1>4. DOMAIN Log = 1..lastExec /\ Log = [id \in 1..lastExec |-> Log[id]]  BY DEF Log
<1>5. ToSet(Log) \in SUBSET Executions /\ \A id \in 1..lastExec : Log[id] \in ToSet(Log)
    BY <1>2, <1>3, <1>4 DEF ToSet
<1>6. Log \in Seq(ToSet(Log)) /\ Len(Log) = lastExec  BY <1>1, <1>4, <1>5
<1>7. Distinct(Log)  BY <1>3, <1>4 DEF Distinct
<1> QED  BY <1>1, <1>3, <1>4, <1>5, <1>6, <1>7

\* Which executions the trades made of the first n use.
LEMMA IdsAreSettled ==
    ASSUME RowsHold, DOMAIN execs = 1..lastExec, NEW n \in 0..lastExec
    PROVE  /\ IdsUsed(Made(Log, n)) \subseteq 1..lastExec
           /\ \A id \in 1..lastExec : id \in IdsUsed(Made(Log, n)) <=> id \in Settled(Log, n)
<1> DEFINE X == ToSet(Log)
<1>1. /\ lastExec \in Nat /\ X \in SUBSET Executions /\ Log \in Seq(X) /\ Len(Log) = lastExec
      /\ DOMAIN Log = 1..lastExec /\ Distinct(Log)
      /\ \A id \in 1..lastExec : Log[id] \in X /\ Log[id].id = id
      /\ \A x \in X : x.id \in 1..lastExec /\ Log[x.id] = x
    BY LogHolds DEF ToSet
<1> HIDE DEF X
<1>2. Made(Log, n) \subseteq TradesOf(X)  BY <1>1, MadeTyped
<1>3. \A t \in Made(Log, n) : \A leg \in LegsOf(t) : leg.ex \in X
    BY <1>2, LegsTell
<1>4. \A id : id \in IdsUsed(Made(Log, n))
                <=> \E t \in Made(Log, n) : \E leg \in LegsOf(t) : leg.ex.id = id
    BY DEF IdsUsed, IdsOf
<1>5. IdsUsed(Made(Log, n)) \subseteq 1..lastExec  BY <1>1, <1>3, <1>4
<1>6. ASSUME NEW id \in 1..lastExec
      PROVE  id \in IdsUsed(Made(Log, n)) <=> id \in Settled(Log, n)
    <2>1. id \in Settled(Log, n)
            <=> \E t \in Made(Log, n) : \E leg \in LegsOf(t) : leg.ex = Log[id]
        BY <1>1, SettledByMade DEF LegsOf
    <2>2. \A t \in Made(Log, n) : \A leg \in LegsOf(t) : leg.ex.id = id <=> leg.ex = Log[id]
        BY <1>1, <1>3
    <2> QED  BY <1>4, <2>1, <2>2
<1> QED  BY <1>5, <1>6

\* Where the ids are in the order of time, so is the log.
LEMMA TimeIsOrder ==
    ASSUME RowsHold, DOMAIN execs = 1..lastExec, Chronological, NEW U \in SUBSET (1..lastExec)
    PROVE  ByTime(U) = Picked(Log, U)
<1> DEFINE at == [id \in U |-> execs[id].row]
           bt == [id \in U |-> id]
<1>0. lastExec \in Nat  BY DEF RowsHold
<1>1. Numbers(bt)  BY <1>0, PlacesNumber
<1>2. Numbers(at)
    <2>1. IsFiniteSet(U)
        <3>1. IsFiniteSet(1..lastExec)  BY <1>0, FS_Interval
        <3> QED  BY <3>1, FS_Subset
    <2>2. \A id \in U : execs[id].row \in Int
        <3> SUFFICES ASSUME NEW id \in U PROVE execs[id].row \in Int  OBVIOUS
        <3>1. execs[id].row \in DOMAIN history /\ history \in Seq(Executions)  BY DEF RowsHold
        <3> QED  BY <3>1
    <2>3. \A a, b \in U : execs[a].row = execs[b].row => a = b  BY DEF RowsHold
    <2> QED  BY <2>1, <2>2, <2>3 DEF Numbers
<1>3. ASSUME NEW a \in U, NEW b \in U, execs[a].row < execs[b].row PROVE a < b
    <2>1. a \in Int /\ b \in Int /\ a \in DOMAIN execs /\ b \in DOMAIN execs  BY <1>0
    <2>2. execs[a].row \in Int /\ execs[b].row \in Int  BY <1>2 DEF Numbers
    <2>3. CASE a = b  BY <1>3, <2>2, <2>3
    <2>4. CASE b < a
        <3>1. execs[b].row < execs[a].row  BY <2>1, <2>4 DEF Chronological
        <3> QED  BY <1>3, <2>2, <3>1
    <2> QED  BY <2>1, <2>3, <2>4
<1>4. DOMAIN at = U /\ DOMAIN bt = U /\ \A a, b \in U : at[a] < at[b] => bt[a] < bt[b]
    BY <1>3
<1> DEFINE s == InOrder(bt)
<1>5. s \in Seq(U)
    <2> HIDE DEF bt
    <2> QED  BY <1>1, <1>4, InOrderSorts DEF Sorts
<1>6. ByTime(U) = [i \in DOMAIN InOrder(at) |-> Execution(InOrder(at)[i])]  BY DEF ByTime
<1>7. Picked(Log, U) = [i \in DOMAIN s |-> Log[s[i]]]  BY DEF Picked
<1>8. InOrder(at) = s
    <2> HIDE DEF at, bt
    <2> QED  BY <1>1, <1>2, <1>4, SameOrder
<1> HIDE DEF at, bt, s
<1>9. \A i \in DOMAIN s : Log[s[i]] = Execution(s[i])
    <2>1. \A i \in DOMAIN s : s[i] \in U  BY <1>5
    <2> QED  BY <2>1 DEF Log
<1> QED  BY <1>6, <1>7, <1>8, <1>9

LEMMA TableIsLog ==
    ASSUME RowsHold, DOMAIN execs = 1..lastExec, Chronological
    PROVE  Table = Log
<1>1. Log \in Seq(ToSet(Log)) /\ DOMAIN Log = 1..lastExec  BY LogHolds
<1>2. Picked(Log, DOMAIN Log) = Log  BY <1>1, AllPicked
<1>3. ByTime(1..lastExec) = Picked(Log, 1..lastExec)  BY TimeIsOrder
<1> QED  BY <1>1, <1>2, <1>3 DEF Table

\* The invariant is enough.
LEMMA SplitsHold == ASSUME RowsHold, SplitInv PROVE SplitImportsAgree
<1> SUFFICES ASSUME Undisturbed, ~ Flips
             PROVE  Done = ToSet(GroupIntoTrades(Table))
    BY DEF SplitImportsAgree, Done
<1>1. import.pc = "idle" /\ rollbacks = 0 /\ faults = 0 /\ Chronological
    BY DEF Undisturbed
<1>2. DOMAIN execs = 1..lastExec  BY <1>1 DEF SplitInv
<1> DEFINE X == ToSet(Log)
<1>3. /\ lastExec \in Nat /\ X \in SUBSET Executions /\ Log \in Seq(X) /\ Len(Log) = lastExec
      /\ DOMAIN Log = 1..lastExec
    BY <1>2, LogHolds
<1> HIDE DEF X
<1>4. Table = Log  BY <1>1, <1>2, TableIsLog
<1>5. Straight(Log, lastExec)
    <2>1. \A k \in 1..lastExec : ~ (SumSeq(Moves(Log, Log[k].symbol, k - 1))
                                      * SumSeq(Moves(Log, Log[k].symbol, k)) < 0)
        BY <1>3, <1>4 DEF Flips, Moves
    <2> QED  BY <1>3, <2>1, NeverTurned
<1>6. PICK n \in 0..lastExec : (import.pc # "group" => n = lastExec) /\ GroupedUpTo(n)
    BY <1>1, <1>5 DEF SplitInv, Orderly
<1>7. Done \cup ToSet(Pending) = Made(Log, lastExec)  BY <1>1, <1>6 DEF GroupedUpTo
<1>8. ToSet(Pending) = {}
    <2>1. Pending = <<>>  BY <1>1 DEF Pending
    <2> QED  BY <2>1 DEF ToSet
<1>9. ToSet(GroupIntoTrades(Log)) = UNION {ToSet(Grouped(Log, symbol).closed) : symbol \in STRING}
    BY <1>3, TradesGrouped
<1>10. Prefix(Log, lastExec) = Log  BY <1>3, PrefixTyped
<1>11. Made(Log, lastExec) = ToSet(GroupIntoTrades(Log))  BY <1>9, <1>10 DEF Made, After
<1> QED  BY <1>4, <1>7, <1>8, <1>11

LEMMA SplitsStart == ASSUME Init PROVE SplitInv
<1> USE DEF Init, NoImport, Empty
<1>1. \A id \in 1..lastExec : FALSE  OBVIOUS
<1>2. Made(Log, 0) = {}
    <2>1. \A symbol : ToSet(After(Log, 0, symbol).closed) = {}
        BY AfterNone DEF NoGroup, ToSet
    <2> QED  BY <2>1 DEF Made
<1>3. Done = {} /\ ToSet(Pending) = {}  BY DEF Done, Pending, ToSet
<1>4. GroupedUpTo(0)  BY <1>1, <1>2, <1>3 DEF GroupedUpTo
<1>5. 0 \in 0..lastExec /\ 0 = lastExec /\ DOMAIN execs = 1..lastExec  OBVIOUS
<1> QED  BY <1>4, <1>5 DEF SplitInv

-----------------------------------------------------------------------------
(* Imports in parts: the steps *)

\* Executions stay as they are, and so do the trades there are and are to come.
Quiet ==
    /\ UNCHANGED <<history, execs, lastExec, rollbacks, faults>>
    /\ import'.pc = "group" <=> import.pc = "group"
    /\ Remaining' = Remaining
    /\ Done' \cup ToSet(Pending)' = Done \cup ToSet(Pending)

LEMMA SplitsStay ==
    ASSUME SplitInv, Quiet
    PROVE  SplitInv'
<1> USE DEF Quiet
<1>1. Log' = Log  BY DEF Log, Execution
<1>2. Orderly' <=> Orderly  BY <1>1 DEF Orderly, Chronological
<1>3. ASSUME NEW n, GroupedUpTo(n) PROVE GroupedUpTo(n)'
    BY <1>1, <1>3 DEF GroupedUpTo
<1>4. Orderly' => \E n \in 0..lastExec' : (import'.pc # "group" => n = lastExec') /\ GroupedUpTo(n)'
    <2> SUFFICES ASSUME Orderly'
                 PROVE  \E n \in 0..lastExec' : (import'.pc # "group" => n = lastExec') /\ GroupedUpTo(n)'
        OBVIOUS
    <2>1. PICK n \in 0..lastExec : (import.pc # "group" => n = lastExec) /\ GroupedUpTo(n)
        BY <1>2 DEF SplitInv
    <2>2. GroupedUpTo(n)'  BY <1>3, <2>1
    <2>3. import'.pc # "group" => n = lastExec  BY <2>1
    <2> QED  BY <2>2, <2>3
<1> QED  BY <1>4 DEF SplitInv

LEMMA SplitsAfterTrade ==
    ASSUME TablesHold, CountInv, SplitInv, InsertTrade
    PROVE  SplitInv'
<1>1. /\ import.pc = "trade" /\ import.left # <<>> /\ import'.pc = "link"
      /\ import'.left = import.left
      /\ lastTrade' = lastTrade + 1 /\ lastTrade \in Nat
      /\ UNCHANGED <<history, execs, lastExec, rollbacks, faults>>
    BY DEF InsertTrade, TablesHold, counters
<1>2. /\ DOMAIN trades' = DOMAIN trades \cup {lastTrade + 1}
      /\ trades'[lastTrade + 1].trade = Head(import.left)
      /\ \A u \in DOMAIN trades : u # lastTrade + 1 /\ trades'[u] = trades[u]
    BY <1>1 DEF InsertTrade, TablesHold
<1>3. import.left \in Seq(TradesOf(Seen))  BY <1>1 DEF CountInv, LeftAreSeen
<1>4. ToSet(import.left) = {Head(import.left)} \cup ToSet(Tail(import.left))
    BY <1>1, <1>3, HeadAndTail
<1>5. Pending = import.left /\ Pending' = Tail(import.left) /\ Remaining' = Remaining
    BY <1>1 DEF Pending, Remaining
<1>6. Done' = Done \cup {Head(import.left)}  BY <1>2 DEF Done
<1>7. Quiet  BY <1>1, <1>4, <1>5, <1>6 DEF Quiet
<1> QED  BY <1>7, SplitsStay

LEMMA SplitsAfterLink ==
    ASSUME TablesHold, CountInv, SplitInv, LinkExecutions
    PROVE  SplitInv'
<1> DEFINE t == Head(import.left)
           ids == IdsOf(t)
<1>1. /\ import.pc = "link" /\ import'.pc = "trade" /\ import'.left = Tail(import.left)
      /\ UNCHANGED <<history, trades, lastExec, rollbacks, faults>>
      /\ DOMAIN execs' = DOMAIN execs
      /\ \A id \in DOMAIN execs :
             execs'[id] = IF id \in ids THEN [execs[id] EXCEPT !.trade = lastTrade] ELSE execs[id]
    BY DEF LinkExecutions, TablesHold, counters
<1>2. /\ RowsHold /\ import.left \in Seq(TradesOf(Seen)) /\ import.left # <<>> /\ lastTrade # 0
    BY <1>1 DEF CountInv, LeftAreSeen
<1> HIDE DEF ids
<1>3. \A id \in DOMAIN execs :
         /\ execs'[id].row = execs[id].row
         /\ execs'[id].trade = IF id \in ids THEN lastTrade ELSE execs[id].trade
    BY <1>1, <1>2 DEF RowsHold
<1>4. ToSet(import.left) = {t} \cup ToSet(Tail(import.left))  BY <1>2, HeadAndTail
<1>5. /\ Remaining = import.left /\ Remaining' = Tail(import.left)
      /\ Pending' = Pending /\ Done' = Done
    BY <1>1 DEF Remaining, Pending, Done
<1>6. IdsUsed(ToSet(Remaining)) = ids \cup IdsUsed(ToSet(Remaining)')
    BY <1>4, <1>5 DEF IdsUsed, ids
<1> HIDE DEF t
<1> SUFFICES ASSUME rollbacks = 0 PROVE SplitInv'
    BY <1>1 DEF SplitInv, Orderly
<1>7. DOMAIN execs = 1..lastExec  BY DEF SplitInv
<1>8. Log' = Log
    <2>1. \A id \in 1..lastExec : Execution(id)' = Execution(id)  BY <1>1, <1>3, <1>7 DEF Execution
    <2> QED  BY <1>1, <2>1 DEF Log
<1>9. Orderly' => Orderly
    BY <1>1, <1>3, <1>8 DEF Orderly, Chronological
<1>10. ASSUME NEW n, GroupedUpTo(n) PROVE GroupedUpTo(n)'
    <2>1. Done' \cup ToSet(Pending)' = Made(Log', n)  BY <1>5, <1>8, <1>10 DEF GroupedUpTo
    <2>2. ASSUME NEW id \in 1..lastExec
          PROVE  execs'[id].trade # 0 \/ id \in IdsUsed(ToSet(Remaining)') <=> id \in IdsUsed(Made(Log', n))
        <3>1. execs[id].trade # 0 \/ id \in IdsUsed(ToSet(Remaining)) <=> id \in IdsUsed(Made(Log, n))
            BY <1>10 DEF GroupedUpTo
        <3>2. execs'[id].trade # 0 <=> id \in ids \/ execs[id].trade # 0  BY <1>2, <1>3, <1>7
        <3> QED  BY <1>6, <1>8, <3>1, <3>2
    <2> QED  BY <1>1, <2>1, <2>2 DEF GroupedUpTo
<1>11. ASSUME Orderly'
       PROVE  \E n \in 0..lastExec' : (import'.pc # "group" => n = lastExec') /\ GroupedUpTo(n)'
    <2>1. PICK n \in 0..lastExec : (import.pc # "group" => n = lastExec) /\ GroupedUpTo(n)
        BY <1>9, <1>11 DEF SplitInv
    <2>2. GroupedUpTo(n)'  BY <1>10, <2>1
    <2> QED  BY <1>1, <2>1, <2>2
<1> QED  BY <1>1, <1>7, <1>11 DEF SplitInv

\* The executions that no trade has are grouped as they would be with all others.
LEMMA SplitsAfterGroup ==
    ASSUME TablesHold, CountInv, SplitInv, GroupUngrouped
    PROVE  SplitInv'
<1> DEFINE made == GroupIntoTrades(ByTime(Ungrouped))
           X == ToSet(Log)
<1>1. /\ import.pc = "group" /\ import'.pc = "trade" /\ import'.left = made
      /\ UNCHANGED <<history, execs, trades, lastExec, rollbacks, faults>>
    BY DEF GroupUngrouped, TablesHold, counters
<1>2. RowsHold  BY DEF CountInv
<1>3. Log' = Log /\ (Orderly' <=> Orderly) /\ Done' = Done
    BY <1>1 DEF Log, Execution, Orderly, Chronological, Straight, Done
<1> SUFFICES ASSUME Orderly
             PROVE  GroupedUpTo(lastExec)'
    <2>1. lastExec \in 0..lastExec  BY <1>2 DEF RowsHold
    <2> QED  BY <1>1, <1>3, <2>1 DEF SplitInv
<1>4. DOMAIN execs = 1..lastExec  BY DEF SplitInv, Orderly
<1>5. PICK n \in 0..lastExec : GroupedUpTo(n)  BY DEF SplitInv
<1>6. /\ lastExec \in Nat /\ X \in SUBSET Executions /\ Log \in Seq(X) /\ Len(Log) = lastExec
      /\ DOMAIN Log = 1..lastExec /\ Distinct(Log)
    BY <1>2, <1>4, LogHolds
<1> HIDE DEF X
<1>7. Remaining = <<>> /\ Pending = <<>> /\ Remaining' = made /\ Pending' = made
    BY <1>1 DEF Remaining, Pending
<1>8. ToSet(<<>>) = {} /\ IdsUsed({}) = {}  BY DEF ToSet, IdsUsed
<1>9. Ungrouped = DOMAIN Log \ Settled(Log, n)
    <2>1. \A id \in 1..lastExec : execs[id].trade # 0 <=> id \in IdsUsed(Made(Log, n))
        BY <1>5, <1>7, <1>8 DEF GroupedUpTo
    <2>2. \A id \in 1..lastExec : id \in IdsUsed(Made(Log, n)) <=> id \in Settled(Log, n)
        BY <1>2, <1>4, IdsAreSettled
    <2> QED  BY <1>4, <1>6, <2>1, <2>2 DEF Ungrouped
<1>10. ByTime(Ungrouped) = Picked(Log, DOMAIN Log \ Settled(Log, n))
    <2>1. Ungrouped \in SUBSET (1..lastExec)  BY <1>4 DEF Ungrouped
    <2>2. ByTime(Ungrouped) = Picked(Log, Ungrouped)
        BY <1>2, <1>4, <2>1, TimeIsOrder DEF Orderly
    <2> QED  BY <1>9, <2>2
<1>11. Made(Log, lastExec) = Made(Log, n) \cup ToSet(made)
    <2>1. Straight(Log, Len(Log)) /\ n \in 0..Len(Log)  BY <1>6 DEF Orderly
    <2>2. Made(Log, Len(Log))
            = Made(Log, n) \cup ToSet(GroupIntoTrades(Picked(Log, DOMAIN Log \ Settled(Log, n))))
        BY <1>6, <2>1, GroupingInParts
    <2> QED  BY <1>6, <1>10, <2>2
<1> HIDE DEF made
<1>12. Done' \cup ToSet(Pending)' = Made(Log', lastExec)
    BY <1>3, <1>5, <1>7, <1>8, <1>11 DEF GroupedUpTo
<1>13. IdsUsed(Made(Log, lastExec)) = IdsUsed(Made(Log, n)) \cup IdsUsed(ToSet(made))
    BY <1>11 DEF IdsUsed
<1>14. \A id \in 1..lastExec :
          execs'[id].trade # 0 \/ id \in IdsUsed(ToSet(Remaining)') <=> id \in IdsUsed(Made(Log', lastExec))
    BY <1>1, <1>3, <1>5, <1>7, <1>8, <1>13 DEF GroupedUpTo
<1> QED  BY <1>1, <1>12, <1>14 DEF GroupedUpTo

\* New executions come after all others and are of no trade.
LEMMA SplitsAfterInsert ==
    ASSUME TablesHold, CountInv, RowsHold', SplitInv, InsertExecutions
    PROVE  SplitInv'
<1> DEFINE new == Rows(jobs[import.job].file) \ {execs[id].row : id \in DOMAIN execs}
           at  == [r \in new |-> r]
           row == InOrder(at)
           N   == Len(row)
           ids == (lastExec + 1)..(lastExec + N)
<1>0. RowsHold /\ lastExec \in Nat  BY DEF CountInv, RowsHold
<1>1. N \in Nat
    <2>1. new \in SUBSET (1..Len(history)) /\ Len(history) \in Nat
        BY <1>0 DEF Rows, RowsHold
    <2> HIDE DEF new
    <2>2. Numbers(at)  BY <2>1, PlacesNumber
    <2> HIDE DEF at
    <2>3. row \in Seq(DOMAIN at)  BY <2>2, InOrderSorts DEF Sorts
    <2> QED  BY <2>3
<1>2. /\ execs' = [id \in DOMAIN execs \cup ids |->
                      IF id \in ids THEN [row |-> row[id - lastExec], job |-> import.job, trade |-> 0]
                      ELSE execs[id]]
      /\ lastExec' = lastExec + N
      /\ import'.pc = "group" /\ import.pc = "insert"
      /\ UNCHANGED <<history, trades, rollbacks, faults>>
    BY DEF InsertExecutions, TablesHold, counters
<1> HIDE DEF row, N
<1> SUFFICES ASSUME rollbacks = 0 PROVE SplitInv'
    BY <1>2 DEF SplitInv, Orderly
<1>3. DOMAIN execs = 1..lastExec  BY DEF SplitInv
<1>4. DOMAIN execs' = 1..lastExec'
    <2>1. DOMAIN execs' = (1..lastExec) \cup ids  BY <1>2, <1>3
    <2> QED  BY <1>0, <1>1, <1>2, <2>1
<1>5. /\ \A id \in 1..lastExec : id \in DOMAIN execs' /\ execs'[id] = execs[id]
      /\ \A id \in 1..lastExec' : id \in 1..lastExec \/ execs'[id].trade = 0
      /\ \A id \in 1..lastExec : id \in 1..lastExec'
      /\ lastExec \in 0..lastExec'
    <2>1. \A id \in 1..lastExec : id \notin ids  BY <1>0
    <2>2. \A id \in 1..lastExec' : id \in 1..lastExec \/ id \in ids  BY <1>0, <1>1, <1>2
    <2>3. \A id \in 1..lastExec : id \in 1..lastExec'  BY <1>0, <1>1, <1>2
    <2>4. lastExec \in 0..lastExec'  BY <1>0, <1>1, <1>2
    <2> HIDE DEF ids
    <2> QED  BY <1>2, <1>3, <1>4, <2>1, <2>2, <2>3, <2>4
<1> HIDE DEF ids
<1>6. \A id \in 1..lastExec : Log'[id] = Log[id]
    <2> SUFFICES ASSUME NEW id \in 1..lastExec PROVE Log'[id] = Log[id]  OBVIOUS
    <2>1. Execution(id)' = Execution(id)  BY <1>2, <1>5 DEF Execution
    <2>2. Log'[id] = Execution(id)'  BY <1>5 DEF Log
    <2>3. Log[id] = Execution(id)  BY DEF Log
    <2> QED  BY <2>1, <2>2, <2>3
<1>7. /\ \A k \in 0..lastExec : Made(Log', k) = Made(Log, k)
      /\ Straight(Log', lastExec) <=> Straight(Log, lastExec)
    <2> DEFINE more == Log'
    <2>1. \A id \in 1..lastExec : more[id] = Log[id]  BY <1>6
    <2> HIDE DEF more
    <2>2. /\ \A k \in 0..lastExec : Made(more, k) = Made(Log, k)
          /\ Straight(more, lastExec) <=> Straight(Log, lastExec)
        BY <1>0, <2>1, SoFarTheSame
    <2> QED  BY <2>2 DEF more
<1>8. ASSUME Orderly' PROVE Orderly
    <2>1. Chronological
        <3>1. \A a, b \in DOMAIN execs' : a < b => execs'[a].row < execs'[b].row
            BY <1>8 DEF Orderly, Chronological
        <3> QED  BY <1>3, <1>5, <3>1 DEF Chronological
    <2>2. Straight(Log', lastExec')  BY <1>8 DEF Orderly
    <2>3. \A k \in 1..lastExec : k \in 1..lastExec'  BY <1>5
    <2>4. Straight(Log', lastExec)  BY <2>2, <2>3 DEF Straight
    <2> QED  BY <1>2, <1>7, <1>8, <2>1, <2>4 DEF Orderly
<1>9. ASSUME Orderly'
      PROVE  \E n \in 0..lastExec' : (import'.pc # "group" => n = lastExec') /\ GroupedUpTo(n)'
    <2>1. Orderly  BY <1>8, <1>9
    <2>2. PICK n \in 0..lastExec : (import.pc # "group" => n = lastExec) /\ GroupedUpTo(n)
        BY <2>1 DEF SplitInv
    <2>3. n \in 0..lastExec'  BY <1>0, <1>1, <1>2
    <2>4. Made(Log', n) = Made(Log, n)  BY <1>7
    <2>5. Done' = Done /\ Pending' = Pending /\ Remaining' = Remaining /\ Remaining = <<>>
        BY <1>2 DEF Done, Pending, Remaining
    <2>6. IdsUsed(ToSet(Remaining)) = {}  BY <2>5 DEF ToSet, IdsUsed
    <2>7. IdsUsed(Made(Log, n)) \subseteq 1..lastExec  BY <1>0, <1>3, IdsAreSettled
    <2>8. ASSUME NEW id \in 1..lastExec'
          PROVE  execs'[id].trade # 0 \/ id \in IdsUsed(ToSet(Remaining)')
                   <=> id \in IdsUsed(Made(Log', n))
        <3>1. CASE id \in 1..lastExec
            BY <1>5, <2>2, <2>4, <2>5, <3>1 DEF GroupedUpTo
        <3>2. CASE id \notin 1..lastExec
            BY <1>5, <2>4, <2>5, <2>6, <2>7, <3>2
        <3> QED  BY <3>1, <3>2
    <2>9. Done' \cup ToSet(Pending)' = Made(Log', n)
        BY <2>2, <2>4, <2>5 DEF GroupedUpTo
    <2>10. GroupedUpTo(n)'  BY <2>8, <2>9 DEF GroupedUpTo
    <2> QED  BY <1>2, <2>3, <2>10
<1> QED  BY <1>2, <1>4, <1>9 DEF SplitInv

\* A step that leaves the import's trades, or ends an import that has none.
LEMMA SplitsSurvive ==
    ASSUME SplitInv, UNCHANGED <<history, execs, lastExec, rollbacks, faults>>, Done' = Done,
           import'.pc = "group" <=> import.pc = "group",
           \/ import'.pc = import.pc /\ import'.left = import.left
           \/ /\ import.pc \notin {"trade", "link"} \/ (import.pc = "trade" /\ import.left = <<>>)
              /\ import'.pc \notin {"trade", "link"}
    PROVE  SplitInv'
<1>1. Pending' = Pending /\ Remaining' = Remaining  BY DEF Pending, Remaining
<1>2. Quiet  BY <1>1 DEF Quiet
<1> QED  BY <1>2, SplitsStay

LEMMA SplitsKept ==
    ASSUME TablesHold, CountInv, CountInv', SplitInv, [Next]_vars
    PROVE  SplitInv'
<1>0. /\ import = [pc |-> import.pc, job |-> import.job, left |-> import.left,
                   evals |-> import.evals]
      /\ trades' = trades => Done' = Done
    BY DEF TablesHold, Done
<1> USE <1>0 DEF counters, importVars
<1>1. CASE InsertExecutions  BY <1>1, SplitsAfterInsert DEF CountInv
<1>2. CASE GroupUngrouped  BY <1>2, SplitsAfterGroup
<1>3. CASE InsertTrade  BY <1>3, SplitsAfterTrade
<1>4. CASE LinkExecutions  BY <1>4, SplitsAfterLink
<1>5. CASE FinishJob  BY <1>5, SplitsSurvive DEF FinishJob
<1>6. CASE EvaluateDays  BY <1>6, SplitsSurvive DEF EvaluateDays, Evaluate
<1>7. CASE EndImport  BY <1>7, SplitsSurvive DEF EndImport, NoImport
<1>8. ASSUME NEW d \in Days, SaveDay(d) PROVE SplitInv'
    BY <1>8, SplitsSurvive DEF SaveDay
<1>9. ASSUME NEW d \in Days, RefusedDay(d) PROVE SplitInv'
    BY <1>9, SplitsSurvive DEF RefusedDay, NoImport
<1>10. CASE ImportDies
    <2>1. faults' = faults + 1 /\ faults \in Nat
          /\ UNCHANGED <<execs, lastExec, rollbacks>>
        BY <1>10 DEF ImportDies, SplitInv
    <2>2. ~ Orderly'  BY <2>1 DEF Orderly
    <2> QED  BY <2>1, <2>2 DEF SplitInv
<1>11. ASSUME NEW f \in Files, StartImport(f) PROVE SplitInv'
    BY <1>11, SplitsSurvive DEF StartImport, NoImport
<1>12. ASSUME NEW j \in DOMAIN jobs, Rollback(j) PROVE SplitInv'
    <2>1. rollbacks' = rollbacks + 1 /\ rollbacks \in Nat /\ faults' = faults
        BY <1>12 DEF Rollback, SplitInv
    <2>2. ~ Orderly'  BY <2>1 DEF Orderly
    <2> QED  BY <2>1, <2>2 DEF SplitInv
<1>13. ASSUME NEW r \in Rules, CreateRule(r) \/ ToggleRule(r) \/ DeleteRule(r)
       PROVE  SplitInv'
    BY <1>13, SplitsSurvive DEF CreateRule, ToggleRule, DeleteRule, RuleBecomes
<1>14. ASSUME NEW t \in DOMAIN trades, SaveJournal(t) PROVE SplitInv'
    BY <1>14, SplitsSurvive DEF SaveJournal
<1>15. ASSUME NEW t \in DOMAIN trades, NEW p \in Plans, EditPlan(t, p) PROVE SplitInv'
    <2>1. trades' = [trades EXCEPT ![t].plan = p]  BY <1>15 DEF EditPlan
    <2>2. /\ DOMAIN trades' = DOMAIN trades
          /\ \A u \in DOMAIN trades : trades'[u].trade = trades[u].trade
        BY <2>1 DEF TablesHold
    <2>3. Done' = Done  BY <2>2 DEF Done
    <2> QED  BY <1>15, <2>3, SplitsSurvive DEF EditPlan
<1>16. CASE SavePlan  BY <1>16, SplitsSurvive DEF SavePlan
<1>17. CASE UNCHANGED vars  BY <1>17, SplitsSurvive DEF vars
<1> QED
    BY <1>1, <1>2, <1>3, <1>4, <1>5, <1>6, <1>7, <1>8, <1>9, <1>10, <1>11, <1>12, <1>13,
       <1>14, <1>15, <1>16, <1>17
    DEF Next, Import

\* The inductive invariant behind split imports: unless a rollback, a crash or
\* an execution that turns a position over came in between, the trades there
\* are, with those the import has yet to insert, are the ones a grouping of the
\* executions so far closes, and the executions of these trades are the linked
\* ones (list_all_executions_for_account, link_executions_to_trade).
THEOREM SplitsAreKept == Spec => []SplitInv
<1>1. Init => SplitInv  BY SplitsStart
<1>2. TablesHold /\ CountInv /\ CountInv' /\ SplitInv /\ [Next]_vars => SplitInv'
    BY SplitsKept
<1>3. JournalInv => TablesHold  BY DEF JournalInv
<1> QED  BY <1>1, <1>2, <1>3, VerdictsHold, CountsAreKept, PTL DEF Spec

\* Files imported in the order of time, overlapping or not, in however many
\* imports, give exactly the trades that one file with everything would give
\* (run_import), unless some execution turned a position over.
THEOREM SplitsAgree == Spec => []SplitImportsAgree
<1>1. RowsHold /\ SplitInv => SplitImportsAgree  BY SplitsHold
<1>2. CountInv => RowsHold  BY DEF CountInv
<1> QED  BY <1>1, <1>2, CountsAreKept, SplitsAreKept, PTL
=============================================================================
