------------------------------- MODULE Salary -------------------------------
(***************************************************************************)
(* The pay read out of a description (src/utils/salary.py).  The regular   *)
(* expressions are external; what they find is a sequence of matches       *)
(*    [form, lo, hi, pos, end, money, context, budget]                     *)
(* in the order of the text: the form of the expression, the amounts (hi   *)
(* is None where the form has one amount), the place of the match, and     *)
(* whether it names a currency and stands near pay or budget wording.      *)
(* Hourly amounts are in cents, the others in dollars.                     *)
(***************************************************************************)
EXTENDS Integers, Sequences

CONSTANT None       \* no salary, no upper amount

ASSUME NoneAssumption == None \notin Int

Forms == {"hourly", "k_range_both", "k_range_one", "money_range", "k_single"}

YearlyMin == 20000
YearlyMax == 999999
HourlyMin == 725

PerYear == [yearly |-> 1, monthly |-> 12, weekly |-> 52, daily |-> 260, hourly |-> 2080]

Annualise(amount, period) == amount * PerYear[period]

\* Cents an hour in dollars a year, rounded: the fraction is never a half.
AnnualOfCents(cents) == (Annualise(cents, "hourly") + 50) \div 100

PlausibleYearly(lo, hi) == YearlyMin <= lo /\ lo <= hi /\ hi <= YearlyMax

Affordable(cents) == Annualise(cents, "hourly") <= 100 * YearlyMax

PlausibleHourly(lo, hi) ==
  /\ HourlyMin <= lo /\ Affordable(lo)
  /\ hi # None => lo <= hi /\ Affordable(hi)

InsideRange(ms, i) ==
  \E r \in DOMAIN ms : /\ ms[r].form \in {"k_range_both", "k_range_one"}
                       /\ ms[r].pos <= ms[i].pos /\ ms[i].pos < ms[r].end

\* The tests each form has to pass.
Plausible(ms, i) ==
  LET m == ms[i]
  IN  \/ m.form = "hourly" /\ PlausibleHourly(m.lo, m.hi)
      \/ /\ m.form \in {"k_range_both", "k_range_one"}
         /\ ~m.budget /\ PlausibleYearly(m.lo, m.hi)
      \/ /\ m.form = "money_range"
         /\ ~m.budget /\ (m.money \/ m.context) /\ PlausibleYearly(m.lo, m.hi)
      \/ /\ m.form = "k_single"
         /\ ~InsideRange(ms, i) /\ ~m.budget /\ m.context
         /\ YearlyMin <= m.lo /\ m.lo <= YearlyMax

Pay(m) ==
  IF m.form = "hourly"
    THEN [min |-> AnnualOfCents(m.lo), period |-> "hourly",
          max |-> IF m.hi = None THEN None ELSE AnnualOfCents(m.hi)]
    ELSE [min |-> m.lo, period |-> "yearly",
          max |-> IF m.form = "k_single" THEN None ELSE m.hi]

Rank == [hourly |-> 1, k_range_both |-> 2, k_range_one |-> 3, money_range |-> 4, k_single |-> 5]

\* The forms are tried one after the other, each over the whole text.
Sooner(ms, i, j) ==
  \/ Rank[ms[i].form] < Rank[ms[j].form]
  \/ ms[i].form = ms[j].form /\ i <= j

Best(ms, i) == Plausible(ms, i) /\ \A j \in DOMAIN ms : Plausible(ms, j) => Sooner(ms, i, j)

ExtractSalary(ms) ==
  IF \E i \in DOMAIN ms : Best(ms, i) THEN Pay(ms[CHOOSE i \in DOMAIN ms : Best(ms, i)]) ELSE None
=============================================================================
