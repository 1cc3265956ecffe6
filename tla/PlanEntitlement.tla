----------------------------- MODULE PlanEntitlement -----------------------------
(***************************************************************************)
(* What plan governs an account of stapel-billing, and the credits that    *)
(* come with it: comp periods (extend_subscription), effective_plan(),     *)
(* check_entitlement() and the monthly plan bundles (src/services.py,      *)
(* src/entitlements.py, src/tasks.py), for one account.                    *)
(*                                                                         *)
(* The subscription row mirrors the provider and changes under everybody's *)
(* feet.  extend_subscription() looks at the windows there are, at the     *)
(* row, the catalogue and the clock outside any transaction, and writes    *)
(* what it decided later; the bundle sweep reads who is entitled in chunks *)
(* and grants row by row afterwards.                                       *)
(***************************************************************************)
EXTENDS Integers, Sequences, FiniteSets

CONSTANTS
  Plans,       \* slugs a row may carry
  Default,     \* Subscription.plan's field default
  Shipped,     \* STAPEL_BILLING["PLANS"] at first: a sequence, lowest tier first
  Bundled,     \* monthly_credits_included of each plan
  Keys,        \* entitlement keys
  Ceiling,     \* each plan's ceiling of each key, or Unlimited
  Unlimited,
  PeriodEnds,  \* when a paid period may end
  Operators,   \* calls of extend_subscription() under way at once
  Sweepers,    \* runs of grant_plan_bundles() under way at once
  Host,        \* who edits the local row
  Openings,    \* how --starts is given: "auto" stands for leaving it out
  Staffing,    \* bound: who acts in one behaviour, sets of the above
  PaidPlans,   \* plans the provider may report
  LocalPlans,  \* plans the host puts on a row that has no provider behind it
  Lengths,     \* days a window may be asked to last
  MonthLength, \* bound: days in a month
  MaxDay,      \* bound: the last day
  MaxComps,    \* bound: windows
  MaxFailures  \* bound: grants that fail for a reason of their own

NoPlan == "no plan"
None == "not read"
Idle == [plan |-> NoPlan]
UntilPeriodEnd == 0
Never == MaxDay + 1
Days == 0..MaxDay

ASSUME CatalogueAssumption ==
  /\ Default \in Plans /\ {NoPlan, None} \cap Plans = {}
  /\ Openings \subseteq {"auto", "now", "period_end"}
  /\ PaidPlans \cup LocalPlans \subseteq Plans /\ Shipped \in Seq(Plans)
  /\ Bundled \in [Plans -> Nat]
  /\ Unlimited \in Nat /\ Ceiling \in [Plans -> [Keys -> 0..Unlimited]]
\* "position in STAPEL_BILLING["PLANS"], lowest tier first": what a plan allows,
\* the ones above it allow.
ASSUME LadderAssumption ==
  \A i, j \in DOMAIN Shipped : i <= j =>
    \A key \in Keys : Ceiling[Shipped[i]][key] <= Ceiling[Shipped[j]][key]
ASSUME CalendarAssumption ==
  /\ {MonthLength, MaxDay, MaxComps, MaxFailures} \subseteq Nat /\ MonthLength > 0
  /\ Lengths \subseteq Nat \ {0} /\ PeriodEnds \subseteq Days

VARIABLES
  staff,     \* who acts in this behaviour
  day,
  ladder,    \* the plans configured, lowest tier first
  sub,       \* the Subscription row, as the provider last reported it
  comps,     \* CompPeriod, in order of creation
  bundles,   \* the bundles the sweep granted, in order of creation
  claims,    \* ProviderGrant of scope plan_bundle: <<plan, month>>
  desk,      \* what each operator has decided and not written yet
  sweep,     \* what each run of the sweep is about
  failures

account == <<comps, bundles, claims>>
vars == <<staff, day, ladder, sub, account, desk, sweep, failures>>

-------------------------------------------------------------------------------
(***************************************************************************)
(* Catalogue.                                                              *)
(***************************************************************************)

Configured(p) == \E i \in DOMAIN ladder : ladder[i] = p

\* plan_rank(): where the plan sits on the ladder; 0 for one that is not on it,
\* below all that are.
Rank(p) == IF Configured(p) THEN CHOOSE i \in DOMAIN ladder : ladder[i] = p ELSE 0

\* The statuses under which the row speaks for its plan.
Entitling == sub.granting

-------------------------------------------------------------------------------
(***************************************************************************)
(* Which plan governs.                                                     *)
(***************************************************************************)
\* revoked_at is empty and the window is not over.
Ahead(now) == {c \in DOMAIN comps : ~comps[c].revoked /\ comps[c].ends > now}
Open == {c \in Ahead(day) : comps[c].starts <= day}

Latest(C) == CHOOSE c \in C : \A d \in C : comps[d].ends <= comps[c].ends

\* Mutant of Best: one ORDER BY -ends_at.
LongestRunning(C) == Latest(C)

\* governing_comp_period(): the highest plan, of one plan the longest.
Best(C) ==
  Latest({c \in C : \A d \in C : Rank(comps[d].plan) <= Rank(comps[c].plan)})

\* comp_plan_for_user()
CompPlan == IF Open = {} THEN NoPlan ELSE comps[Best(Open)].plan

\* max() of two candidates, the first of equals.
Higher(p, q) == IF Rank(q) > Rank(p) THEN q ELSE p

\* effective_plan(): the higher of what the provider's row entitles to and an
\* open window; the default plan without either.
EffectivePlan ==
  CASE Entitling /\ CompPlan # NoPlan -> Higher(sub.plan, CompPlan)
    [] Entitling /\ CompPlan = NoPlan -> sub.plan
    [] ~Entitling /\ CompPlan # NoPlan -> CompPlan
    [] OTHER -> Default

\* check_entitlement() of a plan: one the catalogue does not carry allows
\* nothing.  A switch is a ceiling of 0 or none, an absent key has none.
Allows(p, key, quantity) == Configured(p) /\ quantity <= Ceiling[p][key]

-------------------------------------------------------------------------------
Init ==
  /\ staff \in Staffing /\ day = 0 /\ ladder = Shipped
  /\ sub = [plan |-> Default, granting |-> TRUE, stripe |-> FALSE, ends |-> 0]
  /\ comps = <<>> /\ bundles = <<>> /\ claims = {}
  /\ desk = [o \in Operators |-> Idle]
  /\ sweep = [s \in Sweepers |-> Idle]
  /\ failures = 0

Tick ==
  /\ day < MaxDay /\ day' = day + 1
  /\ UNCHANGED <<staff, ladder, sub, account, desk, sweep, failures>>

\* The host takes a plan it still has subscribers on out of its configuration.
Retire(i) ==
  /\ ladder[i] # Default /\ ladder = Shipped
  /\ ladder' = SubSeq(ladder, 1, i - 1) \o SubSeq(ladder, i + 1, Len(ladder))
  /\ UNCHANGED <<staff, day, sub, account, desk, sweep, failures>>

\* A handled event or a reconciliation writes the row, and announces the plan it
\* wrote (_announce_subscription).
MirrorProvider(plan, granting, ends) ==
  /\ sub' = [plan |-> plan, granting |-> granting, stripe |-> TRUE, ends |-> ends]
  /\ sub' # sub /\ (sub.stripe => ends >= sub.ends)
  /\ UNCHANGED <<staff, day, ladder, account, desk, sweep, failures>>

\* The host keeps plan membership on the local row itself.
EditPlan(plan, granting) ==
  /\ ~sub.stripe
  /\ sub' = [sub EXCEPT !.plan = plan, !.granting = granting] /\ sub' # sub
  /\ UNCHANGED <<staff, day, ladder, account, desk, sweep, failures>>

-------------------------------------------------------------------------------
(***************************************************************************)
(* extend_subscription()                                                   *)
(***************************************************************************)
Baseline == IF Entitling THEN sub.plan ELSE Default

IsUpgrade(plan) == Entitling /\ Configured(plan) /\ Rank(plan) > Rank(Baseline)

\* latest_comp_period() looks for windows open or pending.
Existing == Ahead(day)

\* Mutant of OpensAt: what is not an upgrade opens when the paid period closes.
OpensAtPaidEnd(plan, starts) ==
  IF starts = "now" \/ (starts = "auto" /\ IsUpgrade(plan)) \/ sub.ends <= day
    THEN day ELSE sub.ends

\* When the window opens: an upgrade now, anything else when the last window
\* there is, or else the paid period, closes.
OpensAt(plan, starts) ==
  CASE starts = "now" \/ (starts = "auto" /\ IsUpgrade(plan)) -> day
    [] OTHER -> IF Existing # {} THEN comps[Latest(Existing)].ends
                ELSE IF sub.ends > day THEN sub.ends ELSE day

\* Mutant of CompBundleIsLive: the per-window key is taken to be enough.
CompBundleNeverLive == FALSE

\* _comp_bundle_is_live()
CompBundleIsLive == \E c \in DOMAIN comps : comps[c].credits > 0 /\ comps[c].ends > day

\* Credits of the plan over those of the plan being paid for, at most once.
BundleCredits(plan) ==
  LET before == IF Configured(Baseline) THEN Bundled[Baseline] ELSE 0
  IN  IF CompBundleIsLive \/ Bundled[plan] <= before THEN 0 ELSE Bundled[plan] - before

\* "Refuses to stack silently".
Refused(stack) == Existing # {} /\ ~stack

\* Everything up to the transaction: checks, window, credits.  The command's
\* --until-period-end ends the window where the row says the paid period does.
\* paid, first: history, the end of the paid period as it was read, and whether
\* no window was found to wait for.
Decide(o, plan, starts, length, stack, bundle) ==
  LET opens == OpensAt(plan, starts)
      ends == IF length = UntilPeriodEnd THEN sub.ends ELSE opens + length
  IN  /\ desk[o] = Idle
      /\ plan # Default /\ Configured(plan) /\ ~Refused(stack)
      /\ ends > opens /\ (length = UntilPeriodEnd => ends > day)
      /\ desk' = [desk EXCEPT ![o] =
           [plan |-> plan, starts |-> opens, ends |-> ends, stack |-> stack,
            carry |-> ~(starts = "now" \/ (starts = "auto" /\ IsUpgrade(plan))),
            paid |-> sub.ends, first |-> Existing = {},
            credits |-> IF bundle THEN BundleCredits(plan) ELSE 0]]
      /\ UNCHANGED <<staff, day, ladder, sub, account, sweep, failures>>

\* The transaction: the window, its credits in a lot that ends with it, and the
\* announcement, or none of them when the credits would be dead by now.  atop:
\* history, the windows it came on top of.
Write(o) ==
  LET d == desk[o]
  IN  /\ d # Idle /\ desk' = [desk EXCEPT ![o] = Idle]
      /\ Len(comps) < MaxComps
      /\ comps' = IF d.credits > 0 /\ d.ends <= day THEN comps
                  ELSE Append(comps,
                    [plan |-> d.plan, starts |-> d.starts, ends |-> d.ends,
                     stack |-> d.stack, carry |-> d.carry, paid |-> d.paid,
                     first |-> d.first, credits |-> d.credits,
                     revoked |-> FALSE, atop |-> Ahead(day)])
      /\ UNCHANGED <<staff, day, ladder, sub, bundles, claims, sweep, failures>>

\* The admin form: revoked_at is the one field of a window that can be edited.
Revoke(c) ==
  /\ ~comps[c].revoked /\ comps' = [comps EXCEPT ![c].revoked = TRUE]
  /\ UNCHANGED <<staff, day, ladder, sub, bundles, claims, desk, sweep, failures>>

-------------------------------------------------------------------------------
(***************************************************************************)
(* grant_plan_bundles()                                                    *)
(***************************************************************************)

\* current_period_key()
Month(d) == d \div MonthLength

\* Mutant of MonthEnd: the end of the next month.
NextMonthEnd(m) == (m + 2) * MonthLength

\* _month_bounds()
MonthEnd(m) == (m + 1) * MonthLength

\* default_plan_bundle_entitlements(): the plan of a row that entitles and is
\* not the provider's to grant; the default plan of an account with neither.
LocalPlan ==
  CASE Entitling /\ sub.stripe -> NoPlan
    [] Entitling /\ ~sub.stripe -> sub.plan
    [] OTHER -> Default

\* A plan of the catalogue that comes with credits.
Bundles(p) == p # NoPlan /\ Configured(p) /\ Bundled[p] > 0

\* The period is fixed when the run starts ...
BeginSweep(s) ==
  /\ sweep[s] = Idle
  /\ sweep' = [sweep EXCEPT ![s] = [plan |-> None, month |-> Month(day)]]
  /\ UNCHANGED <<staff, day, ladder, sub, account, desk, failures>>

\* ... the account is read with its chunk: nothing to grant, on to the next ...
Resolve(s) ==
  /\ sweep[s] # Idle /\ sweep[s].plan = None
  /\ sweep' = [sweep EXCEPT ![s] =
       IF Bundles(LocalPlan) THEN [@ EXCEPT !.plan = LocalPlan] ELSE Idle]
  /\ UNCHANGED <<staff, day, ladder, sub, account, desk, failures>>

\* Mutant of Claimable: a claim is looked for by its month alone.
ClaimableByMonth(plan, month) == \A c \in claims : c[2] # month

\* claim_provider_object(): one per wallet, plan and period.
Claimable(plan, month) == <<plan, month>> \notin claims

\* ... and grant_plan_bundle() claims the period and credits it, or does
\* neither: for a plan gone from the catalogue, for a month that is over.
GrantBundle(s) ==
  LET p == sweep[s].plan
      m == sweep[s].month
  IN  /\ sweep[s] # Idle /\ p # None
      /\ sweep' = [sweep EXCEPT ![s] = Idle]
      /\ UNCHANGED <<staff, day, ladder, sub, comps, desk, failures>>
      /\ IF Bundles(p) /\ MonthEnd(m) > day /\ Claimable(p, m)
           THEN /\ claims' = claims \cup {<<p, m>>}
                /\ bundles' = Append(bundles,
                     [plan |-> p, credits |-> Bundled[p], ends |-> MonthEnd(m)])
           ELSE UNCHANGED <<bundles, claims>>

\* The exception of one account is logged; the sweep goes on without it.
FailToGrant(s) ==
  /\ sweep[s] # Idle /\ sweep[s].plan # None /\ failures < MaxFailures
  /\ failures' = failures + 1
  /\ sweep' = [sweep EXCEPT ![s] = Idle]
  /\ UNCHANGED <<staff, day, ladder, sub, account, desk>>

Sweep(s) == BeginSweep(s) \/ Resolve(s) \/ GrantBundle(s) \/ FailToGrant(s)

-------------------------------------------------------------------------------
Extend(o) ==
  \/ Write(o)
  \/ \E plan \in Plans, starts \in Openings,
        length \in Lengths \cup {UntilPeriodEnd}, stack \in BOOLEAN, bundle \in BOOLEAN :
       Decide(o, plan, starts, length, stack, bundle)

Outside ==
  \/ Tick
  \/ \E i \in DOMAIN ladder : Retire(i)
  \/ \E p \in PaidPlans, granting \in BOOLEAN, ends \in PeriodEnds :
       MirrorProvider(p, granting, ends)
  \/ \E p \in LocalPlans, granting \in BOOLEAN : Host \in staff /\ EditPlan(p, granting)

Next ==
  \/ Outside
  \/ \E o \in Operators \cap staff : Extend(o)
  \/ \E c \in DOMAIN comps : Revoke(c)
  \/ \E s \in Sweepers \cap staff : Sweep(s)

Spec == Init /\ [][Next]_vars

\* The beat runs the sweep every day and a run comes to its end.
FairSpec == Spec /\ \A s \in Sweepers : WF_vars(s \in staff /\ Sweep(s))

-------------------------------------------------------------------------------
Comp == [plan : Plans, starts : Nat, ends : Nat, stack : BOOLEAN, carry : BOOLEAN,
         paid : Nat, first : BOOLEAN, credits : Nat, revoked : BOOLEAN,
         atop : SUBSET (1..MaxComps)]
Bundle == [plan : Plans, credits : Nat \ {0}, ends : Nat]

\* Types; a window is never empty and a bundle is never of a plan without one.
TypeOK ==
  /\ day \in Days /\ ladder \in Seq(Plans)
  /\ sub \in [plan : Plans, granting : BOOLEAN, stripe : BOOLEAN, ends : PeriodEnds \cup {0}]
  /\ comps \in Seq(Comp) /\ \A c \in DOMAIN comps : comps[c].starts < comps[c].ends
  /\ bundles \in Seq(Bundle) /\ claims \subseteq Plans \X Nat
  /\ failures \in 0..MaxFailures

\* Whatever the provider pays for and whatever was given on top, of open windows
\* that overlap, of plans retired in the meantime: what one of them allows the
\* account may do (effective_plan, governing_comp_period, check_entitlement).
WhatWasGivenIsAllowed ==
  \A p \in {comps[c].plan : c \in Open} \cup {q \in {sub.plan} : Entitling} :
    \A key \in Keys, quantity \in 1..Unlimited :
      Allows(p, key, quantity) => Allows(EffectivePlan, key, quantity)

\* A carry adds its days to what it waits for: none of them run beside days of
\* the windows it came on top of, nor, where it found no window to wait for, in
\* the paid period it read (extend_subscription; one operator at a time).  Of a
\* carry that waits for windows and the paid period see NothingUnderneath.
CarriedDaysAdd ==
  \A c \in DOMAIN comps : comps[c].carry =>
    /\ \A d \in comps[c].atop : comps[c].starts >= comps[d].ends
    /\ comps[c].first => comps[c].starts >= comps[c].paid

\* "granted at most once while such a lot is still live": no two comp bundles
\* can be spent at once (one operator at a time).
OneCompBundle ==
  \A c, d \in DOMAIN comps :
    /\ comps[c].credits > 0 /\ comps[d].credits > 0
    /\ comps[c].ends > day /\ comps[d].ends > day
    => c = d

\* "a bundle that belongs to a period must die with it, or a free tier quietly
\* becomes a growing balance nobody sold": of one plan there is one bundle to
\* spend, whichever runs of the sweep crossed the end of the month.
OneLiveBundle ==
  \A i, j \in DOMAIN bundles :
    /\ bundles[i].plan = bundles[j].plan
    /\ bundles[i].ends > day /\ bundles[j].ends > day
    => i = j

\* The month's bundle reaches every account that stays on a plan with one,
\* whichever grants fail and whichever runs began in the month before: the daily
\* sweep gets to it (grant_plan_bundles).
EveryMonthGranted ==
  \A p \in Plans :
    <>[](LocalPlan = p /\ Bundles(p) /\ Sweepers \cap staff # {})
      => <>[](<<p, Month(day)>> \in claims)

-------------------------------------------------------------------------------
(***************************************************************************)
(* What the documentation says and the code does not do (see the README).  *)
(***************************************************************************)

\* "comp time must never grow by accident": a window that came on top of another,
\* open or pending, was asked to.  It holds for one operator at a time.
NoSilentStack ==
  \A c \in DOMAIN comps : comps[c].atop # {} => comps[c].stack

\* CompPeriod: "it is honoured by ``entitlements`` only while the subscription
\* itself is not entitling - the paid plan governs whenever there is one".
PaidPlanGoverns == sub.stripe /\ Entitling => EffectivePlan = sub.plan

\* extend_subscription(), of a carry: "The window opens when the paid-for one
\* closes, so comp days are added to the customer's service rather than spent
\* underneath a period they already paid for".
NothingUnderneath ==
  \A c \in DOMAIN comps : comps[c].carry => comps[c].starts >= comps[c].paid

\* _announce_comp(): "The payload's plan is the effective plan, because that is
\* the one a consumer gates on".
ToldWhatGoverns ==
  [][\A p \in PaidPlans, granting \in BOOLEAN, ends \in PeriodEnds :
       MirrorProvider(p, granting, ends) => EffectivePlan' = p]_vars

\* default_plan_bundle_entitlements(): "the provider's invoices grant the bundle
\* and granting again here would double it".
NeverDoubled ==
  [][\A s \in Sweepers : GrantBundle(s) /\ bundles' # bundles => LocalPlan # NoPlan]_vars

===============================================================================
