---------------------------- MODULE PolicyOrder ----------------------------
(***************************************************************************)
(* The order in which the planner serves jobs (internal/policy): a job is  *)
(* evaluated against the sizing plan and the quota, scored, and compared.  *)
(* Pure operators; the clock is their only changing argument.              *)
(*                                                                         *)
(* Coefficients have one decimal and are kept in tenths, so the score is   *)
(* in thousandths, which is what the code rounds it to.                    *)
(***************************************************************************)
EXTENDS Integers

CONSTANTS
  Week,          \* a week, in ticks of the clock
  InSizingPlan,  \* DevelopmentFacts: whether requests are in the sizing plan,
  QuotaGPUs,     \* the quota,
  UsedGPUs       \* and how much of it counts as used

ASSUME PolicyAssumption ==
  /\ Week \in Nat \ {0}
  /\ InSizingPlan \in BOOLEAN
  /\ QuotaGPUs \in Int /\ UsedGPUs \in Int

Importance == {"CRITICAL_SPECIAL", "VERY_IMPORTANT", "IMPORTANT", "NORMAL"}

(* A job as the policy sees it.  id stands for the order of the identifiers,
   necessity 5 for a job from before the levels existed.                     *)
Applicant == [id : Nat, created : Nat, necessity : 1..5, importance : Importance, count : Nat]

ImportanceCoefficient(importance) ==
  CASE importance = "CRITICAL_SPECIAL" -> 14
    [] importance = "VERY_IMPORTANT"   -> 12
    [] importance = "IMPORTANT"        -> 10
    [] OTHER                           -> 8

(* One more tenth for each full week, up to four; a clock that went back
   counts as no wait.                                                        *)
WaitingCoefficient_Recent(created, at) ==
  LET weeks == (at - created) \div Week
  IN 10 + (IF weeks \in 0..4 THEN weeks ELSE 0)
WaitingCoefficient(created, at) ==
  LET weeks == (at - created) \div Week
  IN 10 + (IF weeks < 0 THEN 0 ELSE IF weeks > 4 THEN 4 ELSE weeks)

WithinQuota(a) == a.count <= QuotaGPUs - UsedGPUs
AutoEligible(a) == InSizingPlan /\ WithinQuota(a)

AuxiliaryScore(a, at) ==
  ImportanceCoefficient(a.importance) * (IF WithinQuota(a) THEN 10 ELSE 8)
    * WaitingCoefficient(a.created, at)

(* Before: lane, necessity, score, age, identifier.                          *)
Before(a, b, at) ==
  \/ AutoEligible(a) /\ ~AutoEligible(b)
  \/ /\ AutoEligible(a) <=> AutoEligible(b)
     /\ \/ a.necessity < b.necessity
        \/ /\ a.necessity = b.necessity
           /\ \/ AuxiliaryScore(a, at) > AuxiliaryScore(b, at)
              \/ /\ AuxiliaryScore(a, at) = AuxiliaryScore(b, at)
                 /\ \/ a.created < b.created
                    \/ a.created = b.created /\ a.id < b.id
=============================================================================
