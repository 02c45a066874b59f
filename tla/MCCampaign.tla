---- MODULE MCCampaign ----
(* Small plans for CampaignServer.tla. *)
EXTENDS CampaignServer, TLC

CONSTANTS first, second, draft, repository

OneGoal == [c \in Campaigns |-> 1]
OneOutcome == {1}
NoOutcomeDependencies == [o \in Outcomes |-> {}]
AllOfOutcomeOne == [p \in Proposals |-> 1]
SecondAfterFirst == [p \in Proposals |-> IF p = second THEN {first} ELSE {}]
InRepository == [p \in Proposals |-> repository]
NoDependencies == [p \in Proposals |-> {}]
PlanOfBoth == [c \in Campaigns |-> <<first, second>>]
PlanOfOne == [c \in Campaigns |-> IF c = 1 THEN <<first, second>> ELSE <<first>>]
PlanOfFirst == [c \in Campaigns |-> <<first>>]
====
