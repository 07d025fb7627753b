---------------------------- MODULE MCLocalImport ----------------------------
EXTENDS LocalImport

CONSTANTS plan1, plan2

OnePlan == <<plan1>>
TwoPlans == <<plan1, plan2>>

=============================================================================
