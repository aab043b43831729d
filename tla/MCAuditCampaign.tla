-------------------------- MODULE MCAuditCampaign --------------------------
EXTENDS AuditCampaign, TLC

\* Handlers differ in nothing, nor do auditors.
Symmetry == Permutations(Handlers) \cup Permutations(Auditors)
=============================================================================
