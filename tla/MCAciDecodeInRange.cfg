\* Aci::new on flists whose ids fit the width of Aci.user and Aci.group.
CONSTANTS
    IdBits <- MCIdBits
    StoredIds <- MCInRangeIds
    AccountIds <- MCAccountIds
SPECIFICATION Spec
INVARIANT AciKeepsIds
\* Aci::new returns after one step.
CHECK_DEADLOCK FALSE
