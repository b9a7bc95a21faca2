CONSTANTS
    IdBits <- MCIdBits
    StoredIds <- MCStoredIds
    AccountIds <- MCAccountIds
SPECIFICATION Spec
INVARIANT AciKeepsIds
\* Aci::new returns after one step.
CHECK_DEADLOCK FALSE
