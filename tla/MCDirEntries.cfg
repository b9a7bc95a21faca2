CONSTANTS
    Parent <- MCParent
    MaxChildren <- MCMaxChildren
SPECIFICATION Spec
INVARIANT EntriesMatchListing
\* Dir::entries returns (ok, err) or panics: its final states have no successor.
CHECK_DEADLOCK FALSE
