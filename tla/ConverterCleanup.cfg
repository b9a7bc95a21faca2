\* docker2fl ends; its final states have no successor.
SPECIFICATION Spec
INVARIANT FailureLeavesNoArtifact
CHECK_DEADLOCK FALSE
