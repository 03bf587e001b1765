SPECIFICATION SelectionSpec
CONSTANTS
    ClassCount <- MCClassCount
    MaxEvents = 2
INVARIANTS IdsInRange OnlySelectedShown
