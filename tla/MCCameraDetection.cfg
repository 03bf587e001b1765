SPECIFICATION FairSpec
CONSTANT MaxFrames = 4
INVARIANTS TypeOK FramesAccounted SlotIsNewest NoLostWakeup DestroyedUnused
PROPERTIES DeliversNewest ProgramEnds
