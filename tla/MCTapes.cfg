SPECIFICATION MCSpec
CONSTANT CoreSize <- CORE_SIZE
INVARIANT TypeOK
INVARIANT ChangedByteIsNoticed
INVARIANT CoreIsAsMeant
INVARIANT WholeTapeIsDumped
INVARIANT RunsStartAtOrigins
PROPERTY KeepsPromise
