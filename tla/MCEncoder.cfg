SPECIFICATION FairSpec
CONSTANTS
    fragment = fragment
    refine1 = refine1
    refine2 = refine2
    dedup1 = dedup1
    dedup2 = dedup2
    compress = compress
    reorder = reorder
    toRefine1 = toRefine1
    toRefine2 = toRefine2
    toDedup1 = toDedup1
    toDedup2 = toDedup2
    toCompress = toCompress
    toReorder1 = toReorder1
    toReorder2 = toReorder2
    Encoders = {"default", "naive", "smart", "smart ahead", "fifo"}
    Fragmenter = fragment
    Refiners <- MCRefiners
    Dedupers <- MCDedupers
    Compressors <- MCCompressors
    Reorderer = reorder
    Inputs <- MCInputs
    Outputs <- MCOutputs
    Extras <- MCExtras
    Step <- MCStep
    Capacities = {1, 5}
    RowLimit = 2
    InitAnchors = 1
    File <- MCFile
    Anchors <- MCAnchors
    MaxBuf = 3
    AnchorJump = 0
INVARIANTS TypeOK FingerprintsFollowData NumbersAgree WaitedChunkIsOnItsWay
PROPERTIES ArraysSuffice ImplementsArchive EveryStageReturns
CHECK_DEADLOCK FALSE
