SPECIFICATION Spec
SYMMETRY Symmetry
CONSTANTS
    Global = Global
    Cores = {c1, c2}
    HeapSize = 18
    kMinSlabClassShift = 1
    kMaxSlabClassShift = 3
    kMaxCacheSizeBytes = 7
    kMaxCacheEntries = 4
    Sizes = {0, 2, 5}
    AlignedSizes = {1}
    Alignment = 2
    MaxLive = 3
    MaxLibc = 1
    LibcSize = 5
INVARIANTS HeapTiled  
