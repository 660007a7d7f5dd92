SPECIFICATION Spec
CHECK_DEADLOCK FALSE
CONSTANTS
    PAGE_NSIZES = 3
    Ranges <- MCRanges
    PAGE_SIZE = 32
    SizeofSlab = 8
    SizeofBufctl = 4
    SizeofPointer = 1
    SizeofRedzone = 1
    SLAB_MAX_ORDER = 2
    Buckets <- MCBuckets
    Caches <- MCCaches
    Sizes <- MCSizes
    Requests <- MCRequests
    MaxObjs = 2
    MaxHeld = 2
INVARIANTS
    SlabBooksBalance
    PagesHaveOneOwner
    BuddyMapsAgree
PROPERTIES
    ObjectsFit
