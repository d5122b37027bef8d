SPECIFICATION Spec
CONSTANTS
    Digests = {1, 2, 3}
    Lens = {0, 3, 5, 7}
    PageContent = 2
    TotalPages = 3
    MaxObjects = 2
INVARIANTS
    CacheSound
PROPERTIES
    ImplementsLru
