CONSTANTS
    CHDIR_CACHE_SIZE = 2
    Inputs <- MCMain
SPECIFICATION Spec
INVARIANTS
    RightDirectory
    DescriptorsSound
