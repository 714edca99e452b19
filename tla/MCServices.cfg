SPECIFICATION MCSpec
CONSTANTS
    Parts = {"vq", "vsock", "tree", "file"}
    TreeCalls <- MCCalls
    Limits <- MCLimits
    Nodes = {0, 1, 2, 3, 4}
CHECK_DEADLOCK FALSE
INVARIANTS
    DescriptorsOwnedOnce
    BlocksMoved
    
    
    ReadsBack
