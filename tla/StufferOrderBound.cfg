SPECIFICATION Spec
CONSTANTS
    Hash <- MCHash
    ZeroHash = "zero"
    NoRoot = NoRoot
    Undecodable = Undecodable
    NoDigest = NoDigest
    Leaf <- MCLeaf
    Header <- MCHeader
    ChannelId = {0}
    MmrCommits <- MCMmrCommits
    TreeCommits <- MCTreeCommits
    LeafExtraOf <- MCLeafExtraOf
    ChannelRootOf <- MCChannelRootOf
    BeefyRoots = {"r1", "r2"}
    Submissions <- GenuineSubmissions
    TestSubmissions <- MCTestSubmissions
    ChannelRootInputs = {"m1", "m2"}
    MaxBeefyRootsKept = 2
    MaxBlocks = 5
INVARIANT
    OrderWithinBound
