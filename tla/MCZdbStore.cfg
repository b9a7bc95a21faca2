CONSTANTS
    c1 = c1
    c2 = c2
    c3 = c3
    k1 = k1
    b1 = b1
    Empty = Empty
    Nil = Nil
    NoNs = NoNs
    NoClient = NoClient
    Clients <- MCClients
    Keys <- MCKeys
    Blobs <- MCBlobs
    ServerNamespaces <- MCServerNamespaces
    Urls <- MCUrls
    PoolMax = 2
    MaxRestarts = 1
SPECIFICATION Spec
SYMMETRY MCSymmetry
INVARIANT NamespaceIsolation
PROPERTY ImplementsKVStore
