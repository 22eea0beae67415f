SPECIFICATION BrowserSpec
CONSTANTS
    SHIFT = 2
    Undefined = Undefined
    Item = {0}
    ListIndex <- MCListIndex
    ListSizes = {3, 18}
    MaxListSize = 19
    MaxListOps = 3
    NOT_SET = NOT_SET
    Key = {1, 2, 3, 4, 5, 6}
    Value = {0, 1}
    Hash <- MCHash
    FirstMaps <- MCFirstMaps
    MAX_ARRAY_MAP_SIZE = 2
    MAX_BITMAP_INDEXED_SIZE = 3
    MIN_HASH_ARRAY_MAP_SIZE = 3
    MaxMapOps = 3
    Present = Present
    OrderedKey = {1, 2, 3, 4, 5}
    OrderedValue = {0, 1}
    FirstOrdered <- MCFirstOrdered
    MaxOrdered = 2
    MaxOrderedOps = 6
    Tab = {t1, t2}
    Scheme = {"q", "o"}
    KindOf <- MCKindOf
    Credential = {"k1", "k2"}
    Document = {"A"}
    FirstStored <- MCFirstStored
    Corrupt = Corrupt
    MaxSpecOps = 4
INVARIANTS
    ListTypeOK
    ListKept
    ListIterates
    ListOwnersApart
    MapTypeOK
    MapKept
    MapIterates
    OrderedTypeOK
    OrderedKept
    UrlHasKeys
    ShownIsSaved
    StoredIsGranted
CHECK_DEADLOCK FALSE
