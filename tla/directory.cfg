SPECIFICATION DirectorySpec
CONSTANTS
    None = None
    Blanks <- SomeBlanks
    Names = {"a", "b", " b"}
    Depth = 3
    LinkTarget <- Link
    RemoteTrees <- SomeRemoteTrees
    LocalTrees <- SomeLocalTrees
    Operations <- SomeOperations
    MaxOperations = 2
INVARIANTS
    DirectoryTypeOK
    ListingIsFaithful
    ActsWhereListed
    ChangesOnlyItsOwn
    ReturnsHome
    SuccessIsComplete
CHECK_DEADLOCK FALSE
