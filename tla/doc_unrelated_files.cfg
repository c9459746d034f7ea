SPECIFICATION DirectorySpec
CONSTANTS
    None = None
    Blanks <- SomeBlanks
    Names = {"a", "b", " b"}
    Depth = 2
    LinkTarget <- LinkedDirectory
    RemoteTrees <- LinkInTheWay
    LocalTrees <- DirectoryAndFile
    Operations <- UploadThere
    MaxOperations = 1
INVARIANTS
    LeavesUnrelatedUntouched
CHECK_DEADLOCK FALSE
