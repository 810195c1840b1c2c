CONSTANTS
    File = {f1}
    Large = {}
    Post = {p1}
    PostOf <- MCPostOf
    Offers <- MCOffers
    AutoWorker = {auto}
    ManualWorker = {manual}
    CwdIsBase = TRUE
    Faults = TRUE
SPECIFICATION LiveSpec
INVARIANTS
    TypeOK
    SharedFilesHaveBlobs
    NoFileIsForgotten
PROPERTIES
    WantedFileArrives
