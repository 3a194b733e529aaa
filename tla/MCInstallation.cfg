SPECIFICATION Spec
CONSTANTS
    f1 = f1  f2 = f2  f3 = f3  f4 = f4  b1 = b1  b2 = b2
    NaN = NaN  NoFile = NoFile  NoTable = NoTable  NoBundle = NoBundle  NoJob = NoJob  NoCount = NoCount
    File <- MCFile
    Labels <- MCLabels
    Malformed <- MCMalformed
    Key <- MCKey
    Bundle <- MCBundle
    Size <- MCSize
    Bundled <- MCBundled
    Upload <- MCUpload
    ChunkSize = 2
    SampleSize = 2
    MaxBlocks = 2
    MinRows = 2
INVARIANTS
    ServesBothTables
    UploadedRowsAreValid
PROPERTIES
    TablesReplacedWhole
    AnswersCountTables
