---------------------------- MODULE Installation ----------------------------
(***************************************************************************)
(* How the analytical tables come to be in the database: the prebuilt      *)
(* bundle of src/scripts/bootstrap_data.py, the ingestion of the two       *)
(* sources by src/tools/data_loader.py at the first start (lifespan) and   *)
(* on POST /ingest (src/api/main.py), chunk by chunk into a staging table  *)
(* that is then published, and the uploads that have tables of the same    *)
(* names in their own schemas. The process may be killed between any two   *)
(* statements. /ingest awaits nothing: no other request of the event loop, *)
(* an upload or a second /ingest, runs until it has answered.              *)
(***************************************************************************)
EXTENDS ImportMapping, FiniteSets

CONSTANTS
    File,          \* the contents a source file can have
    Labels,        \* Labels[f]: the labels of the rows of f, 1, 0 or another number
    Malformed,     \* the files without the required columns
    Key,           \* Key[n]: the n-th number random.default_rng(seed) draws
    ChunkSize,     \* chunksize
    SampleSize,    \* normal_sample_size
    Bundle,        \* the databases the bundle's URL can serve
    Size,          \* Size[b]: its size in blocks
    Bundled,       \* Bundled[b]: its tables, of which some may be missing
    MaxBlocks,     \* MAX_DATABASE_BYTES in blocks
    Upload,        \* the files users upload
    NoFile, NoTable, NoBundle, NoJob, NoCount

Table == {"transactions", "saml_knowledge"}

ASSUME FileAssumption == Labels \in [File -> Seq(0..2)] /\ NoFile \notin File
\* What pandas makes of the cells of an upload.
ASSUME UploadAssumption ==
    \A u \in Upload : \A i \in DOMAIN u.rows : \A c \in DOMAIN u.rows[i] :
        u.rows[i][c].number \in Int \cup {NaN}
ASSUME BundleAssumption == \A b \in Bundle : Bundled[b] = [t \in Table |-> Bundled[b][t]]
ASSUME SizeAssumption == ChunkSize \in Nat \ {0} /\ SampleSize \in Nat
\* The keys of two rows are different: 53 random bits each.
ASSUME KeyAssumption ==
    \A f \in File : \A m, n \in 1..Len(Labels[f]) :
        Key[m] \in Nat /\ (Key[m] = Key[n] => m = n)

VARIABLES
    deployed,  \* "render": the start command verifies or downloads a database first; "direct"
    expected,  \* the bundle DATA_BUNDLE_SHA256 is the checksum of, or NoBundle
    source,    \* source[t]: the content of the file t is ingested from, or NoFile
    phase,     \* of the process: "down", "bootstrap", "download", "startup" or "up"
    download,  \* the .download file: which bundle and how many blocks of it, or NoFile
    disk,      \* the database file exists
    live,      \* live[t]: table t of schema main
    staging,   \* staging[t]: the rows of t's staging table
    uploads,   \* uploads[t]: the rows of the table t of an upload's schema
    job,       \* the ingestion that is running
    counts,    \* the counts it has so far
    answer     \* what the last /ingest answered, until the next one

vars == <<deployed, expected, source, phase, download, disk, live, staging, uploads, job, counts, answer>>
setting == <<deployed, expected>>

NoTables == [t \in Table |-> NoTable]
NoCounts == [t \in Table |-> NoCount]

Init ==
    /\ deployed \in {"render", "direct"}
    /\ expected \in (IF deployed = "render" THEN Bundle \cup {NoBundle} ELSE {NoBundle})
    /\ source = [t \in Table |-> NoFile]
    /\ phase = "down"
    /\ download = NoFile
    /\ disk = FALSE
    /\ live = NoTables /\ staging = NoTables /\ uploads = NoTables
    /\ job = NoJob
    /\ counts = NoCounts /\ answer = NoCounts

-----------------------------------------------------------------------------
(* The process and its first database. *)

StartProcess ==
    /\ phase = "down"
    /\ phase' = IF deployed = "render" THEN "bootstrap" ELSE "startup"
    /\ UNCHANGED <<setting, source, download, disk, live, staging, uploads, job, counts, answer>>

\* main of bootstrap_data, the database is there: both tables must be in schema main.
VerifyDatabase ==
    /\ phase = "bootstrap" /\ disk
    /\ phase' = IF \A t \in Table : live[t] # NoTable THEN "startup" ELSE "down"
    /\ UNCHANGED <<setting, source, download, disk, live, staging, uploads, job, counts, answer>>

\* The database is not there: without URL and checksum the program ends, with
\* them the download starts over, whatever an earlier one has left.
BeginDownload ==
    /\ phase = "bootstrap" /\ ~disk
    /\ \/ expected = NoBundle /\ phase' = "down" /\ UNCHANGED download
       \/ /\ expected # NoBundle
          /\ phase' = "download"
          /\ \E b \in Bundle : download' = [bundle |-> b, blocks |-> 0]
    /\ UNCHANGED <<setting, source, disk, live, staging, uploads, job, counts, answer>>

ReceiveBlock ==
    /\ phase = "download"
    /\ download.blocks < Size[download.bundle]
    /\ download.blocks < MaxBlocks
    /\ download' = [download EXCEPT !.blocks = @ + 1]
    /\ UNCHANGED <<setting, source, phase, disk, live, staging, uploads, job, counts, answer>>

\* A block too many, a network error, a wrong checksum, a missing table: the
\* program ends with an exception and the temporary file is unlinked.
AbandonDownload ==
    /\ phase = "download"
    /\ phase' = "down"
    /\ download' = NoFile
    /\ UNCHANGED <<setting, source, disk, live, staging, uploads, job, counts, answer>>

\* The checksum is that of the blocks written, which a body that ended early
\* does not have.
Checksummed == download.bundle = expected /\ download.blocks = Size[download.bundle]

\* Mutant: the tables of the bundle are not verified.
InstallUnverified ==
    /\ phase = "download"
    /\ Checksummed
    /\ phase' = "startup"
    /\ download' = NoFile
    /\ disk' = TRUE
    /\ live' = Bundled[download.bundle]
    /\ UNCHANGED <<setting, source, staging, uploads, job, counts, answer>>

InstallDownload ==
    /\ phase = "download"
    /\ Checksummed
    /\ \A t \in Table : Bundled[download.bundle][t] # NoTable
    /\ phase' = "startup"
    /\ download' = NoFile
    /\ disk' = TRUE
    /\ live' = Bundled[download.bundle]
    /\ UNCHANGED <<setting, source, staging, uploads, job, counts, answer>>

-----------------------------------------------------------------------------
(* Ingestion. *)

Opened(t, force) ==
    [table |-> t, stage |-> "open", force |-> force, file |-> NoFile, at |-> 0, drawn |-> 0,
     positives |-> {}, reservoir |-> {}]

\* Both sources are ingested by a start that finds no database.
BeginStartupIngest ==
    /\ phase = "startup" /\ job = NoJob
    /\ ~disk
    /\ \A t \in Table : source[t] # NoFile
    /\ job' = Opened("transactions", FALSE)
    /\ disk' = TRUE
    /\ UNCHANGED <<setting, source, phase, download, live, staging, uploads, counts, answer>>

\* The rest of lifespan opens the database, and so creates its file.
FinishStartup ==
    /\ phase = "startup" /\ job = NoJob
    /\ disk \/ \E t \in Table : source[t] = NoFile
    /\ phase' = "up"
    /\ disk' = TRUE
    /\ UNCHANGED <<setting, source, download, live, staging, uploads, job, counts, answer>>

BeginIngest ==
    /\ phase = "up" /\ job = NoJob
    /\ \E force \in BOOLEAN : job' = Opened("transactions", force)
    /\ counts' = NoCounts /\ answer' = NoCounts
    /\ UNCHANGED <<setting, source, phase, download, disk, live, staging, uploads>>

\* The ingestion of job.table raises: except drops the staging table, unless
\* that fails too, and the caller goes without the other table.
Raise ==
    /\ job' = NoJob
    /\ counts' = NoCounts
    /\ \/ staging' = [staging EXCEPT ![job.table] = NoTable]
       \/ UNCHANGED staging
    /\ UNCHANGED <<live, answer>>

\* The ingestion of job.table returns n: the other table is next, or /ingest answers.
Return(n) ==
    IF job.table = "transactions"
    THEN /\ job' = Opened("saml_knowledge", job.force)
         /\ counts' = [counts EXCEPT !["transactions"] = n]
         /\ UNCHANGED answer
    ELSE /\ job' = NoJob
         /\ counts' = NoCounts
         /\ answer' = IF phase = "up" THEN [counts EXCEPT !["saml_knowledge"] = n] ELSE answer

\* _table_exists asks by name, whatever the schema.
TableExists(t) == live[t] # NoTable \/ uploads[t] # NoTable

\* Mutant: the rows of the first table of that name are counted.
SkipCountingAny(t) ==
    /\ TableExists(t) /\ ~job.force
    /\ \/ /\ uploads[t] # NoTable
          /\ Return(Len(uploads[t])) /\ UNCHANGED <<live, staging>>
       \/ /\ uploads[t] = NoTable
          /\ Return(Cardinality(live[t].rows)) /\ UNCHANGED <<live, staging>>

\* A table that exists is not ingested: the rows of schema main's are counted,
\* which fails where only an upload has a table of that name.
Skip(t) ==
    /\ TableExists(t) /\ ~job.force
    /\ \/ live[t] # NoTable /\ Return(Cardinality(live[t].rows)) /\ UNCHANGED <<live, staging>>
       \/ live[t] = NoTable /\ Raise

\* Reading starts; the transactions have a staging table from the start.
BeginScan(t) ==
    /\ ~TableExists(t) \/ job.force
    /\ job' = [job EXCEPT !.stage = "scan", !.file = source[t]]
    /\ staging' = IF t = "transactions"
                  THEN [staging EXCEPT ![t] = [file |-> source[t], rows |-> {}]]
                  ELSE staging
    /\ UNCHANGED <<live, counts, answer>>

OpenSource ==
    LET t == job.table
    IN  /\ job # NoJob /\ job.stage = "open"
        /\ \/ source[t] = NoFile /\ Raise /\ staging' = staging
           \/ source[t] # NoFile /\ (Skip(t) \/ BeginScan(t))
        /\ UNCHANGED <<setting, source, phase, download, disk, uploads>>

-----------------------------------------------------------------------------

Rows(f) == DOMAIN Labels[f]
Positives(f) == {i \in Rows(f) : Labels[f][i] = 1}
Normals(f) == {i \in Rows(f) : Labels[f][i] = 0}

\* The next chunk of the file that is read.
Chunk == {i \in Rows(job.file) : job.at < i /\ i <= job.at + ChunkSize}

\* The normal rows of R with their keys, drawn in the order of the rows after d others.
Keyed(f, R, d) ==
    {[row |-> i, key |-> Key[d + Cardinality({j \in R \cap Normals(f) : j <= i})]] :
        i \in R \cap Normals(f)}

\* nsmallest(SampleSize): S is what it makes of C.
Smallest(S, C) ==
    /\ S \subseteq C
    /\ Cardinality(S) = IF Cardinality(C) <= SampleSize THEN Cardinality(C) ELSE SampleSize
    /\ \A x \in S, y \in C \ S : x.key < y.key

\* One chunk of the transactions is normalised and inserted.
ScanTransactions ==
    /\ job.table = "transactions"
    /\ staging' = [staging EXCEPT !["transactions"] = [file |-> job.file, rows |-> @.rows \cup Chunk]]
    /\ job' = [job EXCEPT !.at = @ + Cardinality(Chunk)]

\* Mutant: the sample of every chunk is the sample so far.
ScanSamlForgetting ==
    /\ job.table = "saml_knowledge"
    /\ \E S \in SUBSET Keyed(job.file, Chunk, job.drawn) :
        /\ Smallest(S, Keyed(job.file, Chunk, job.drawn))
        /\ job' = [job EXCEPT !.at = @ + Cardinality(Chunk),
                              !.drawn = @ + Cardinality(Chunk \cap Normals(job.file)),
                              !.positives = @ \cup (Chunk \cap Positives(job.file)),
                              !.reservoir = S]
    /\ UNCHANGED staging

\* One chunk of SAML-D is scanned: positives are kept, normal rows compete
\* with those of the reservoir. Rows with another label are neither.
ScanSaml ==
    /\ job.table = "saml_knowledge"
    /\ \E S \in SUBSET (job.reservoir \cup Keyed(job.file, Chunk, job.drawn)) :
        /\ Smallest(S, job.reservoir \cup Keyed(job.file, Chunk, job.drawn))
        /\ job' = [job EXCEPT !.at = @ + Cardinality(Chunk),
                              !.drawn = @ + Cardinality(Chunk \cap Normals(job.file)),
                              !.positives = @ \cup (Chunk \cap Positives(job.file)),
                              !.reservoir = S]
    /\ UNCHANGED staging

ScanChunk ==
    /\ job # NoJob /\ job.stage = "scan"
    /\ job.at < Len(Labels[job.file])
    /\ \/ job.file \in Malformed /\ Raise
       \/ /\ job.file \notin Malformed
          /\ ScanTransactions \/ ScanSaml
          /\ UNCHANGED <<live, counts, answer>>
    /\ UNCHANGED <<setting, source, phase, download, disk, uploads>>

Sampled == job.positives \cup {x.row : x \in job.reservoir}

\* The file is at its end: no rows is an error, the sample gets its staging table.
EndScan ==
    /\ job # NoJob /\ job.stage = "scan"
    /\ job.at = Len(Labels[job.file])
    /\ \/ /\ IF job.table = "transactions" THEN job.at = 0 ELSE Sampled = {}
          /\ Raise
       \/ /\ IF job.table = "transactions"
             THEN job.at # 0 /\ UNCHANGED staging
             ELSE /\ Sampled # {}
                  /\ staging' = [staging EXCEPT ![job.table] = [file |-> job.file, rows |-> Sampled]]
          /\ job' = [job EXCEPT !.stage = "publish"]
          /\ UNCHANGED <<live, counts, answer>>
    /\ UNCHANGED <<setting, source, phase, download, disk, uploads>>

\* _publish_staging_table: one transaction drops the table and renames the other.
Publish ==
    /\ job # NoJob /\ job.stage = "publish"
    /\ live' = [live EXCEPT ![job.table] = staging[job.table]]
    /\ staging' = [staging EXCEPT ![job.table] = NoTable]
    /\ Return(Cardinality(staging[job.table].rows))
    /\ UNCHANGED <<setting, source, phase, download, disk, uploads>>

\* A statement of the ingestion fails, or the file cannot be parsed; a failing
\* transaction is rolled back.
StatementFails ==
    /\ job # NoJob /\ job.stage # "open"
    /\ Raise
    /\ UNCHANGED <<setting, source, phase, download, disk, uploads>>

-----------------------------------------------------------------------------
(* The environment. *)

\* The tables of one upload; of several, the last (any of them is in the way).
RegisterUpload ==
    /\ phase = "up" /\ job = NoJob
    /\ \E u \in Upload :
        \/ FitsPrimary(u) /\ uploads' = [uploads EXCEPT !["transactions"] = PrimaryRows(u)]
        \/ FitsKnowledge(u) /\ uploads' = [uploads EXCEPT !["saml_knowledge"] = u.rows]
    /\ UNCHANGED <<setting, source, phase, download, disk, live, staging, job, counts, answer>>

\* DELETE /datasets/{id} runs in a thread of its own.
DeleteUpload ==
    /\ phase = "up"
    /\ \E t \in Table : uploads[t] # NoTable /\ uploads' = [uploads EXCEPT ![t] = NoTable]
    /\ UNCHANGED <<setting, source, phase, download, disk, live, staging, job, counts, answer>>

\* The operator puts a new file in the place of a source, or removes it; a
\* file that is open is read to its end.
PlaceSource ==
    /\ \E t \in Table, f \in File \cup {NoFile} : source' = [source EXCEPT ![t] = f]
    /\ UNCHANGED <<setting, phase, download, disk, live, staging, uploads, job, counts, answer>>

\* The process is killed; what was not committed is gone.
Kill ==
    /\ phase # "down"
    /\ phase' = "down"
    /\ job' = NoJob
    /\ counts' = NoCounts /\ answer' = NoCounts
    /\ UNCHANGED <<setting, source, download, disk, live, staging, uploads>>

Next ==
    \/ StartProcess \/ VerifyDatabase
    \/ BeginDownload \/ ReceiveBlock \/ AbandonDownload \/ InstallDownload
    \/ BeginStartupIngest \/ FinishStartup \/ BeginIngest
    \/ OpenSource \/ ScanChunk \/ EndScan \/ Publish \/ StatementFails
    \/ RegisterUpload \/ DeleteUpload \/ PlaceSource \/ Kill

Spec == Init /\ [][Next]_vars

-----------------------------------------------------------------------------
(* Properties. *)

\* R are the rows of the table t that the file f makes: all of the
\* transactions; of SAML-D the positives and the SampleSize normal rows with
\* the smallest keys of the whole file.
Image(t, f, R) ==
    IF t = "transactions"
    THEN f \notin Malformed /\ R = Rows(f)
    ELSE LET all == Keyed(f, Rows(f), 0)
         IN  \E S \in SUBSET all : Smallest(S, all) /\ R = Positives(f) \cup {x.row : x \in S}

Whole == [t \in Table |-> UNION {
    {[file |-> f, rows |-> R] : R \in {R \in SUBSET Rows(f) : R # {} /\ Image(t, f, R)}} : f \in File}]

ASSUME TableAssumption == \A t \in Table : NoTable \notin Whole[t]

Verified == {b \in Bundle : \A t \in Table : Bundled[b][t] # NoTable}

\* Whatever the chunks, the failures and the restarts, a table of schema main
\* is only ever replaced by the whole image of one file (for SAML-D: every
\* positive and the one sample of the file that its seed gives), or comes
\* with a database of which the checksum and the tables were verified
\* (data_loader.py, _publish_staging_table and the two ingestions).
Published == INSTANCE PublishedTables WITH
    tables <- live, Bundled <- [b \in Verified |-> Bundled[b]]
TablesReplacedWhole == Published!Spec

\* Where the start command verifies the database first (render.yaml), the
\* server never runs without both tables (bootstrap_data.py, verify_database).
ServesBothTables ==
    deployed = "render" /\ phase \in {"startup", "up"} => \A t \in Table : live[t] # NoTable

\* What /ingest answers are the numbers of rows of the two tables there are
\* when it answers: a table of an upload is never counted for a table that
\* was not built (api/main.py, ingest).
AnswersCountTables ==
    [][answer' # answer /\ answer' # NoCounts =>
        \A t \in Table : live'[t] # NoTable /\ answer'[t] = Cardinality(live'[t].rows)]_vars

\* A row queries can work on.
ValidRow(row) ==
    /\ row.from_account # "" /\ row.to_account # ""
    /\ row.amount_paid # NaN /\ row.amount_paid > 0
    /\ row.amount_received # NaN
    /\ row.paying_currency # "" /\ row.receiving_currency # ""
    /\ row.is_laundering \in {0, 1}

\* Every row of a primary upload has what queries rely on: both accounts, a
\* positive amount, an amount received, currencies, and a label that is one
\* (importer.py, normalize_primary_frame).
UploadedRowsAreValid ==
    uploads["transactions"] # NoTable =>
        \A i \in DOMAIN uploads["transactions"] : ValidRow(uploads["transactions"][i])
=============================================================================
