------------------------ MODULE InstallationProofs ------------------------
(***************************************************************************)
(* Proofs about Installation, for all files, chunk sizes, sample sizes and *)
(* bundles: the tables are only replaced whole (the refinement of          *)
(* PublishedTables), the server never runs without them where the database *)
(* is verified first, /ingest counts the tables there are, and the rows of *)
(* a primary upload are valid.                                             *)
(*                                                                         *)
(* The argument.  While a file is read, what the job holds is what the     *)
(* rows read so far make (ScanInv): the staging table has those rows, the  *)
(* positives are theirs, and the reservoir is the sample of their normal   *)
(* rows, because the smallest of the smallest and the new ones are the     *)
(* smallest of all (SmallestOfUnion).  At the end of the file the staging  *)
(* table is therefore a whole image (PublishInv), and Publish makes it the *)
(* live one in one step.                                                   *)
(***************************************************************************)
EXTENDS Installation, FiniteSetTheorems, TLAPS

\* The normal rows of f among the first n, with their keys.
Known(f, n) == Keyed(f, 1..n, 0)

JobType ==
    [table : Table, stage : {"open", "scan", "publish"}, force : BOOLEAN, file : File \cup {NoFile},
     at : Nat, drawn : Nat, positives : SUBSET Nat, reservoir : SUBSET [row : Nat, key : Nat]]

\* A job that has read nothing.
Fresh(j) == j.at = 0 /\ j.drawn = 0 /\ j.positives = {} /\ j.reservoir = {}

\* What the maps of tables and the job look like.
ShapeInv ==
    /\ source \in [Table -> File \cup {NoFile}]
    /\ live = [t \in Table |-> live[t]]
    /\ staging = [t \in Table |-> staging[t]]
    /\ uploads = [t \in Table |-> uploads[t]]
    /\ counts = [t \in Table |-> counts[t]]
    /\ job = NoJob \/ job \in JobType
    /\ job # NoJob /\ job.stage = "open" => Fresh(job)

ScanInv ==
    job # NoJob /\ job.stage = "scan" =>
        /\ job.file \in File
        /\ job.at <= Len(Labels[job.file])
        /\ job.at > 0 => job.file \notin Malformed
        /\ job.table = "transactions" =>
              staging["transactions"] = [file |-> job.file, rows |-> 1..job.at]
        /\ job.table = "saml_knowledge" =>
              /\ job.drawn = Cardinality((1..job.at) \cap Normals(job.file))
              /\ job.positives = (1..job.at) \cap Positives(job.file)
              /\ Smallest(job.reservoir, Known(job.file, job.at))

PublishInv == job # NoJob /\ job.stage = "publish" => staging[job.table] \in Whole[job.table]

\* The count of the transactions is that of the table while the other source is ingested.
CountInv ==
    job # NoJob /\ job.table = "saml_knowledge" =>
        /\ live["transactions"] # NoTable
        /\ counts["transactions"] = Cardinality(live["transactions"].rows)

DiskInv ==
    /\ ~disk => live = NoTables
    /\ job # NoJob => disk
    /\ phase = "up" => disk
    /\ phase = "download" => ~disk /\ download \in [bundle : Bundle, blocks : Nat]

InstallInv ==
    ShapeInv /\ ScanInv /\ PublishInv /\ CountInv /\ DiskInv /\ ServesBothTables /\ UploadedRowsAreValid

-----------------------------------------------------------------------------
(* The sample. *)

\* The rows of a file are the numbers up to its length, and have labels.
LEMMA RowsOfFile ==
    ASSUME NEW f \in File
    PROVE  /\ Len(Labels[f]) \in Nat
           /\ Rows(f) = 1..Len(Labels[f])
           /\ Normals(f) \subseteq Rows(f) /\ Positives(f) \subseteq Rows(f)
<1>1. Labels[f] \in Seq(0..2)
  BY FileAssumption
<1> QED
  BY <1>1 DEF Rows, Normals, Positives

\* Rows among the first n are finitely many.
LEMMA FirstRows ==
    ASSUME NEW n \in Nat, NEW R, R \subseteq 1..n
    PROVE  IsFiniteSet(R) /\ Cardinality(R) \in Nat /\ Cardinality(R) <= n
<1>1. IsFiniteSet(1..n) /\ Cardinality(1..n) = n
  BY FS_Interval
<1>2. IsFiniteSet(R) /\ Cardinality(R) <= n
  BY <1>1, FS_Subset
<1> QED
  BY <1>2, FS_CardinalityType

\* The ranks of the rows of a chunk continue those of the rows before it.
LEMMA RankContinues ==
    ASSUME NEW f \in File, NEW a \in Nat, NEW b \in Nat, a <= b,
           NEW i \in (a + 1) .. b
    PROVE  Cardinality({j \in (1..b) \cap Normals(f) : j <= i}) =
              Cardinality((1..a) \cap Normals(f))
                + Cardinality({j \in ((a + 1)..b) \cap Normals(f) : j <= i})
<1> DEFINE A == (1..a) \cap Normals(f)
           B == {j \in ((a + 1)..b) \cap Normals(f) : j <= i}
<1>1. IsFiniteSet(A) /\ IsFiniteSet(B) /\ Cardinality(A) \in Nat /\ Cardinality(B) \in Nat
  <2>1. A \subseteq 1..a /\ B \subseteq 1..b
    OBVIOUS
  <2> HIDE DEF A, B
  <2> QED BY <2>1, FirstRows
<1>2. A \cap B = {} /\ {j \in (1..b) \cap Normals(f) : j <= i} = A \cup B
  OBVIOUS
<1>3. Cardinality(A \cap B) = 0
  BY <1>2, FS_EmptySet
<1>4. Cardinality(A \cup B) = Cardinality(A) + Cardinality(B)
  <2> HIDE DEF A, B
  <2>1. Cardinality(A \cup B) = Cardinality(A) + Cardinality(B) - Cardinality(A \cap B)
    BY <1>1, FS_Union
  <2> QED BY <1>1, <1>3, <2>1
<1> QED
  BY <1>2, <1>4

\* So the keys of a chunk's rows are the keys these rows have in the whole file.
LEMMA KnownGrows ==
    ASSUME NEW f \in File, NEW a \in Nat, NEW b \in Nat, a <= b,
           NEW d, d = Cardinality((1..a) \cap Normals(f))
    PROVE  Known(f, b) = Known(f, a) \cup Keyed(f, (a + 1)..b, d)
<1> DEFINE rank(c, i) == Cardinality({j \in (1..c) \cap Normals(f) : j <= i})
           late(i) == Cardinality({j \in ((a + 1)..b) \cap Normals(f) : j <= i})
<1>1. \A i \in (1..a) \cap Normals(f) : rank(a, i) = rank(b, i)
  <2> TAKE i \in (1..a) \cap Normals(f)
  <2>1. {j \in (1..a) \cap Normals(f) : j <= i} = {j \in (1..b) \cap Normals(f) : j <= i}
    OBVIOUS
  <2> QED BY <2>1
<1>2. \A i \in ((a + 1)..b) \cap Normals(f) : rank(b, i) = d + late(i)
  BY RankContinues
<1>3. \A i \in Nat : rank(a, i) \in Nat /\ rank(b, i) \in Nat
  <2> TAKE i \in Nat
  <2> DEFINE A == {j \in (1..a) \cap Normals(f) : j <= i}
             B == {j \in (1..b) \cap Normals(f) : j <= i}
  <2>1. A \subseteq 1..a /\ B \subseteq 1..b
    OBVIOUS
  <2>2. Cardinality(A) \in Nat /\ Cardinality(B) \in Nat
    <3> HIDE DEF A, B
    <3> QED BY <2>1, FirstRows
  <2> QED BY <2>2
<1>4. (1..b) \cap Normals(f) = ((1..a) \cap Normals(f)) \cup (((a + 1)..b) \cap Normals(f))
  OBVIOUS
<1>5. Known(f, b) = {[row |-> i, key |-> Key[0 + rank(b, i)]] : i \in (1..b) \cap Normals(f)}
  BY DEF Known, Keyed
<1>6. Known(f, a) = {[row |-> i, key |-> Key[0 + rank(a, i)]] : i \in (1..a) \cap Normals(f)}
  BY DEF Known, Keyed
<1>7. Keyed(f, (a + 1)..b, d) =
        {[row |-> i, key |-> Key[d + late(i)]] : i \in ((a + 1)..b) \cap Normals(f)}
  BY DEF Keyed
<1>8. \A i \in (1..a) \cap Normals(f) : 0 + rank(b, i) = 0 + rank(a, i)
  BY <1>1
<1>9. \A i \in ((a + 1)..b) \cap Normals(f) : 0 + rank(b, i) = d + late(i)
  <2> TAKE i \in ((a + 1)..b) \cap Normals(f)
  <2>1. i \in Nat
    OBVIOUS
  <2>2. rank(b, i) = d + late(i)
    BY <1>2
  <2>3. rank(b, i) \in Nat
    BY <1>3, <2>1
  <2> HIDE DEF rank, late
  <2> QED BY <2>2, <2>3
<1> HIDE DEF rank, late
<1> QED
  BY <1>4, <1>5, <1>6, <1>7, <1>8, <1>9

\* Rows that are drawn have natural keys.
LEMMA KnownIsFinite ==
    ASSUME NEW f \in File, NEW n \in Nat, n <= Len(Labels[f])
    PROVE  /\ IsFiniteSet(Known(f, n))
           /\ \A x \in Known(f, n) : x \in [row : Nat, key : Nat] /\ x.row \in Rows(f)
<1> DEFINE N == (1..n) \cap Normals(f)
           K == [i \in N |-> [row |-> i, key |-> Key[0 + Cardinality({j \in N : j <= i})]]]
<1>1. IsFiniteSet(N)
  BY FirstRows
<1>2. Known(f, n) = {K[i] : i \in N}
  BY DEF Known, Keyed
<1>3. K \in Surjection(N, Known(f, n))
  <2> HIDE DEF N
  <2> QED BY <1>2 DEF Surjection
<1>4. IsFiniteSet(Known(f, n))
  BY <1>1, <1>3, FS_Surjection
<1>5. \A i \in N : Cardinality({j \in N : j <= i}) \in 1..Len(Labels[f])
  <2> TAKE i \in N
  <2> DEFINE R == {j \in N : j <= i}
  <2>1. IsFiniteSet(R) /\ Cardinality(R) \in Nat /\ Cardinality(R) <= n
    <3>1. R \subseteq 1..n
      OBVIOUS
    <3> HIDE DEF R
    <3> QED BY <3>1, FirstRows
  <2>2. i \in R
    BY RowsOfFile
  <2>3. Cardinality(R) # 0
    BY <2>1, <2>2, FS_EmptySet
  <2> HIDE DEF R
  <2>4. Cardinality(R) \in 1..Len(Labels[f])
    BY <2>1, <2>3, RowsOfFile
  <2> QED BY <2>4 DEF R
<1>6. \A i \in N : Key[0 + Cardinality({j \in N : j <= i})] \in Nat
  BY <1>5, KeyAssumption
<1>7. \A i \in N : K[i] \in [row : Nat, key : Nat] /\ K[i].row \in Rows(f)
  BY <1>6, RowsOfFile
<1> HIDE DEF K, N
<1> QED BY <1>2, <1>4, <1>7

\* The smallest of the smallest and of others are the smallest of all.
LEMMA SmallestOfUnion ==
    ASSUME NEW A, NEW B, IsFiniteSet(A \cup B),
           \A x \in A \cup B : x.key \in Nat,
           NEW S, Smallest(S, A), NEW T, Smallest(T, S \cup B)
    PROVE  Smallest(T, A \cup B)
<1> USE SizeAssumption
<1>1. S \subseteq A /\ T \subseteq S \cup B
  BY DEF Smallest
<1>2. /\ IsFiniteSet(A) /\ IsFiniteSet(B) /\ IsFiniteSet(S) /\ IsFiniteSet(T) /\ IsFiniteSet(S \cup B)
  BY <1>1, FS_Subset
<1>3. /\ Cardinality(A) \in Nat /\ Cardinality(S) \in Nat /\ Cardinality(T) \in Nat
      /\ Cardinality(S \cup B) \in Nat /\ Cardinality(A \cup B) \in Nat
  BY <1>2, FS_CardinalityType
<1>4. CASE Cardinality(A) <= SampleSize
  <2>1. Cardinality(S) = Cardinality(A)
    BY <1>4 DEF Smallest
  <2>2. S = A
    BY <1>1, <1>2, <2>1, FS_Subset
  <2> QED BY <2>2
<1>5. CASE Cardinality(A) > SampleSize
  <2>1. Cardinality(S) = SampleSize
    BY <1>3, <1>5 DEF Smallest
  <2>2. Cardinality(S) <= Cardinality(S \cup B)
    BY <1>2, FS_Subset
  <2>3. Cardinality(A) <= Cardinality(A \cup B)
    BY <1>2, FS_Subset
  <2>4. Cardinality(T) = SampleSize
    BY <1>3, <2>1, <2>2 DEF Smallest
  <2>5. \A x \in T, y \in (A \cup B) \ T : x.key < y.key
    <3> TAKE x \in T, y \in (A \cup B) \ T
    <3>1. CASE y \in S \cup B
      BY <3>1 DEF Smallest
    <3>2. CASE y \in A \ S /\ x \in S
      BY <3>2 DEF Smallest
    <3>3. CASE y \in A \ S /\ x \in B \ S
      <4>1. PICK s \in S : s \notin T
        <5>1. SUFFICES ASSUME S \subseteq T PROVE FALSE
          OBVIOUS
        <5>2. S = T
          BY <1>2, <2>1, <2>4, <5>1, FS_Subset
        <5> QED BY <3>3, <5>2
      <4>2. x.key < s.key
        BY <4>1 DEF Smallest
      <4>3. s.key < y.key
        BY <3>3, <4>1 DEF Smallest
      <4> QED BY <1>1, <4>2, <4>3
    <3> QED BY <1>1, <3>1, <3>2, <3>3
  <2> QED BY <1>1, <1>3, <1>5, <2>3, <2>4, <2>5 DEF Smallest
<1> QED BY <1>3, <1>4, <1>5

-----------------------------------------------------------------------------
(* The invariant. *)

LEMMA InstallInit == Init => InstallInv
BY DEF Init, InstallInv, ShapeInv, ScanInv, PublishInv, CountInv, DiskInv, ServesBothTables,
       UploadedRowsAreValid, NoTables, NoCounts, Table

\* The steps that start no ingestion and end none.
LEMMA ProcessSteps ==
    ASSUME InstallInv,
           StartProcess \/ VerifyDatabase \/ BeginDownload \/ ReceiveBlock \/ AbandonDownload
              \/ FinishStartup \/ DeleteUpload \/ PlaceSource
    PROVE  InstallInv'
<1> USE DEF InstallInv, ShapeInv, ScanInv, PublishInv, CountInv, DiskInv, ServesBothTables, setting
<1>1. CASE StartProcess
  BY <1>1 DEF StartProcess, UploadedRowsAreValid
<1>2. CASE VerifyDatabase
  BY <1>2 DEF VerifyDatabase, UploadedRowsAreValid
<1>3. CASE BeginDownload
  <2>1. phase' = "download" => ~disk' /\ download' \in [bundle : Bundle, blocks : Nat]
    BY <1>3 DEF BeginDownload
  <2> QED BY <1>3, <2>1 DEF BeginDownload, UploadedRowsAreValid
<1>4. CASE ReceiveBlock
  <2>1. download' \in [bundle : Bundle, blocks : Nat]
    BY <1>4 DEF ReceiveBlock
  <2> QED BY <1>4, <2>1 DEF ReceiveBlock, UploadedRowsAreValid
<1>5. CASE AbandonDownload
  BY <1>5 DEF AbandonDownload, UploadedRowsAreValid
<1>6. CASE FinishStartup
  BY <1>6 DEF FinishStartup, UploadedRowsAreValid
<1>7. CASE DeleteUpload
  <2>1. PICK t \in Table : uploads' = [uploads EXCEPT ![t] = NoTable]
    BY <1>7 DEF DeleteUpload
  <2>2. uploads' = [u \in Table |-> uploads'[u]]
    BY <2>1
  <2>3. UploadedRowsAreValid'
    BY <2>1 DEF UploadedRowsAreValid, Table
  <2> QED BY <1>7, <2>2, <2>3 DEF DeleteUpload
<1>8. CASE PlaceSource
  BY <1>8 DEF PlaceSource, UploadedRowsAreValid
<1> QED
  BY <1>1, <1>2, <1>3, <1>4, <1>5, <1>6, <1>7, <1>8

\* The first database is the bundle's.
LEMMA InstallStep == ASSUME InstallInv, InstallDownload PROVE InstallInv'
<1> USE DEF InstallInv, ShapeInv, ScanInv, PublishInv, CountInv, DiskInv, ServesBothTables, setting
<1>1. job = NoJob /\ live' = Bundled[download.bundle] /\ download.bundle \in Bundle
  BY DEF InstallDownload
<1>2. live' = [t \in Table |-> live'[t]]
  BY <1>1, BundleAssumption
<1> QED
  BY <1>1, <1>2 DEF InstallDownload, UploadedRowsAreValid

\* An ingestion starts with nothing done; a killed one is gone.
LEMMA BeginSteps ==
    ASSUME InstallInv, BeginStartupIngest \/ BeginIngest \/ Kill
    PROVE  InstallInv'
<1> USE DEF InstallInv, ShapeInv, ScanInv, PublishInv, CountInv, DiskInv, ServesBothTables, setting,
            UploadedRowsAreValid
<1>1. \A force \in BOOLEAN : Opened("transactions", force) \in JobType
  BY DEF Opened, JobType, Table
<1>2. \A force : /\ Opened("transactions", force).stage = "open"
                 /\ Opened("transactions", force).table = "transactions"
                 /\ Fresh(Opened("transactions", force))
  BY DEF Opened, Fresh
<1>3. CASE BeginStartupIngest
  BY <1>1, <1>2, <1>3 DEF BeginStartupIngest
<1>4. CASE BeginIngest
  <2>1. NoCounts = [t \in Table |-> NoCounts[t]]
    BY DEF NoCounts
  <2> QED BY <1>1, <1>2, <1>4, <2>1 DEF BeginIngest
<1>5. CASE Kill
  <2>1. NoCounts = [t \in Table |-> NoCounts[t]]
    BY DEF NoCounts
  <2> QED BY <1>5, <2>1 DEF Kill
<1> QED
  BY <1>3, <1>4, <1>5

\* What an uploaded row is when its file is accepted.
LEMMA AcceptedRow ==
    ASSUME NEW u \in Upload, FitsPrimary(u), NEW i \in DOMAIN u.rows
    PROVE  ValidRow(PrimaryRows(u)[i])
<1> DEFINE map == DetectSchema(DOMAIN u.columns).map
           raw == u.rows[i]
           paid == Cell(raw, map, "amount_paid", Text("")).number
           label == Cell(raw, map, "is_laundering", Number(0)).number
           paying == OrElse(Cell(raw, map, "paying_currency", Text("USD")).text, "USD")
<1>1. ~Invalid(raw, map)
  BY DEF FitsPrimary
<1>2. \A field, default : default.number \in Int \cup {NaN} =>
         Cell(raw, map, field, default).number \in Int \cup {NaN}
  <2> HIDE DEF map
  <2> QED BY UploadAssumption DEF Cell
<1>3. paid # NaN /\ ~(paid <= 0) /\ paid \in Int \cup {NaN}
  <2>1. paid # NaN /\ ~(paid <= 0)
    BY <1>1 DEF Invalid
  <2>2. Text("").number = NaN
    BY DEF Text
  <2> HIDE DEF map, raw
  <2> QED BY <1>2, <2>1, <2>2
<1>4. label \in Int \cup {NaN}
  <2>1. Number(0).number = 0
    BY DEF Number
  <2> HIDE DEF map, raw
  <2> QED BY <1>2, <2>1
<1>5. /\ Cell(raw, map, "from_account", Text("")).text # ""
      /\ Cell(raw, map, "to_account", Text("")).text # ""
  BY <1>1 DEF Invalid
<1>6. paying # ""
  BY DEF OrElse
<1>7. PrimaryRows(u)[i] = Normalized(raw, map)
  BY DEF PrimaryRows
<1>8. Clip(label) \in {0, 1}
  <2> HIDE DEF label
  <2> QED BY <1>4 DEF Clip
<1> DEFINE received == Cell(raw, map, "amount_received", Number(NaN)).number
           receiving == OrElse(Cell(raw, map, "receiving_currency", Text("")).text, paying)
<1>9. receiving # ""
  <2> HIDE DEF paying
  <2> QED BY <1>6 DEF OrElse
<1> DEFINE row == Normalized(raw, map)
<1>10. /\ row.from_account = Cell(raw, map, "from_account", Text("")).text
       /\ row.to_account = Cell(raw, map, "to_account", Text("")).text
       /\ row.amount_paid = paid
       /\ row.amount_received = IF received = NaN THEN paid ELSE received
       /\ row.paying_currency = paying /\ row.receiving_currency = receiving
       /\ row.is_laundering = Clip(label)
  <2> HIDE DEF map, raw
  <2> QED BY DEF Normalized
<1>11. PrimaryRows(u)[i] = row
  BY <1>7
<1> HIDE DEF map, raw, paid, label, paying, receiving, received, row
<1>12. paid > 0
  BY <1>3
<1>13. ValidRow(row)
  BY <1>3, <1>5, <1>6, <1>8, <1>9, <1>10, <1>12 DEF ValidRow
<1> QED
  BY <1>11, <1>13

LEMMA UploadStep == ASSUME InstallInv, RegisterUpload PROVE InstallInv'
<1> USE DEF InstallInv, ShapeInv, ScanInv, PublishInv, CountInv, DiskInv, ServesBothTables, setting
<1>1. PICK u \in Upload :
        \/ FitsPrimary(u) /\ uploads' = [uploads EXCEPT !["transactions"] = PrimaryRows(u)]
        \/ FitsKnowledge(u) /\ uploads' = [uploads EXCEPT !["saml_knowledge"] = u.rows]
  BY DEF RegisterUpload
<1>2. uploads' = [t \in Table |-> uploads'[t]]
  BY <1>1 DEF Table
<1>3. UploadedRowsAreValid'
  <2>1. CASE FitsPrimary(u) /\ uploads' = [uploads EXCEPT !["transactions"] = PrimaryRows(u)]
    <3>1. uploads'["transactions"] = PrimaryRows(u) /\ DOMAIN PrimaryRows(u) = DOMAIN u.rows
      BY <2>1 DEF Table, PrimaryRows
    <3> QED BY <2>1, <3>1, AcceptedRow DEF UploadedRowsAreValid
  <2>2. CASE uploads' = [uploads EXCEPT !["saml_knowledge"] = u.rows]
    <3>1. uploads'["transactions"] = uploads["transactions"]
      BY <2>2 DEF Table
    <3> QED BY <3>1 DEF UploadedRowsAreValid
  <2> QED BY <1>1, <2>1, <2>2
<1> QED
  BY <1>2, <1>3 DEF RegisterUpload

\* A job that raises leaves everything but its staging table.
LEMMA RaiseStep ==
    ASSUME InstallInv, job # NoJob, Raise \/ (Raise /\ staging' = staging),
           UNCHANGED <<setting, source, phase, download, disk, uploads>>
    PROVE  InstallInv'
<1> USE DEF InstallInv, ShapeInv, ScanInv, PublishInv, CountInv, DiskInv, ServesBothTables, setting,
            UploadedRowsAreValid
<1>1. NoCounts = [t \in Table |-> NoCounts[t]]
  BY DEF NoCounts
<1> QED
  BY <1>1 DEF Raise

\* A job that returns has the live table it counted.
LEMMA ReturnStep ==
    ASSUME InstallInv, job # NoJob, NEW n, Return(n),
           live' = [t \in Table |-> live'[t]],
           staging' = [t \in Table |-> staging'[t]],
           live'[job.table] # NoTable,
           n = Cardinality(live'[job.table].rows),
           UNCHANGED <<setting, source, phase, download, disk, uploads>>
    PROVE  ShapeInv' /\ ScanInv' /\ PublishInv' /\ CountInv'
<1>1. NoCounts = [t \in Table |-> NoCounts[t]]
  BY DEF NoCounts
<1>2. job \in JobType
  BY DEF InstallInv, ShapeInv
<1>3. CASE job.table = "transactions"
  <2>1. job' = Opened("saml_knowledge", job.force) /\ counts' = [counts EXCEPT !["transactions"] = n]
    BY <1>3 DEF Return
  <2>2. job' \in JobType /\ job'.stage = "open" /\ job'.table = "saml_knowledge" /\ Fresh(job')
    BY <1>2, <2>1 DEF Opened, JobType, Table, Fresh
  <2>3. counts' = [t \in Table |-> counts'[t]] /\ counts'["transactions"] = n
    BY <2>1 DEF InstallInv, ShapeInv, Table
  <2> QED BY <1>3, <2>2, <2>3 DEF InstallInv, ShapeInv, ScanInv, PublishInv, CountInv, setting
<1>4. CASE job.table # "transactions"
  <2>1. job' = NoJob /\ counts' = NoCounts
    BY <1>4 DEF Return
  <2> QED BY <1>1, <2>1 DEF InstallInv, ShapeInv, ScanInv, PublishInv, CountInv, setting
<1> QED
  BY <1>3, <1>4

\* Opening a source skips it, starts to read it or raises.
LEMMA OpenStep == ASSUME InstallInv, OpenSource PROVE InstallInv'
<1> DEFINE t == job.table
<1>1. /\ job # NoJob /\ job \in JobType /\ t \in Table
      /\ UNCHANGED <<setting, source, phase, download, disk, uploads>>
  BY DEF OpenSource, InstallInv, ShapeInv, JobType
<1>2. CASE source[t] = NoFile /\ Raise /\ staging' = staging
  BY <1>1, <1>2, RaiseStep
<1>3. CASE Skip(t)
  <2>1. CASE live[t] = NoTable /\ Raise
    BY <1>1, <2>1, RaiseStep
  <2>2. CASE live[t] # NoTable /\ Return(Cardinality(live[t].rows)) /\ UNCHANGED <<live, staging>>
    <3>1. ShapeInv' /\ ScanInv' /\ PublishInv' /\ CountInv'
      BY <1>1, <2>2, ReturnStep DEF InstallInv, ShapeInv
    <3>2. DiskInv' /\ ServesBothTables' /\ UploadedRowsAreValid'
      BY <1>1, <2>2 DEF InstallInv, DiskInv, ServesBothTables, UploadedRowsAreValid, setting
    <3> QED BY <3>1, <3>2 DEF InstallInv
  <2> QED BY <1>3, <2>1, <2>2 DEF Skip
<1>4. CASE source[t] # NoFile /\ BeginScan(t)
  <2>1. /\ job' \in JobType /\ job'.stage = "scan" /\ job'.file = source[t] /\ job'.table = t
        /\ job'.at = 0 /\ job'.drawn = 0 /\ job'.positives = {} /\ job'.reservoir = {}
    <3>1. Fresh(job)
      BY <1>1 DEF OpenSource, InstallInv, ShapeInv
    <3> QED BY <1>1, <1>4, <3>1 DEF BeginScan, JobType, InstallInv, ShapeInv, Fresh
  <2>2. source[t] \in File
    BY <1>1, <1>4 DEF InstallInv, ShapeInv
  <2>3. staging' = [u \in Table |-> staging'[u]]
    BY <1>1, <1>4 DEF BeginScan, InstallInv, ShapeInv
  <2>4. t = "transactions" => staging'["transactions"] = [file |-> source[t], rows |-> 1..0]
    <3>1. 1..0 = {}
      OBVIOUS
    <3> QED BY <1>1, <1>4, <3>1 DEF BeginScan, InstallInv, ShapeInv
  <2>5. /\ 0 = Cardinality((1..0) \cap Normals(source[t])) /\ {} = (1..0) \cap Positives(source[t])
        /\ Smallest({}, Known(source[t], 0))
    <3>1. (1..0) \cap Normals(source[t]) = {} /\ (1..0) \cap Positives(source[t]) = {}
      OBVIOUS
    <3>2. Known(source[t], 0) = {}
      BY <3>1 DEF Known, Keyed
    <3> QED BY <3>1, <3>2, FS_EmptySet, SizeAssumption DEF Smallest
  <2>6. ScanInv'
    BY <2>1, <2>2, <2>4, <2>5, RowsOfFile DEF ScanInv
  <2> QED BY <1>1, <1>4, <2>1, <2>3, <2>6
          DEF BeginScan, InstallInv, ShapeInv, PublishInv, CountInv, DiskInv, ServesBothTables,
              UploadedRowsAreValid, setting
<1> QED
  BY <1>2, <1>3, <1>4 DEF OpenSource

\* A chunk is the next rows of the file.
LEMMA ChunkRows ==
    ASSUME NEW f \in File, NEW a \in Nat, a < Len(Labels[f]),
           NEW C, C = {i \in Rows(f) : a < i /\ i <= a + ChunkSize}
    PROVE  LET b == a + Cardinality(C)
           IN  /\ b \in Nat /\ a < b /\ b <= Len(Labels[f])
               /\ C = (a + 1)..b
<1> USE SizeAssumption
<1> DEFINE b == IF a + ChunkSize <= Len(Labels[f]) THEN a + ChunkSize ELSE Len(Labels[f])
<1>1. Len(Labels[f]) \in Nat /\ Rows(f) = 1..Len(Labels[f])
  BY RowsOfFile
<1>2. b \in Nat /\ a < b /\ b <= Len(Labels[f])
  BY <1>1
<1>3. C = (a + 1)..b
  BY <1>1
<1> HIDE DEF b
<1>4. Cardinality((a + 1)..b) = b - a
  <2>1. Cardinality((a + 1)..b) = IF a + 1 > b THEN 0 ELSE b - (a + 1) + 1
    BY <1>2, FS_Interval
  <2> QED BY <1>2, <2>1
<1>5. Cardinality(C) = b - a
  BY <1>3, <1>4
<1>6. a + Cardinality(C) = b
  BY <1>2, <1>5
<1> QED
  BY <1>2, <1>3, <1>6

\* One chunk more: what the job holds is what the rows read so far make.
LEMMA ScanStep == ASSUME InstallInv, ScanChunk PROVE InstallInv'
<1> DEFINE f == job.file
           a == job.at
           b == job.at + Cardinality(Chunk)
<1>1. /\ job # NoJob /\ job \in JobType /\ job.stage = "scan" /\ f \in File
      /\ a \in Nat /\ a < Len(Labels[f]) /\ Len(Labels[f]) \in Nat
      /\ UNCHANGED <<setting, source, phase, download, disk, uploads>>
  BY RowsOfFile DEF ScanChunk, InstallInv, ShapeInv, ScanInv, JobType
<1>2. b \in Nat /\ a < b /\ b <= Len(Labels[f]) /\ Chunk = (a + 1)..b
  <2>1. Chunk = {i \in Rows(f) : a < i /\ i <= a + ChunkSize}
    BY DEF Chunk
  <2> HIDE DEF f, a
  <2>2. LET c == a + Cardinality(Chunk)
        IN  c \in Nat /\ a < c /\ c <= Len(Labels[f]) /\ Chunk = (a + 1)..c
    BY <1>1, <2>1, ChunkRows
  <2> QED BY <2>2 DEF a
<1>3. CASE Raise
  BY <1>1, <1>3, RaiseStep
<1>4. ASSUME ScanTransactions, f \notin Malformed, UNCHANGED <<live, counts, answer>>
      PROVE  InstallInv'
  <2>1. /\ job' \in JobType /\ job'.stage = "scan" /\ job'.file = f /\ job'.table = "transactions"
        /\ job'.at = b
    BY <1>1, <1>2, <1>4 DEF ScanTransactions, JobType
  <2>2. /\ staging' = [t \in Table |-> staging'[t]]
        /\ staging'["transactions"] = [file |-> f, rows |-> staging["transactions"].rows \cup Chunk]
    BY <1>4 DEF ScanTransactions, InstallInv, ShapeInv, Table
  <2>3. staging["transactions"] = [file |-> f, rows |-> 1..a]
    BY <1>1, <1>4 DEF ScanTransactions, InstallInv, ScanInv
  <2>4. (1..a) \cup Chunk = 1..b
    BY <1>1, <1>2
  <2>5. staging'["transactions"] = [file |-> f, rows |-> 1..b]
    <3> HIDE DEF a, b, f
    <3>1. staging["transactions"].rows = 1..a
      BY <2>3
    <3> QED BY <2>2, <2>4, <3>1
  <2>6. ScanInv'
    BY <1>1, <1>2, <1>4, <2>1, <2>5 DEF ScanInv
  <2> HIDE DEF b
  <2> QED BY <1>1, <1>4, <2>1, <2>2, <2>6
          DEF InstallInv, ShapeInv, PublishInv, CountInv, DiskInv, ServesBothTables,
              UploadedRowsAreValid, setting
<1>5. ASSUME ScanSaml, f \notin Malformed, UNCHANGED <<live, counts, answer>>
      PROVE  InstallInv'
  <2> DEFINE B == Keyed(f, Chunk, job.drawn)
  <2>1. PICK S \in SUBSET (job.reservoir \cup B) :
          /\ Smallest(S, job.reservoir \cup B)
          /\ job' = [job EXCEPT !.at = b,
                                !.drawn = @ + Cardinality(Chunk \cap Normals(f)),
                                !.positives = @ \cup (Chunk \cap Positives(f)),
                                !.reservoir = S]
    BY <1>5 DEF ScanSaml
  <2>2. /\ job.drawn = Cardinality((1..a) \cap Normals(f))
        /\ job.positives = (1..a) \cap Positives(f)
        /\ Smallest(job.reservoir, Known(f, a))
    BY <1>1, <1>5 DEF ScanSaml, InstallInv, ScanInv
  <2>3. Known(f, b) = Known(f, a) \cup B
    BY <1>1, <1>2, <2>2, KnownGrows
  <2>4. /\ IsFiniteSet(Known(f, b))
        /\ \A x \in Known(f, b) : x \in [row : Nat, key : Nat]
    <3> HIDE DEF b, f
    <3> QED BY <1>1, <1>2, KnownIsFinite
  <2>5. Smallest(S, Known(f, b))
    <3> HIDE DEF a, b, B, f
    <3>1. \A x \in Known(f, a) \cup B : x.key \in Nat
      BY <2>3, <2>4
    <3>2. IsFiniteSet(Known(f, a) \cup B)
      BY <2>3, <2>4
    <3>3. Smallest(S, Known(f, a) \cup B)
      BY <2>1, <2>2, <3>1, <3>2, SmallestOfUnion
    <3> QED BY <2>3, <3>3
  <2>6. S \subseteq [row : Nat, key : Nat]
    BY <2>4, <2>5 DEF Smallest
  <2>7. /\ Cardinality(Chunk \cap Normals(f)) \in Nat
        /\ Cardinality((1..a) \cap Normals(f)) + Cardinality(Chunk \cap Normals(f))
             = Cardinality((1..b) \cap Normals(f))
    <3> DEFINE A == (1..a) \cap Normals(f)
               C == Chunk \cap Normals(f)
    <3>1. A \subseteq 1..a /\ C \subseteq 1..b /\ A \cap C = {} /\ (1..b) \cap Normals(f) = A \cup C
      BY <1>1, <1>2
    <3> HIDE DEF A, C, b, a
    <3>2. /\ IsFiniteSet(A) /\ IsFiniteSet(C) /\ Cardinality(A) \in Nat /\ Cardinality(C) \in Nat
      BY <1>1, <1>2, <3>1, FirstRows
    <3>3. Cardinality(A \cup C) = Cardinality(A) + Cardinality(C) - Cardinality(A \cap C)
      BY <3>2, FS_Union
    <3>4. Cardinality(A \cap C) = 0
      BY <3>1, FS_EmptySet
    <3>5. Cardinality(A \cup C) = Cardinality(A) + Cardinality(C)
      BY <3>2, <3>3, <3>4
    <3> QED BY <3>1, <3>2, <3>5 DEF A, C
  <2>8. ((1..a) \cap Positives(f)) \cup (Chunk \cap Positives(f)) = (1..b) \cap Positives(f)
    BY <1>1, <1>2
  <2>9. Chunk \cap Positives(f) \subseteq Nat
    BY <1>1, <1>2
  <2>10. /\ job' \in JobType /\ job'.stage = "scan" /\ job'.file = f /\ job'.table = "saml_knowledge"
         /\ job'.at = b /\ job'.reservoir = S
         /\ job'.drawn = job.drawn + Cardinality(Chunk \cap Normals(f))
         /\ job'.positives = job.positives \cup (Chunk \cap Positives(f))
    <3> DEFINE n == job.drawn + Cardinality(Chunk \cap Normals(f))
               P == job.positives \cup (Chunk \cap Positives(f))
    <3>1. job.table = "saml_knowledge"
      BY <1>5 DEF ScanSaml
    <3>2. job' = [job EXCEPT !.at = b, !.drawn = n, !.positives = P, !.reservoir = S]
      BY <2>1
    <3>3. n \in Nat /\ P \in SUBSET Nat /\ b \in Nat /\ S \in SUBSET [row : Nat, key : Nat]
      <4>1. job.drawn \in Nat /\ job.positives \subseteq Nat
        BY <1>1 DEF JobType
      <4> QED BY <1>2, <2>6, <2>7, <2>9, <4>1
    <3> HIDE DEF b, n, P
    <3>4. job' \in JobType
      BY <1>1, <3>2, <3>3 DEF JobType
    <3>5. /\ job'.stage = "scan" /\ job'.file = f /\ job'.table = "saml_knowledge"
          /\ job'.at = b /\ job'.reservoir = S
          /\ job'.drawn = n /\ job'.positives = P
      BY <1>1, <3>1, <3>2 DEF JobType
    <3> QED BY <3>4, <3>5 DEF n, P
  <2>11. ScanInv'
    <3> HIDE DEF a, b
    <3>1. job'.drawn = Cardinality((1..job'.at) \cap Normals(job'.file))
      BY <2>2, <2>7, <2>10
    <3>2. job'.positives = (1..job'.at) \cap Positives(job'.file)
      BY <2>2, <2>8, <2>10
    <3>3. Smallest(job'.reservoir, Known(job'.file, job'.at))
      BY <2>5, <2>10
    <3>4. job'.at <= Len(Labels[job'.file]) /\ job'.file \in File /\ job'.file \notin Malformed
      BY <1>1, <1>2, <1>5, <2>10
    <3>5. job'.table # "transactions"
      BY <2>10
    <3> QED BY <3>1, <3>2, <3>3, <3>4, <3>5, Zenon DEF ScanInv
  <2>12. staging' = staging /\ job.table = "saml_knowledge"
    BY <1>5 DEF ScanSaml
  <2> HIDE DEF b
  <2> QED BY <1>1, <1>5, <2>10, <2>11, <2>12
          DEF InstallInv, ShapeInv, PublishInv, CountInv, DiskInv, ServesBothTables,
              UploadedRowsAreValid, setting
<1> QED
  BY <1>3, <1>4, <1>5 DEF ScanChunk

\* At its end, the staging table is a whole image of the file.
LEMMA EndStep == ASSUME InstallInv, EndScan PROVE InstallInv'
<1> DEFINE f == job.file
           t == job.table
<1>1. /\ job # NoJob /\ job \in JobType /\ job.stage = "scan" /\ f \in File /\ t \in Table
      /\ job.at = Len(Labels[f]) /\ job.at \in Nat
      /\ (1..job.at) = Rows(f)
      /\ UNCHANGED <<setting, source, phase, download, disk, uploads>>
  BY RowsOfFile DEF EndScan, InstallInv, ShapeInv, ScanInv, JobType
<1>2. CASE Raise
  BY <1>1, <1>2, RaiseStep
<1>3. ASSUME ~Raise PROVE InstallInv'
  <2>1. /\ job' = [job EXCEPT !.stage = "publish"]
        /\ UNCHANGED <<live, counts, answer>>
    BY <1>3 DEF EndScan
  <2>2. job' \in JobType /\ job'.stage = "publish" /\ job'.table = t
    BY <1>1, <2>1 DEF JobType
  <2>3. staging' = [u \in Table |-> staging'[u]] /\ staging'[t] \in Whole[t]
    <3>1. CASE t = "transactions"
      <4>1. staging' = staging /\ job.at # 0
        BY <1>3, <3>1 DEF EndScan
      <4>2. staging[t] = [file |-> f, rows |-> Rows(f)] /\ f \notin Malformed
        BY <1>1, <3>1, <4>1 DEF InstallInv, ScanInv
      <4>3. Rows(f) # {}
        <5>1. 1 \in 1..job.at
          BY <1>1, <4>1
        <5> QED BY <1>1, <5>1
      <4>4. Image(t, f, Rows(f))
        BY <3>1, <4>2 DEF Image
      <4>5. [file |-> f, rows |-> Rows(f)] \in Whole[t]
        BY <1>1, <4>3, <4>4 DEF Whole
      <4> QED BY <4>1, <4>2, <4>5 DEF InstallInv, ShapeInv
    <3>2. CASE t = "saml_knowledge"
      <4>1. Sampled # {} /\ staging' = [staging EXCEPT ![t] = [file |-> f, rows |-> Sampled]]
        BY <1>3, <3>2 DEF EndScan
      <4>2. /\ job.positives = Rows(f) \cap Positives(f)
            /\ Smallest(job.reservoir, Known(f, job.at))
        BY <1>1, <3>2 DEF InstallInv, ScanInv
      <4>3. job.positives = Positives(f)
        BY <1>1, <4>2, RowsOfFile
      <4>4. Known(f, job.at) = Keyed(f, Rows(f), 0)
        BY <1>1 DEF Known
      <4>5. Image(t, f, Sampled)
        <5>1. job.reservoir \in SUBSET Keyed(f, Rows(f), 0) /\ Smallest(job.reservoir, Keyed(f, Rows(f), 0))
          BY <4>2, <4>4 DEF Smallest
        <5>2. Sampled = Positives(f) \cup {x.row : x \in job.reservoir}
          BY <4>3 DEF Sampled
        <5> QED BY <3>2, <5>1, <5>2 DEF Image
      <4>6. Sampled \subseteq Rows(f)
        <5>1. \A x \in job.reservoir : x.row \in Rows(f)
          <6>1. \A x \in Known(f, job.at) : x.row \in Rows(f)
            BY <1>1, KnownIsFinite
          <6> QED BY <4>2, <6>1 DEF Smallest
        <5> QED BY <1>1, <4>3, <5>1, RowsOfFile DEF Sampled
      <4>7. [file |-> f, rows |-> Sampled] \in Whole[t]
        BY <1>1, <4>1, <4>5, <4>6 DEF Whole
      <4> QED BY <1>1, <4>1, <4>7 DEF InstallInv, ShapeInv
    <3> QED BY <1>1, <3>1, <3>2 DEF Table
  <2> QED BY <1>1, <2>1, <2>2, <2>3
          DEF InstallInv, ShapeInv, ScanInv, PublishInv, CountInv, DiskInv, ServesBothTables,
              UploadedRowsAreValid, setting
<1> QED
  BY <1>2, <1>3

\* Publishing makes it the live table.
LEMMA PublishStep ==
    ASSUME InstallInv, Publish
    PROVE  /\ InstallInv'
           /\ job.table \in Table
           /\ staging[job.table] \in Whole[job.table]
           /\ live' = [live EXCEPT ![job.table] = staging[job.table]]
           /\ live'[job.table] = staging[job.table]
<1> DEFINE t == job.table
<1>1. /\ job # NoJob /\ t \in Table /\ staging[t] \in Whole[t]
      /\ UNCHANGED <<setting, source, phase, download, disk, uploads>>
  BY DEF Publish, InstallInv, ShapeInv, PublishInv, JobType
<1>2. /\ live' = [live EXCEPT ![t] = staging[t]] /\ live' = [u \in Table |-> live'[u]]
      /\ live'[t] = staging[t] /\ live'[t] # NoTable
      /\ staging' = [u \in Table |-> staging'[u]]
  BY <1>1, TableAssumption DEF Publish, InstallInv, ShapeInv
<1>3. ShapeInv' /\ ScanInv' /\ PublishInv' /\ CountInv'
  BY <1>1, <1>2, ReturnStep DEF Publish
<1>4. DiskInv'
  BY <1>1 DEF InstallInv, DiskInv
<1>5. ServesBothTables'
  BY <1>1, <1>2 DEF InstallInv, ShapeInv, ServesBothTables, setting
<1>6. UploadedRowsAreValid'
  BY <1>1 DEF InstallInv, UploadedRowsAreValid
<1> QED
  BY <1>1, <1>2, <1>3, <1>4, <1>5, <1>6 DEF InstallInv

LEMMA InstallNext == InstallInv /\ [Next]_vars => InstallInv'
<1> SUFFICES ASSUME InstallInv, [Next]_vars PROVE InstallInv'
  OBVIOUS
<1>1. CASE StatementFails
  BY <1>1, RaiseStep DEF StatementFails
<1>2. CASE UNCHANGED vars
  BY <1>2 DEF vars, setting, InstallInv, ShapeInv, ScanInv, PublishInv, CountInv, DiskInv,
              ServesBothTables, UploadedRowsAreValid
<1> QED
  BY <1>1, <1>2, ProcessSteps, InstallStep, BeginSteps, UploadStep, OpenStep, ScanStep, EndStep,
     PublishStep DEF Next

-----------------------------------------------------------------------------
(* The theorems. *)

\* Every reachable state satisfies the invariant: what an ingestion holds is
\* what the rows it has read make.
THEOREM InstallationInvariant == Spec => []InstallInv
<1> QED BY InstallInit, InstallNext, PTL DEF Spec

\* With render.yaml's start command the server never runs without both tables.
THEOREM ServesBothTablesTheorem == Spec => []ServesBothTables
<1>1. InstallInv => ServesBothTables
  BY DEF InstallInv
<1> QED BY <1>1, InstallationInvariant, PTL

\* The rows of a primary upload are valid, whatever its columns are called.
THEOREM UploadedRowsAreValidTheorem == Spec => []UploadedRowsAreValid
<1>1. InstallInv => UploadedRowsAreValid
  BY DEF InstallInv
<1> QED BY <1>1, InstallationInvariant, PTL

\* An answer of n for the second table is the number of its rows, and the
\* first count is that of a table that has not changed since.
LEMMA AnswerCounts ==
    ASSUME InstallInv, job # NoJob, NEW n, Return(n), answer' # answer,
           live'["transactions"] = live["transactions"] \/ job.table = "transactions",
           live'[job.table] # NoTable, n = Cardinality(live'[job.table].rows)
    PROVE  \A t \in Table : live'[t] # NoTable /\ answer'[t] = Cardinality(live'[t].rows)
<1>1. job.table # "transactions" /\ answer' = [counts EXCEPT !["saml_knowledge"] = n]
  BY DEF Return
<1>2. job.table = "saml_knowledge"
  BY <1>1 DEF InstallInv, ShapeInv, JobType, Table
<1>3. /\ answer'["saml_knowledge"] = n
      /\ answer'["transactions"] = Cardinality(live["transactions"].rows)
      /\ live["transactions"] # NoTable
  BY <1>1, <1>2 DEF InstallInv, ShapeInv, CountInv, Table
<1> QED
  BY <1>1, <1>2, <1>3 DEF Table

\* What /ingest answers are the numbers of rows of the tables there are.
THEOREM AnswersCountTablesTheorem == Spec => AnswersCountTables
<1> DEFINE Counted == answer' # answer /\ answer' # NoCounts =>
        \A t \in Table : live'[t] # NoTable /\ answer'[t] = Cardinality(live'[t].rows)
<1>1. ASSUME InstallInv, Next PROVE Counted
  <2>1. CASE OpenSource
    <3>1. CASE answer' = answer
      BY <3>1
    <3>2. CASE answer' # answer
      <4>1. /\ job # NoJob /\ live[job.table] # NoTable
            /\ Return(Cardinality(live[job.table].rows)) /\ live' = live
        BY <2>1, <3>2 DEF OpenSource, Raise, Skip, BeginScan
      <4> QED BY <1>1, <3>2, <4>1, AnswerCounts
    <3> QED BY <3>1, <3>2
  <2>2. CASE Publish
    <3>1. CASE answer' = answer
      BY <3>1
    <3>2. CASE answer' # answer
      <4>1. /\ job # NoJob /\ Return(Cardinality(staging[job.table].rows))
            /\ live' = [live EXCEPT ![job.table] = staging[job.table]]
        BY <2>2 DEF Publish
      <4>2. /\ live'[job.table] = staging[job.table] /\ live'[job.table] # NoTable
        BY <1>1, <2>2, PublishStep, TableAssumption
      <4>3. live'["transactions"] = live["transactions"] \/ job.table = "transactions"
        BY <1>1, <4>1 DEF InstallInv, ShapeInv, Table
      <4> QED BY <1>1, <3>2, <4>1, <4>2, <4>3, AnswerCounts
    <3> QED BY <3>1, <3>2
  <2>3. ASSUME ~OpenSource, ~Publish PROVE answer' = answer \/ answer' = NoCounts
    BY <1>1, <2>3
       DEF Next, StartProcess, VerifyDatabase, BeginDownload, ReceiveBlock, AbandonDownload,
           InstallDownload, BeginStartupIngest, FinishStartup, BeginIngest, ScanChunk, EndScan,
           StatementFails, Raise, RegisterUpload, DeleteUpload, PlaceSource, Kill
  <2> QED BY <2>1, <2>2, <2>3
<1>2. ASSUME InstallInv, [Next]_vars PROVE [Counted]_vars
  BY <1>1, <1>2
<1>3. InstallInv /\ [Next]_vars => [Counted]_vars
  BY <1>2
<1> QED BY <1>3, InstallationInvariant, PTL DEF Spec, AnswersCountTables

\* A step publishes a whole image, installs a verified bundle or leaves the tables.
LEMMA StepsReplaceWhole ==
    ASSUME InstallInv, [Next]_vars
    PROVE  [Published!Next]_live
<1>1. CASE Publish
  <2>1. /\ job.table \in Table /\ staging[job.table] \in Whole[job.table]
        /\ live' = [live EXCEPT ![job.table] = staging[job.table]]
    BY <1>1, PublishStep
  <2> QED BY <2>1 DEF Published!Next, Published!Replace
<1>2. CASE InstallDownload
  <2>1. /\ live = NoTables /\ live' = Bundled[download.bundle] /\ download.bundle \in Verified
    BY <1>2 DEF InstallDownload, InstallInv, DiskInv, Verified
  <2>2. /\ download.bundle \in DOMAIN [b \in Verified |-> Bundled[b]]
        /\ live' = [b \in Verified |-> Bundled[b]][download.bundle]
    BY <2>1
  <2> QED BY <2>1, <2>2 DEF Published!Next, Published!Install, NoTables
<1>3. ASSUME ~Publish, ~InstallDownload PROVE UNCHANGED live
  <2>1. CASE OpenSource
    BY <2>1 DEF OpenSource, Raise, Skip, BeginScan
  <2>2. ASSUME ~OpenSource PROVE UNCHANGED live
    BY <1>3, <2>2
       DEF Next, vars, StartProcess, VerifyDatabase, BeginDownload, ReceiveBlock, AbandonDownload,
           BeginStartupIngest, FinishStartup, BeginIngest, ScanChunk, EndScan,
           StatementFails, Raise, RegisterUpload, DeleteUpload, PlaceSource, Kill
  <2> QED BY <2>1, <2>2
<1> QED
  BY <1>1, <1>2, <1>3

\* The tables are only ever replaced whole: Installation implements
\* PublishedTables, for all files, chunk sizes and sample sizes.
THEOREM TablesReplacedWholeTheorem == Spec => TablesReplacedWhole
<1>1. Init => Published!Init
  BY DEF Init, Published!Init, NoTables
<1>2. InstallInv /\ [Next]_vars => [Published!Next]_live
  BY StepsReplaceWhole
<1> QED BY <1>1, <1>2, InstallationInvariant, PTL DEF Spec, TablesReplacedWhole, Published!Spec

=============================================================================
