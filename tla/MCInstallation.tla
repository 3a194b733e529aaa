-------------------------- MODULE MCInstallation --------------------------
EXTENDS Installation, TLC

CONSTANTS f1, f2, f3, f4, b1, b2

MCFile == {f1, f2, f3, f4}
\* A file of five rows, a shorter one, an empty one, one that is malformed.
MCLabels == f1 :> <<0, 1, 0, 2, 0>> @@ f2 :> <<1, 0>> @@ f3 :> <<>> @@ f4 :> <<0>>
MCMalformed == {f4}
MCKey == <<2, 3, 1, 5, 4>>

MCBundle == {b1, b2}
MCSize == b1 :> 2 @@ b2 :> 1
BundleTable(b) == [file |-> b, rows |-> 1..4]
\* The second bundle has only one of the tables.
MCBundled ==
    b1 :> [t \in Table |-> BundleTable(b1)] @@
    b2 :> [t \in Table |-> IF t = "transactions" THEN BundleTable(b2) ELSE NoTable]

Cell1 == [text |-> "a", number |-> NaN, date |-> TRUE]
NumberCell(n) == [text |-> "n", number |-> n, date |-> FALSE]
Columns(names) == [c \in names |-> TRUE]
RowOf(names, amount, label) ==
    [c \in names |-> IF c = "amount" \/ c = "amount paid" THEN NumberCell(amount)
                     ELSE IF c = "is_laundering" \/ c = "is laundering" THEN NumberCell(label)
                     ELSE Cell1]
UploadOf(names, amounts, label) ==
    [columns |-> Columns(names), rows |-> [i \in DOMAIN amounts |-> RowOf(names, amounts[i], label)]]

\* A generic file, the same with an amount of zero, an IBM file without a
\* label, a SAML-D file, and one with other headings than the schema asks for.
Generic == {"date", "sender_id", "receiver_id", "amount", "suspicious_label"}
MCUpload ==
    {UploadOf(Generic, <<7, 8>>, 1), UploadOf(Generic, <<7, 0>>, 1),
     UploadOf(IbmRequired, <<5, 5>>, 0), UploadOf(SamlSource, <<3>>, 2), UploadOf({"foo"}, <<1>>, 1)}
=============================================================================
