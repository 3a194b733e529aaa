--------------------------- MODULE ImportMapping ---------------------------
(***************************************************************************)
(* How src/tools/importer.py finds the canonical fields in the columns of  *)
(* an upload and which rows it accepts. A file is a record of its columns  *)
(* (name, stripped and in lower case |-> whether the header spells it as   *)
(* SAML-D does) and its rows (column |-> cell). A cell is a record of what *)
(* pandas makes of it: text after strip, number or NaN, whether it is a    *)
(* date. Banks and the payment format, which are copied, are left out.     *)
(***************************************************************************)
EXTENDS Integers, Sequences

CONSTANTS
    NaN,       \* what pandas makes of a text that is no number
    MinRows    \* MIN_ANALYTICAL_ROWS

Required == {"timestamp", "from_account", "to_account", "amount_paid"}

ALIASES ==
    [timestamp |-> <<"timestamp", "date", "txn_date", "transaction_date", "time">>,
     from_account |-> <<"from_account", "sender_id", "sender_account", "account",
                        "account_from", "ordering_customer">>,
     to_account |-> <<"to_account", "receiver_id", "receiver_account", "account.1",
                      "account_to", "beneficiary_customer">>,
     amount_paid |-> <<"amount_paid", "amount", "payment_amount", "value">>,
     amount_received |-> <<"amount_received", "received_amount">>,
     paying_currency |-> <<"paying_currency", "payment_currency", "currency", "currency_code">>,
     receiving_currency |-> <<"receiving_currency", "received_currency">>,
     is_laundering |-> <<"is_laundering", "laundering_flag", "suspicious_label">>]

\* The headings of the IBM exports.
IbmRequired == {"timestamp", "from bank", "account", "to bank", "account.1",
                "amount paid", "payment format"}

IbmMapping(available) ==
    LET get(column, default) == IF column \in available THEN column ELSE default
    IN  [timestamp |-> "timestamp", from_account |-> "account", to_account |-> "account.1",
         amount_paid |-> "amount paid",
         amount_received |-> get("amount received", "amount paid"),
         paying_currency |-> get("paying currency", get("payment currency", "")),
         receiving_currency |-> get("receiving currency", ""),
         is_laundering |-> get("is laundering", "")]

\* The headings of SAML-D that decide its schema, and all of them.
SamlRequired == {"sender_account", "receiver_account", "amount", "is_laundering", "laundering_type"}

SamlSource == SamlRequired \cup
    {"time", "date", "payment_currency", "received_currency", "sender_bank_location",
     "receiver_bank_location", "payment_type"}

SamlMapping == [from_account |-> "sender_account", to_account |-> "receiver_account",
                amount_paid |-> "amount", is_laundering |-> "is_laundering"]

\* Every canonical field is read from the first of its aliases that is there.
GenericMapping(available) ==
    LET Found(c) == {i \in DOMAIN ALIASES[c] : ALIASES[c][i] \in available}
        First(c) == CHOOSE i \in Found(c) : \A j \in Found(c) : i <= j
    IN  [c \in {c \in DOMAIN ALIASES : Found(c) # {}} |-> ALIASES[c][First(c)]]

DetectSchema(available) ==
    IF IbmRequired \subseteq available
    THEN [name |-> "ibm_aml", map |-> IbmMapping(available)]
    ELSE IF SamlRequired \subseteq available
    THEN [name |-> "saml_d", map |-> SamlMapping]
    ELSE LET map == GenericMapping(available)
         IN  [name |-> IF Required \subseteq DOMAIN map THEN "generic_transactions" ELSE "unmapped",
              map |-> map]

-----------------------------------------------------------------------------

\* _series: the cell of a canonical field, the default where no column is mapped.
Cell(row, map, field, default) ==
    IF field \in DOMAIN map /\ map[field] \in DOMAIN row THEN row[map[field]] ELSE default

Text(t) == [text |-> t, number |-> NaN, date |-> FALSE]
Number(n) == [text |-> "", number |-> n, date |-> FALSE]

OrElse(text, default) == IF text = "" THEN default ELSE text

\* Mutant: amounts are only required to be numbers.
InvalidUnlessNumber(row, map) ==
    \/ ~Cell(row, map, "timestamp", Text("")).date
    \/ Cell(row, map, "amount_paid", Text("")).number = NaN
    \/ Cell(row, map, "from_account", Text("")).text = ""
    \/ Cell(row, map, "to_account", Text("")).text = ""

\* The rows normalize_primary_frame refuses, which refuse the whole file.
Invalid(row, map) ==
    LET paid == Cell(row, map, "amount_paid", Text("")).number
    IN  \/ ~Cell(row, map, "timestamp", Text("")).date
        \/ paid = NaN
        \/ paid <= 0
        \/ Cell(row, map, "from_account", Text("")).text = ""
        \/ Cell(row, map, "to_account", Text("")).text = ""

Clip(n) == IF n = NaN \/ n < 0 THEN 0 ELSE IF n > 1 THEN 1 ELSE n

\* One row of the canonical table.
Normalized(row, map) ==
    LET paid == Cell(row, map, "amount_paid", Text("")).number
        received == Cell(row, map, "amount_received", Number(NaN)).number
        paying == OrElse(Cell(row, map, "paying_currency", Text("USD")).text, "USD")
    IN  [from_account |-> Cell(row, map, "from_account", Text("")).text,
         to_account |-> Cell(row, map, "to_account", Text("")).text,
         amount_paid |-> paid,
         amount_received |-> IF received = NaN THEN paid ELSE received,
         paying_currency |-> paying,
         receiving_currency |-> OrElse(Cell(row, map, "receiving_currency", Text("")).text, paying),
         is_laundering |-> Clip(Cell(row, map, "is_laundering", Number(0)).number)]

\* The file is accepted as a primary dataset. Frames are normalised one by
\* one, but an invalid row of any of them refuses the file.
FitsPrimary(file) ==
    LET schema == DetectSchema(DOMAIN file.columns)
    IN  /\ schema.name \notin {"unmapped", "saml_d"}
        /\ \A i \in DOMAIN file.rows : ~Invalid(file.rows[i], schema.map)
        /\ Len(file.rows) >= MinRows

\* The file is accepted as knowledge: the schema is detected whatever the case
\* of the headings, the columns themselves are asked for by their exact names.
FitsKnowledge(file) ==
    /\ DetectSchema(DOMAIN file.columns).name = "saml_d"
    /\ \A c \in SamlSource : c \in DOMAIN file.columns /\ file.columns[c]

PrimaryRows(file) ==
    LET map == DetectSchema(DOMAIN file.columns).map
    IN  [i \in DOMAIN file.rows |-> Normalized(file.rows[i], map)]
=============================================================================
