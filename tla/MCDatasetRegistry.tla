-------------------------- MODULE MCDatasetRegistry --------------------------
(***************************************************************************)
(* DatasetRegistry for TLC: one content that is a transaction file and can *)
(* be uploaded as kyc as well, or two transaction files.                   *)
(***************************************************************************)
EXTENDS DatasetRegistry, TLC

CONSTANTS c1, c2, r1, r2

\* c1 is the only one in runs with one content.
MCFits == [c \in Content |-> IF c = c1 THEN {"primary", "kyc"} ELSE {"primary"}]

\* The first start has ingested both sources, or none.
DeployedOrEmpty == {{}, Activatable}

\* The first start has ingested both sources.
Deployed == {Activatable}

\* Every content is a transaction file and nothing else.
TransactionFiles == [c \in Content |-> {"primary"}]

\* Sound for TransactionFiles, which treats contents alike.
RequestsAndContents == Permutations(Request) \union Permutations(Content)
=============================================================================
