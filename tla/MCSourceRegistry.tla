--------------------------- MODULE MCSourceRegistry ---------------------------
(* The instances of SourceRegistry that TLC checks.                         *)
EXTENDS SourceRegistry, TLC

CONSTANTS t1, t2

TwoSources == {1, 2}
ThreeSources == {1, 2, 3}

\* A dataset and a database to attach; both query-scoped kinds and a dataset.
DatasetDatabase == <<"dataset", "database">>
ReaderIcebergDataset == <<"reader", "iceberg", "dataset">>

ThreadSymmetry == Permutations(Threads)
=============================================================================
