---------------------------- MODULE MCDownloadJobs ----------------------------
\* Small instances of DownloadJobs: the models "one" and "two" share a directory,
\* "other" has one of its own.
EXTENDS DownloadJobs

MCTargetOf == [k \in Keys |-> IF k = "other" THEN "t2" ELSE "t1"]
=============================================================================
