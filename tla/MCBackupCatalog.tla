-------------------------- MODULE MCBackupCatalog --------------------------
(* A directory with a tablespace, a split archive, and archives under two  *)
(* compressions.                                                           *)
EXTENDS BackupCatalog

CONSTANTS oid

Tar(root, part, extension) == [root |-> root, part |-> part, extension |-> extension]

Plan(tablespaces, compression, artifacts) ==
  [tablespaces |-> tablespaces, compression |-> compression, supportedType |-> TRUE,
   artifacts |-> artifacts]

(* A tablespace is named with digits, which sort before "backup.info". *)
MCKeys ==
  << Tar(oid, 0, ".gz"), MetadataKey, Tar("data", 0, ""), Tar("data", 0, ".gz"), Tar("data", 1, ".gz") >>

MCPlans ==
  { Plan({}, "gzip", {Tar("data", 0, ".gz"), Tar("data", 1, ".gz")}),
    Plan({oid}, "gzip", {Tar(oid, 0, ".gz"), Tar("data", 0, ".gz"), Tar("data", 1, ".gz")}),
    Plan({oid}, "", {Tar(oid, 0, ".gz"), Tar("data", 0, "")}),
    Plan({}, "unrecognized", {Tar("data", 0, "")}),
    [Plan({}, "", {}) EXCEPT !.supportedType = FALSE] }

(* An archive of another compression, and the continuation of one.         *)
MCLeftovers == {Tar("data", 0, ""), Tar("data", 1, ".gz")}
=============================================================================
