----------------------------- MODULE MCScanner -----------------------------
(* A small barman-cloud repository: one or two cursors, two catalogs, and  *)
(* recovery verdicts of every form.                                        *)
EXTENDS Scanner

CONSTANTS c1, c2

MCCursors == {c1, c2}
MCOneCursor == {c1}

MCCategories == {FaultUnknown}

MCCatalogOutcomes ==
  {[backups |-> {Healthy}, wal |-> {Healthy}],
   [backups |-> {Healthy, Unhealthy}, wal |-> {Warning}]}

MCRecoveryOutcomes ==
  {[timeline  |-> {Healthy},
    coverage  |-> {Healthy},
    retention |-> IF form = "ok" THEN {Healthy} ELSE {},
    form      |-> form] : form \in Forms}

MCOneCatalog == {[backups |-> {Healthy}, wal |-> {Healthy}]}
MCOneRecovery ==
  {[timeline |-> {Healthy}, coverage |-> {Healthy}, retention |-> {Healthy},
    form |-> "ok"]}

MCTimes == {1, 2}
=============================================================================
