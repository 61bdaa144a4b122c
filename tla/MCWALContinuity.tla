-------------------------- MODULE MCWALContinuity --------------------------
(* Segments 0, 3 and 4 of log 0, and 0 of log 1.  With four segments per   *)
(* log file 0/3 and 1/0 are adjacent and 0/4 does not exist; with eight,   *)
(* 0/4 exists and a hole precedes 1/0.  Segment 0/3 is archived twice, 0/5 *)
(* only partially, 1/0 also outside its directory, under a name with a     *)
(* control character, and one segment is of another timeline.              *)
(*                                                                         *)
(* One backup records four segments per log file, one eight, one records   *)
(* no size and one was taken by a version that is too old.                 *)
EXTENDS WALContinuity

Object(place, form, timeline, log, segment) ==
  [key |-> IF place = "elsewhere" THEN "control" ELSE "printable",
   place |-> place, form |-> form, suffix |-> "known",
   timeline |-> timeline, log |-> log, segment |-> segment]

MCObjects ==
  << Object("hash-directory", "segment", 1, 0, 0),
     Object("hash-directory", "segment", 1, 0, 3),
     Object("hash-directory", "segment", 1, 0, 3),
     Object("hash-directory", "segment", 1, 0, 4),
     Object("hash-directory", "partial", 1, 0, 5),
     Object("hash-directory", "segment", 1, 1, 0),
     Object("hash-directory", "segment", 2, 1, 3),
     Object("elsewhere",      "segment", 1, 1, 0) >>

MCMetadata ==
  {[version |-> 14, segments |-> 4],
   [version |-> 14, segments |-> 8],
   [version |-> 14, segments |-> 0],
   [version |-> 8,  segments |-> 4]}

=============================================================================
