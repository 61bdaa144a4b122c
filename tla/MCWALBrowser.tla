---------------------------- MODULE MCWALBrowser ----------------------------
(***************************************************************************)
(* Two servers whose rows straddle page ends, on two timelines, with       *)
(* diagnostics that have a position and ones that have none; the same with *)
(* another segment size, without one server, and without a context.        *)
(***************************************************************************)
EXTENDS WALBrowser

WALName(tli, log, seg) == [timeline |-> tli, log |-> log, seg |-> seg]
Span(tli, first, last) == [timeline |-> tli, start |-> first, end |-> last]
Diagnostic(class, tli, name, key) ==
  [class |-> class, timeline |-> tli, name |-> name, key |-> key]

Alpha(segs) ==
  [server |-> "alpha", segs |-> segs,
   ranges |-> <<Span(1, 0, 1), Span(1, 3, 3), Span(2, 4, 5)>>,
   gaps   |-> <<Span(1, 2, 2)>>,
   diagnostics |-> <<Diagnostic("partial", 1, WALName(1, 1, 1), 1),
                     Diagnostic("duplicate", 1, WALName(1, 1, 1), 2),
                     Diagnostic("history", 2, Garbled, 3),
                     Diagnostic("unknown", 0, Garbled, 4),
                     Diagnostic("unknown", 0, Garbled, 5)>>]

Beta == [server |-> "beta", segs |-> 2, ranges |-> <<Span(1, 0, 0), Span(1, 2, 4)>>,
         gaps |-> <<Span(1, 1, 1)>>, diagnostics |-> <<>>]

NoContext == [Alpha(0) EXCEPT !.ranges = <<>>, !.gaps = <<>>]

MCCatalogs == {<<Alpha(2), Beta>>, <<Alpha(4)>>, <<NoContext, Beta>>}

MCNames == {NoName, Garbled, WALName(1, 0, 1), WALName(1, 1, 1), WALName(2, 1, 0), WALName(1, 0, 3)}

MCQueries ==
  [server : {"", "alpha", "beta", "gamma"}, class : {"", "segment", "unknown", "other"},
   timeline : {-1, 0, 1}, start : {NoName}, end : {NoName}, page : {0}]
  \cup [server : {"alpha", "beta"}, class : {""}, timeline : {0, 1},
        start : MCNames, end : MCNames, page : {0}]
  \cup [server : {"", "alpha"}, class : {"gap"}, timeline : {0},
        start : {WALName(1, 0, 1)}, end : MCNames, page : {1}]
  \cup [server : {"", "alpha"}, class : {"all"}, timeline : {0},
        start : {NoName}, end : {NoName}, page : {-1, 2, MaxPage, MaxPage + 1}]
=============================================================================
