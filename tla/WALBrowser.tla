---------------------------- MODULE WALBrowser ----------------------------
(***************************************************************************)
(* The WAL page of the web interface: a reader asks for the ranges, gaps   *)
(* and diagnostics of the archive under a filter and follows the links     *)
(* from page to page, while the scanner publishes new snapshots.  Every    *)
(* request is answered from the snapshot current at that moment; nothing   *)
(* is kept between two of them but what the link carries.                  *)
(*                                                                         *)
(* A catalog is the sequence of servers of BarmanWAL.  A name is a WAL     *)
(* segment name, which is a position only under a segment size; a server   *)
(* knows its segments per log file, or 0 when the context is unknown.      *)
(***************************************************************************)
EXTENDS Integers, Sequences, SequencesExt

CONSTANTS
  Catalogs,     \* the WAL catalogs scans may publish
  Queries,      \* what readers type into the form
  PageSize,     \* WAL_PAGE_SIZE
  MaxPage,      \* the largest page number a request may have
  MaxSnapshots  \* bound: publications in one behaviour

DiagnosticClass == {"partial", "history", "backup-history", "unknown", "duplicate"}
RowClass == {"segment", "gap"} \cup DiagnosticClass

NoName  == [timeline |-> 0, log |-> 0, seg |-> 0]
Garbled == [timeline |-> 0, log |-> 0, seg |-> 1]

Name == [timeline : Nat, log : Nat, seg : Nat]

LeftOut == ""

WALSpan       == [timeline : Nat, start : Nat, end : Nat]
WALDiagnostic == [class : DiagnosticClass, timeline : Nat, name : Name, key : Nat]

(* A form or a link.  LeftOut and NoName are parameters left out; a page   *)
(* or a timeline is 0 when left out, -1 when not a number above 0.         *)
IsQuery(q) ==
  /\ DOMAIN q = {"server", "class", "timeline", "start", "end", "page"}
  /\ q.timeline \in Int /\ q.page \in Int
  /\ q.start \in Name /\ q.end \in Name

(* A catalog of BarmanWAL: ranges and gaps are positions, no two begin at  *)
(* the same one, and every diagnostic has the key of an object of its own. *)
IsServer(s) ==
  /\ s.segs \in Nat
  /\ s.ranges \in Seq(WALSpan) /\ s.gaps \in Seq(WALSpan)
  /\ \A spans \in {s.ranges, s.gaps} : \A i, j \in DOMAIN spans :
       /\ spans[i].start <= spans[i].end
       /\ i # j => spans[i].timeline # spans[j].timeline \/ spans[i].start # spans[j].start
  /\ s.diagnostics \in Seq(WALDiagnostic)
  /\ \A i, j \in DOMAIN s.diagnostics : i # j => s.diagnostics[i].key # s.diagnostics[j].key

IsCatalog(servers) ==
  /\ DOMAIN servers = 1..Len(servers) /\ Len(servers) \in Nat
  /\ \A i \in DOMAIN servers : IsServer(servers[i])
  /\ \A i, j \in DOMAIN servers : i # j => servers[i].server # servers[j].server

ASSUME BrowserConstants ==
  /\ PageSize \in Nat \ {0} /\ MaxPage \in Nat \ {0} /\ MaxSnapshots \in Nat
  /\ \A q \in Queries : IsQuery(q)
  /\ \A servers \in Catalogs : IsCatalog(servers)

VARIABLES
  snapshot,   \* the cached snapshot: its WAL catalog, generation, stale; its process
  published,  \* complete scans published so far
  view,       \* what the reader's browser shows
  trail       \* the pages the reader came by, from the first one on

browserVars == <<snapshot, published, view, trail>>

(* ParseWALName under the segment size of a server. *)
ParseWALName(name, segs) ==
  IF name.timeline = 0 \/ segs = 0 \/ name.seg >= segs
    THEN [ok |-> FALSE, timeline |-> 0, position |-> 0]
    ELSE [ok |-> TRUE, timeline |-> name.timeline, position |-> name.log * segs + name.seg]

findWALServer(servers, name) ==
  LET found == {i \in DOMAIN servers : servers[i].server = name}
  IN  IF found = {} THEN [server |-> LeftOut, segs |-> 0]
                    ELSE servers[CHOOSE i \in found : TRUE]

-----------------------------------------------------------------------------
(* parseWALFilter. *)
BadFilter == [server |-> LeftOut, class |-> LeftOut, timeline |-> 0, start |-> NoName,
              end |-> NoName, page |-> 0]

FilterClass(query) == IF query.class = LeftOut THEN "all" ELSE query.class

(* A bound of the span that does not parse, or not on the timeline given.  *)
Misfits(name, query, segs) ==
  LET parsed == ParseWALName(name, segs)
  IN  ~parsed.ok \/ (query.timeline # 0 /\ query.timeline # parsed.timeline)

RefusesFilter(query, servers) ==
  LET segs   == findWALServer(servers, query.server).segs
      start  == ParseWALName(query.start, segs)
      end    == ParseWALName(query.end, segs)
      starts == query.start # NoName
      ends   == query.end # NoName
  IN  \/ FilterClass(query) \notin RowClass \cup {"all"}
      \/ query.server # LeftOut /\ \A i \in DOMAIN servers : servers[i].server # query.server
      \/ query.timeline < 0
      \/ (starts \/ ends) /\ (query.server = LeftOut \/ segs = 0)
      \/ starts /\ Misfits(query.start, query, segs)
      \/ ends /\ Misfits(query.end, query, segs)
      \/ starts /\ ends /\ (start.timeline # end.timeline \/ start.position > end.position)
      \/ query.page < 0 \/ query.page > MaxPage

(* The timeline asked for, or the one the span is on. *)
FilterTimeline(query, segs) ==
  IF query.timeline # 0 THEN query.timeline
  ELSE IF query.start # NoName THEN ParseWALName(query.start, segs).timeline
  ELSE IF query.end # NoName THEN ParseWALName(query.end, segs).timeline
  ELSE 0

parseWALFilter(query, servers) ==
  IF RefusesFilter(query, servers)
  THEN BadFilter
  ELSE [server   |-> query.server,
        class    |-> FilterClass(query),
        timeline |-> FilterTimeline(query, findWALServer(servers, query.server).segs),
        start    |-> query.start,
        end      |-> query.end,
        page     |-> IF query.page = 0 THEN 1 ELSE query.page]

(* Mutant: the link has the span and not the server it is on. *)
walPageURLWithoutServer(filter, page) ==
  [server |-> LeftOut, class |-> IF filter.class = "all" THEN LeftOut ELSE filter.class,
   timeline |-> filter.timeline, start |-> filter.start, end |-> filter.end,
   page |-> IF page > 1 THEN page ELSE 0]

(* walPageURL, read back as the query it sends. *)
walPageURL(filter, page) ==
  [server   |-> filter.server,
   class    |-> IF filter.class = "all" THEN LeftOut ELSE filter.class,
   timeline |-> filter.timeline,
   start    |-> filter.start,
   end      |-> filter.end,
   page     |-> IF page > 1 THEN page ELSE 0]

-----------------------------------------------------------------------------
(* The rows of one server: ranges and gaps have positions, a diagnostic    *)
(* has one if its name parses, and then the timeline of its name.          *)
Row(server, class, timeline, placed, start, end, key) ==
  [server |-> server, class |-> class, timeline |-> timeline, placed |-> placed,
   start |-> start, end |-> end, key |-> key]

SpanRow(s, class, span) == Row(s.server, class, span.timeline, TRUE, span.start, span.end, 0)

DiagnosticRow(s, d) ==
  LET parsed == ParseWALName(d.name, s.segs)
  IN  IF parsed.ok
        THEN Row(s.server, d.class, parsed.timeline, TRUE, parsed.position, parsed.position, d.key)
        ELSE Row(s.server, d.class, d.timeline, FALSE, 0, 0, d.key)

ServerRows(s) ==
  [i \in DOMAIN s.ranges |-> SpanRow(s, "segment", s.ranges[i])]
    \o [i \in DOMAIN s.gaps |-> SpanRow(s, "gap", s.gaps[i])]
    \o [i \in DOMAIN s.diagnostics |-> DiagnosticRow(s, s.diagnostics[i])]

includeWALRow(row, s, filter) ==
  /\ filter.class \in {"all", row.class}
  /\ filter.timeline \in {0, row.timeline}
  /\ filter.start # NoName \/ filter.end # NoName => row.placed
  /\ filter.start # NoName => row.end >= ParseWALName(filter.start, s.segs).position
  /\ filter.end # NoName => row.start <= ParseWALName(filter.end, s.segs).position

(* The order within a server: the classes by their names; the key breaks   *)
(* every tie that is left.                                                 *)
ClassOrder == <<"backup-history", "duplicate", "gap", "history", "partial", "segment", "unknown">>
Rank(class) == CHOOSE i \in DOMAIN ClassOrder : ClassOrder[i] = class

Before(left, right) ==
  \/ left.timeline < right.timeline
  \/ /\ left.timeline = right.timeline
     /\ \/ left.placed /\ ~right.placed
        \/ /\ left.placed = right.placed
           /\ \/ left.start < right.start
              \/ /\ left.start = right.start
                 /\ \/ Rank(left.class) < Rank(right.class)
                    \/ left.class = right.class /\ left.key < right.key

Clamped(n, low, high) == IF n < low THEN low ELSE IF n > high THEN high ELSE n

(* Rows in their order: one has the place that as many come before.        *)
PlaceOf(row, rows) == Cardinality({other \in rows : Before(other, row)})
Arranged(rows)     == [i \in 1..Cardinality(rows) |-> CHOOSE row \in rows : PlaceOf(row, rows) = i - 1]

(* The rows of a server that the filter lets through, in their order.      *)
MatchingRows(s, filter) == {row \in ToSet(ServerRows(s)) : includeWALRow(row, s, filter)}
SortedRows(s, filter)   == Arranged(MatchingRows(s, filter))

NothingFound == [rows |-> <<>>, total |-> 0]

(* Mutant: a page that ends within a server is filled from the start of    *)
(* the next one, whatever was shown before.                                *)
cutFromServerStart(found, s, filter, pageStart) ==
  LET rows == SortedRows(s, filter)
      to   == Clamped(pageStart + PageSize - found.total, 0, Len(rows))
  IN  IF filter.server \notin {LeftOut, s.server} THEN found
      ELSE [rows |-> found.rows \o SubSeq(rows, 1, to), total |-> found.total + Len(rows)]

(* One server is sorted, its part of the page is cut out, and only the     *)
(* count of the others is kept.                                            *)
cutServerRows(found, s, filter, pageStart) ==
  LET rows == SortedRows(s, filter)
      from == Clamped(pageStart - found.total, 0, Len(rows))
      to   == Clamped(pageStart + PageSize - found.total, 0, Len(rows))
  IN  IF filter.server \notin {LeftOut, s.server} THEN found
      ELSE [rows |-> found.rows \o SubSeq(rows, from + 1, to), total |-> found.total + Len(rows)]

(* filterWALRows: one server after the other. *)
filterWALRows(servers, filter, pageStart) ==
  LET found[n \in 0..Len(servers)] ==
        IF n = 0 THEN NothingFound
        ELSE cutServerRows(found[n - 1], servers[n], filter, pageStart)
  IN  found[Len(servers)]

-----------------------------------------------------------------------------
NoLink == [server |-> LeftOut, class |-> LeftOut, timeline |-> 0, start |-> NoName, end |-> NoName,
           page |-> -1]

NoView == [status |-> "blank", query |-> NoLink, filter |-> BadFilter, rows |-> <<>>,
           totalRows |-> 0, totalPages |-> 0, previous |-> NoLink, next |-> NoLink,
           generation |-> 0, process |-> 0, segs |-> 0]

NoTrail == [pages |-> 0, rows |-> <<>>]

(* Handler.wals, answering query; asked is what the reader typed first. *)
wals(query, asked) ==
  LET servers   == snapshot.servers
      filter    == parseWALFilter(query, servers)
      pageStart == (filter.page - 1) * PageSize
      found     == filterWALRows(servers, filter, pageStart)
  IN  IF filter = BadFilter
        THEN [NoView EXCEPT !.status = "bad request"]
        ELSE [status     |-> "page", query |-> asked, filter |-> filter,
              rows       |-> found.rows,
              totalRows  |-> found.total,
              totalPages |-> (found.total + PageSize - 1) \div PageSize,
              previous   |-> IF filter.page > 1 THEN walPageURL(filter, filter.page - 1) ELSE NoLink,
              next       |-> IF pageStart + Len(found.rows) < found.total
                               THEN walPageURL(filter, filter.page + 1) ELSE NoLink,
              generation |-> snapshot.generation,
              process    |-> snapshot.process,
              segs       |-> findWALServer(servers, filter.server).segs]

(* The reader's notes: pages from the first one on, each the next link of  *)
(* the one before, all of one generation of one process.                   *)
Follow(page, linked) ==
  IF page.status # "page" THEN NoTrail
  ELSE IF page.filter.page = 1 THEN [pages |-> 1, rows |-> page.rows]
  ELSE IF /\ linked /\ trail.pages > 0
          /\ page.generation = view.generation /\ page.process = view.process
    THEN [pages |-> trail.pages + 1, rows |-> trail.rows \o page.rows]
    ELSE NoTrail

Show(query, asked, linked) ==
  LET page == wals(query, asked)
  IN  /\ view' = page
      /\ trail' = Follow(page, linked)
      /\ UNCHANGED <<snapshot, published>>

Initial(process) == [servers |-> <<>>, generation |-> 0, stale |-> FALSE, process |-> process]

BrowserInit ==
  /\ snapshot = Initial(1)
  /\ published = 0
  /\ view = NoView
  /\ trail = NoTrail

Submit(query) == Show(query, query, FALSE)

FollowNext == view.next # NoLink /\ Show(view.next, view.query, TRUE)

FollowPrevious == view.previous # NoLink /\ Show(view.previous, view.query, FALSE)

(* A complete scan is published with the next generation. *)
Publish(servers) ==
  /\ published < MaxSnapshots
  /\ published' = published + 1
  /\ snapshot' = [snapshot EXCEPT !.servers = servers, !.generation = @ + 1, !.stale = FALSE]
  /\ UNCHANGED <<view, trail>>

(* A failed refresh keeps the last complete evidence and its generation. *)
PublishFailure ==
  /\ ~snapshot.stale /\ snapshot.generation > 0
  /\ snapshot' = [snapshot EXCEPT !.stale = TRUE]
  /\ UNCHANGED <<published, view, trail>>

RestartViewer ==
  /\ snapshot.process = 1
  /\ snapshot' = Initial(2)
  /\ UNCHANGED <<published, view, trail>>

BrowserNext ==
  \/ \E query \in Queries : Submit(query)
  \/ FollowNext
  \/ FollowPrevious
  \/ \E servers \in Catalogs : Publish(servers)
  \/ PublishFailure
  \/ RestartViewer

BrowserSpec == BrowserInit /\ [][BrowserNext]_browserVars

-----------------------------------------------------------------------------
(* What a query asks for, row by row: the positions of the row meet the    *)
(* span asked for, on the timeline the span is on.                         *)
Asked(row, query, segs) ==
  LET low  == ParseWALName(query.start, segs)
      high == ParseWALName(query.end, segs)
  IN  /\ query.server \in {LeftOut, row.server}
      /\ query.class \in {LeftOut, "all", row.class}
      /\ query.timeline \in {0, row.timeline}
      /\ (low.ok \/ high.ok) =>
           /\ row.placed
           /\ \A bound \in {b \in {low, high} : b.ok} : bound.timeline = row.timeline
           /\ \E p \in row.start..row.end : (low.ok => low.position <= p)
                                           /\ (high.ok => p <= high.position)

(* The pages of one generation, followed from the first to the last, are   *)
(* exactly the rows asked for: none twice, none left out where a page ends *)
(* within a server, in one order, whether or not refreshes failed in       *)
(* between; the totals shown agree with them.  web/wal.go:254.             *)
PagesCompose ==
  LET current == view.generation = snapshot.generation /\ view.process = snapshot.process
      Index(row) == CHOOSE i \in DOMAIN snapshot.servers : snapshot.servers[i].server = row.server
      wanted  == {row \in UNION {ToSet(ServerRows(snapshot.servers[i])) : i \in DOMAIN snapshot.servers} :
                    Asked(row, view.query, view.segs)}
  IN  view.status = "page" /\ trail.pages > 0 /\ view.next = NoLink /\ current =>
        /\ ToSet(trail.rows) = wanted
        /\ \A i, j \in DOMAIN trail.rows : i < j =>
             LET a == trail.rows[i] b == trail.rows[j]
             IN  Index(a) < Index(b) \/ (Index(a) = Index(b) /\ Before(a, b))
        /\ view.totalRows = Len(trail.rows)
        /\ trail.pages = IF wanted = {} THEN 1 ELSE view.totalPages

(* A link means the neighbouring page under the same filter, also for the  *)
(* snapshots published after the page was shown: it is refused only past   *)
(* the largest page number, or when its server is gone or has lost the     *)
(* segment size its bounds were read with.                                 *)
LinksAreAccepted ==
  \A step \in {1, -1} :
    LET link   == IF step = 1 THEN view.next ELSE view.previous
        filter == parseWALFilter(link, snapshot.servers)
    IN  view.status = "page" /\ link # NoLink =>
          IF filter # BadFilter
            THEN filter = [view.filter EXCEPT !.page = @ + step]
            ELSE \/ view.filter.page = MaxPage /\ step = 1
                 \/ /\ view.filter.server # LeftOut
                    /\ \/ \A i \in DOMAIN snapshot.servers :
                            snapshot.servers[i].server # view.filter.server
                       \/ findWALServer(snapshot.servers, view.filter.server).segs # view.segs
=============================================================================
