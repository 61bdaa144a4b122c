--------------------------- MODULE EvidenceEngine ---------------------------
(***************************************************************************)
(* The evidence engine of internal/evidenceapi as its readers meet it: a   *)
(* reader takes the snapshot, then fetches each collection of that         *)
(* revision page by page, while the scanner keeps publishing and the       *)
(* process may restart between any two requests.                           *)
(*                                                                         *)
(* The engine keeps nothing per reader.  A continuation cursor carries the *)
(* position, signed with a key drawn when the process starts; here the key *)
(* is the number of the process.  Each request loads the current           *)
(* publication once, atomically, and answers from it, so a request is one  *)
(* step.  A lost answer is a step the reader never took.                   *)
(*                                                                         *)
(* A collection is its length: an item records only which publication,     *)
(* collection and position it was served from.  What is published, and     *)
(* when, is the specification Publications, which Scanner implements.      *)
(***************************************************************************)
EXTENDS Naturals, Sequences

CONSTANTS
  Readers,
  Routes,        \* the paginated collections
  Limits,        \* page sizes a reader may ask for; 0 asks for the default
  DefaultLimit,  \* DefaultPageSize
  Lengths,       \* how many items a collection may hold
  NoCursor,      \* no continuation
  MaxRevision,   \* bound on the revisions of one process
  MaxProcesses   \* bound on the processes that run one after the other

ASSUME EngineAssumption ==
  /\ Limits \subseteq Nat
  /\ DefaultLimit \in Nat \ {0}
  /\ Lengths \subseteq Nat
  /\ MaxRevision \in Nat
  /\ MaxProcesses \in Nat

VARIABLES
  current,   \* the engine's current publication
  process,   \* the running process, whose cursor key is as good as its number
  reader     \* what each reader has put together

Feed == INSTANCE Publications WITH
  Revisions  <- 1..MaxRevision,
  Evidences  <- [Routes -> Lengths],
  NoEvidence <- [route \in Routes |-> 0]

vars == <<current, process, reader>>

Cursor ==
  [key        : Nat,
   route      : Routes,
   revision   : Nat,
   generation : Nat,
   position   : Nat,
   limit      : Nat \ {0}]

ASSUME NoCursorAssumption == NoCursor \notin Cursor

Item == [process : Nat, generation : Nat, route : Routes, index : Nat]

Reply == {"none", "page", "publication-changed", "invalid-request"}

(* A reader's assembly.  "process", "orderly" and "reply" are remembered   *)
(* for the properties: who served the snapshot, whether every request so   *)
(* far followed the pagination rules, and the last answer.                 *)
Assembly ==
  [assembling : BOOLEAN,
   process    : Nat,
   revision   : Nat,
   generation : Nat,
   cursor     : [Routes -> Cursor \cup {NoCursor}],
   items      : [Routes -> Seq(Item)],
   total      : [Routes -> Nat],
   done       : SUBSET Routes,
   orderly    : BOOLEAN,
   reply      : Reply]

Fresh(revision, generation) ==
  [assembling |-> TRUE,
   process    |-> process,
   revision   |-> revision,
   generation |-> generation,
   cursor     |-> [route \in Routes |-> NoCursor],
   items      |-> [route \in Routes |-> <<>>],
   total      |-> [route \in Routes |-> 0],
   done       |-> {},
   orderly    |-> TRUE,
   reply      |-> "none"]

TypeOK ==
  /\ current \in Feed!CurrentType
  /\ process \in Nat
  /\ reader \in [Readers -> Assembly]

Init ==
  /\ Feed!Init
  /\ process = 1
  /\ reader = [r \in Readers |-> [Fresh(0, 0) EXCEPT !.assembling = FALSE]]

-----------------------------------------------------------------------------
(* One page request q: a revision, a route, a limit and perhaps a cursor.  *)

PageLimit(q) == IF q.limit = 0 THEN DefaultLimit ELSE q.limit

(* The cursor was signed by this process, which is to say by its key. *)
Genuine(cursor) == cursor.key = process

maxCollectionLength(route) == current.evidence[route]

(* Mutant: a cursor is accepted on another collection.                     *)
ResumesAnywhere(q) ==
  /\ Genuine(q.cursor)
  /\ q.cursor.revision = q.revision
  /\ q.cursor.generation = current.generation
  /\ q.cursor.limit = PageLimit(q)
  /\ q.cursor.position # 0
  /\ q.cursor.position < maxCollectionLength(q.route)

(* The cursor is genuine and continues this very request. *)
Resumes(q) ==
  /\ Genuine(q.cursor)
  /\ q.cursor.route = q.route
  /\ q.cursor.revision = q.revision
  /\ q.cursor.generation = current.generation
  /\ q.cursor.limit = PageLimit(q)
  /\ q.cursor.position # 0
  /\ q.cursor.position < maxCollectionLength(q.route)

(* Mutant: any revision is answered from the current publication.          *)
NeverChanged(q) == FALSE

PublicationChanged(q) == q.revision # 0 /\ q.revision # current.revision

InvalidRequest(q) ==
  \/ q.revision = 0
  \/ /\ ~PublicationChanged(q)
     /\ current.generation = 0 \/ (q.cursor # NoCursor /\ ~Resumes(q))

Start(q) == IF q.cursor = NoCursor THEN 0 ELSE q.cursor.position

End(q) ==
  IF Start(q) + PageLimit(q) <= maxCollectionLength(q.route)
  THEN Start(q) + PageLimit(q)
  ELSE maxCollectionLength(q.route)

PageItems(q) ==
  [i \in 1 .. (End(q) - Start(q)) |->
     [process    |-> process,
      generation |-> current.generation,
      route      |-> q.route,
      index      |-> Start(q) + i]]

(* Mutant: a cursor past the last item.                                    *)
CursorAtEnd(q) ==
  IF End(q) <= maxCollectionLength(q.route)
  THEN [key        |-> process,
        route      |-> q.route,
        revision   |-> current.revision,
        generation |-> current.generation,
        position   |-> End(q),
        limit      |-> PageLimit(q)]
  ELSE NoCursor

NextCursor(q) ==
  IF End(q) < maxCollectionLength(q.route)
  THEN [key        |-> process,
        route      |-> q.route,
        revision   |-> current.revision,
        generation |-> current.generation,
        position   |-> End(q),
        limit      |-> PageLimit(q)]
  ELSE NoCursor

-----------------------------------------------------------------------------
(* The steps of a reader *)

ReadSnapshot(r) ==
  /\ reader' = [reader EXCEPT ![r] = Fresh(current.revision, current.generation)]
  /\ UNCHANGED <<current, process>>

(* The pagination rules: ask for pages of known evidence only, and         *)
(* continue a collection with its own cursor and limit.                    *)
FollowsRules(a, q) ==
  /\ a.generation # 0
  /\ q.cursor = a.cursor[q.route]
  /\ q.cursor # NoCursor => PageLimit(q) = q.cursor.limit

(* A reader may mix up its cursors and limits, but does not fetch the      *)
(* first page of a collection twice.                                       *)
Requests(a) ==
  {q \in [revision : {a.revision},
          route    : Routes \ a.done,
          limit    : Limits,
          cursor   : {a.cursor[route] : route \in Routes}] :
     q.cursor = NoCursor => a.items[q.route] = <<>>}

(* An error ends the assembly; the reader starts over from the snapshot.   *)
Discarded(a, q, reply) ==
  [a EXCEPT !.assembling = FALSE,
            !.orderly    = a.orderly /\ FollowsRules(a, q),
            !.reply      = reply]

Collected(a, q) ==
  [a EXCEPT !.cursor  = [a.cursor EXCEPT ![q.route] = NextCursor(q)],
            !.items   = [a.items EXCEPT ![q.route] = @ \o PageItems(q)],
            !.total   = [a.total EXCEPT ![q.route] = maxCollectionLength(q.route)],
            !.done    = a.done \cup (IF NextCursor(q) = NoCursor THEN {q.route} ELSE {}),
            !.orderly = a.orderly /\ FollowsRules(a, q),
            !.reply   = "page"]

Discard(r, q, reply) ==
  reader' = [reader EXCEPT ![r] = Discarded(reader[r], q, reply)]

Collect(r, q) == reader' = [reader EXCEPT ![r] = Collected(reader[r], q)]

RequestPage(r) ==
  /\ reader[r].assembling
  /\ \E q \in Requests(reader[r]) :
       \/ PublicationChanged(q) /\ Discard(r, q, "publication-changed")
       \/ InvalidRequest(q) /\ Discard(r, q, "invalid-request")
       \/ /\ ~PublicationChanged(q) /\ ~InvalidRequest(q)
          /\ Collect(r, q)
  /\ UNCHANGED <<current, process>>

(* The steps of the scanner and of the process *)

PublishComplete == Feed!PublishComplete /\ UNCHANGED <<process, reader>>

PublishFailure == Feed!PublishFailure /\ UNCHANGED <<process, reader>>

(* NewEngine draws a new cursor key. *)
Restart ==
  /\ process < MaxProcesses
  /\ process' = process + 1
  /\ Feed!Restart
  /\ UNCHANGED reader

Next ==
  \/ \E r \in Readers : ReadSnapshot(r) \/ RequestPage(r)
  \/ PublishComplete
  \/ PublishFailure
  \/ Restart

Spec == Init /\ [][Next]_vars

-----------------------------------------------------------------------------
(* Properties *)

(* A collection read to its end is one publication's collection, complete, *)
(* in order and without repetition; one being read is a beginning of it.   *)
(* "A reader either finishes a collection consistently within one          *)
(* generation, or is told the publication changed."                        *)
CollectionsAreWhole ==
  \A r \in Readers : \A route \in Routes :
    LET items == reader[r].items[route]
    IN  reader[r].assembling =>
          /\ \A i \in 1..Len(items) :
               /\ items[i] = [items[1] EXCEPT !.index = i]
               /\ items[i].route = route
          /\ route \in reader[r].done => Len(items) = reader[r].total[route]

(* While the process that served the snapshot runs, everything assembled   *)
(* from it is of that snapshot's publication.                              *)
AssemblyMatchesSnapshot ==
  \A r \in Readers : \A route \in Routes :
    reader[r].assembling /\ reader[r].process = process =>
      \A i \in 1..Len(reader[r].items[route]) :
        /\ reader[r].items[route][i].process = process
        /\ reader[r].items[route][i].generation = reader[r].generation

(* A reader that follows the rules is never told that its request is       *)
(* invalid, unless the process restarted: it finishes, or is told that the *)
(* publication changed.                                                    *)
OrderlyReaderIsServed ==
  \A r \in Readers :
    reader[r].orderly /\ reader[r].reply = "invalid-request" =>
      reader[r].process # process

=============================================================================
