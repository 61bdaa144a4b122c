---------------------------- MODULE EngineProofs ----------------------------
(***************************************************************************)
(* Proofs about pagination, for any number of readers, collections, page   *)
(* sizes, publications and restarts: what a reader puts together page by   *)
(* page is one publication's collection.                                   *)
(***************************************************************************)
EXTENDS EvidenceEngine, TLAPS

(* What reader a has of one collection, while pub is the publication and   *)
(* proc the process.  Its cursor, if it has one, continues exactly there.  *)
CollectionInv(a, route, pub, proc) ==
  LET items  == a.items[route]
      cursor == a.cursor[route]
  IN  /\ \A i \in 1..Len(items) :
           /\ items[i].route = route
           /\ items[i].index = i
           /\ items[i].process = items[1].process
           /\ items[i].generation = items[1].generation
           /\ a.process <= items[i].process /\ items[i].process <= proc
           /\ a.process = proc => items[i].generation = a.generation
      /\ route \in a.done => Len(items) = a.total[route]
      /\ cursor # NoCursor =>
           /\ cursor.route = route
           /\ cursor.revision = a.revision
           /\ cursor.position = Len(items) /\ cursor.position # 0
           /\ cursor.key = items[1].process
           /\ cursor.generation = items[1].generation
           /\ a.process = proc /\ a.revision = pub.revision =>
                cursor.position < pub.evidence[route]

(* A reader against the publication that is current.  In one process a     *)
(* revision stands for one generation.                                     *)
ReaderInv(a, pub, proc) ==
  /\ a.process <= proc
  /\ a.generation # 0 => a.revision # 0
  /\ a.process = proc => /\ a.revision <= pub.revision
                         /\ a.revision = pub.revision => a.generation = pub.generation
  /\ a.orderly /\ a.reply = "invalid-request" => a.process # proc
  /\ a.assembling => \A route \in Routes : CollectionInv(a, route, pub, proc)

EngineInv ==
  /\ TypeOK
  /\ current.generation # 0 => current.revision # 0
  /\ \A r \in Readers : ReaderInv(reader[r], current, process)

-----------------------------------------------------------------------------
LEMMA CurrentFacts ==
  ASSUME NEW pub \in Feed!CurrentType
  PROVE  /\ pub.revision \in Nat /\ pub.generation \in Nat
         /\ \A route \in Routes : pub.evidence[route] \in Nat
<1>1. pub.evidence \in [Routes -> Lengths] \cup {[route \in Routes |-> 0]}
  BY DEF Feed!CurrentType
<1>2. pub.revision \in Nat /\ pub.generation \in Nat
  BY DEF Feed!CurrentType
<1>3. \A route \in Routes : pub.evidence[route] \in Nat
  <2>1. CASE pub.evidence \in [Routes -> Lengths]
    BY <2>1, EngineAssumption
  <2>2. CASE pub.evidence = [route \in Routes |-> 0]
    BY <2>2
  <2> QED
    BY <1>1, <2>1, <2>2
<1> QED
  BY <1>2, <1>3

LEMMA FreshFacts ==
  ASSUME NEW revision \in Nat, NEW generation \in Nat, process \in Nat
  PROVE  LET a == Fresh(revision, generation)
         IN  /\ a \in Assembly
             /\ a.process = process /\ a.revision = revision /\ a.generation = generation
             /\ a.reply = "none"
             /\ \A route \in Routes : /\ a.items[route] = <<>>
                                      /\ a.cursor[route] = NoCursor
                                      /\ route \notin a.done
BY DEF Fresh, Assembly, Reply

(* Readers do not notice that something else is published: what they have  *)
(* is of another revision from now on.                                     *)
LEMMA PublishedKeeps ==
  ASSUME NEW a \in Assembly, NEW pub \in Feed!CurrentType, NEW new \in Feed!CurrentType,
         NEW proc \in Nat, ReaderInv(a, pub, proc), new.revision > pub.revision
  PROVE  ReaderInv(a, new, proc)
<1>1. a.revision \in Nat /\ pub.revision \in Nat /\ new.revision \in Nat
  BY CurrentFacts DEF Assembly
<1>2. a.process = proc => a.revision < new.revision
  BY <1>1 DEF ReaderInv
<1>3. ASSUME NEW route \in Routes, CollectionInv(a, route, pub, proc)
      PROVE  CollectionInv(a, route, new, proc)
  BY <1>1, <1>2, <1>3 DEF CollectionInv
<1> QED
  BY <1>1, <1>2, <1>3 DEF ReaderInv

(* Nor that the process was started again: nothing they have is its.       *)
LEMMA RestartKeeps ==
  ASSUME NEW a \in Assembly, NEW pub \in Feed!CurrentType, NEW new \in Feed!CurrentType,
         NEW proc \in Nat, ReaderInv(a, pub, proc)
  PROVE  ReaderInv(a, new, proc + 1)
<1>1. a.process \in Nat /\ a.process <= proc
  BY DEF Assembly, ReaderInv
<1>2. a.process # proc + 1 /\ a.process <= proc + 1
  BY <1>1
<1>3. ASSUME NEW route \in Routes, CollectionInv(a, route, pub, proc)
      PROVE  CollectionInv(a, route, new, proc + 1)
  <2>1. a.items[route] \in Seq(Item)
    BY DEF Assembly
  <2>2. \A i \in 1..Len(a.items[route]) : a.items[route][i].process \in Nat
    <3>1. \A i \in 1..Len(a.items[route]) : a.items[route][i] \in Item
      BY <2>1
    <3> QED
      BY <3>1 DEF Item
  <2> QED
    BY <1>2, <1>3, <2>2 DEF CollectionInv
<1> QED
  BY <1>2, <1>3 DEF ReaderInv

LEMMA SnapshotKeeps ==
  ASSUME TypeOK, current.generation # 0 => current.revision # 0
  PROVE  LET a == Fresh(current.revision, current.generation)
         IN  a \in Assembly /\ ReaderInv(a, current, process)
<1> DEFINE a == Fresh(current.revision, current.generation)
<1>1. current.revision \in Nat /\ current.generation \in Nat /\ process \in Nat
  BY CurrentFacts DEF TypeOK
<1>2. /\ a \in Assembly
      /\ a.process = process /\ a.revision = current.revision /\ a.generation = current.generation
      /\ a.reply = "none"
      /\ \A route \in Routes : /\ a.items[route] = <<>>
                               /\ a.cursor[route] = NoCursor
                               /\ route \notin a.done
  BY <1>1, FreshFacts
<1> HIDE DEF a
<1>3. \A route \in Routes : CollectionInv(a, route, current, process)
  BY <1>2 DEF CollectionInv
<1>4. ReaderInv(a, current, process)
  BY <1>1, <1>2, <1>3 DEF ReaderInv
<1> QED
  BY <1>2, <1>4 DEF a

-----------------------------------------------------------------------------
(* A page *)

(* What a request of reader a looks like. *)
LEMMA RequestFacts ==
  ASSUME NEW a \in Assembly, NEW q \in Requests(a)
  PROVE  /\ q.revision = a.revision
         /\ q.route \in Routes /\ q.route \notin a.done
         /\ PageLimit(q) \in Nat \ {0}
         /\ q.cursor \in Cursor \cup {NoCursor}
         /\ \E route \in Routes : q.cursor = a.cursor[route]
         /\ q.cursor = NoCursor => a.items[q.route] = <<>>
<1>1. /\ q.revision = a.revision
      /\ q.route \in Routes /\ q.route \notin a.done
      /\ q.limit \in Limits
      /\ \E route \in Routes : q.cursor = a.cursor[route]
      /\ q.cursor = NoCursor => a.items[q.route] = <<>>
  BY DEF Requests
<1>2. \A route \in Routes : a.cursor[route] \in Cursor \cup {NoCursor}
  BY DEF Assembly
<1> QED
  BY <1>1, <1>2, EngineAssumption DEF PageLimit

(* A page continues where the collection stopped, and ends where its       *)
(* cursor continues.                                                       *)
LEMMA PageFacts ==
  ASSUME EngineInv, NEW r \in Readers, reader[r].assembling,
         NEW q \in Requests(reader[r]), ~PublicationChanged(q), ~InvalidRequest(q)
  PROVE  LET a     == reader[r]
             total == maxCollectionLength(q.route)
         IN  /\ a.revision = current.revision /\ a.revision # 0
             /\ total \in Nat /\ End(q) \in Nat /\ End(q) <= total
             /\ Start(q) = Len(a.items[q.route]) /\ Start(q) \in Nat /\ Start(q) <= End(q)
             /\ End(q) < total => End(q) # 0 /\ End(q) > Start(q)
             /\ q.cursor # NoCursor => /\ Start(q) # 0
                                       /\ a.items[q.route][1].process = process
                                       /\ a.items[q.route][1].generation = current.generation
<1> DEFINE a == reader[r]
           total == maxCollectionLength(q.route)
<1>1. a \in Assembly /\ current \in Feed!CurrentType /\ process \in Nat
  BY DEF EngineInv, TypeOK
<1>2. /\ q.revision = a.revision
      /\ q.route \in Routes /\ q.route \notin a.done
      /\ PageLimit(q) \in Nat \ {0}
      /\ q.cursor \in Cursor \cup {NoCursor}
      /\ \E route \in Routes : q.cursor = a.cursor[route]
      /\ q.cursor = NoCursor => a.items[q.route] = <<>>
  BY <1>1, RequestFacts
<1>3. total \in Nat
  BY <1>1, <1>2, CurrentFacts DEF maxCollectionLength
<1>4. a.revision = current.revision /\ a.revision # 0
  BY <1>2 DEF PublicationChanged, InvalidRequest
<1>5. q.cursor # NoCursor => Resumes(q)
  BY DEF InvalidRequest
<1>6. CASE q.cursor = NoCursor
  <2>1. Start(q) = 0 /\ Len(a.items[q.route]) = 0
    BY <1>2, <1>6 DEF Start
  <2> QED
    BY <1>2, <1>3, <1>4, <1>6, <2>1 DEF End
<1>7. CASE q.cursor # NoCursor
  <2>1. PICK route \in Routes : q.cursor = a.cursor[route]
    BY <1>2
  <2>2. CollectionInv(a, route, current, process)
    BY DEF EngineInv, ReaderInv
  <2>3. route = q.route
    BY <1>5, <1>7, <2>1, <2>2 DEF CollectionInv, Resumes
  <2>4. /\ q.cursor.position = Len(a.items[q.route]) /\ q.cursor.position # 0
        /\ q.cursor.key = a.items[q.route][1].process
        /\ q.cursor.generation = a.items[q.route][1].generation
    BY <1>7, <2>1, <2>2, <2>3 DEF CollectionInv
  <2>5. /\ q.cursor.key = process /\ q.cursor.generation = current.generation
        /\ q.cursor.position < total
    BY <1>5, <1>7 DEF Resumes, Genuine
  <2>6. Start(q) = q.cursor.position /\ q.cursor.position \in Nat
    BY <1>2, <1>7 DEF Start, Cursor
  <2> QED
    BY <1>2, <1>3, <1>4, <1>7, <2>4, <2>5, <2>6 DEF End
<1> QED
  BY <1>6, <1>7

LEMMA NextCursorFacts ==
  ASSUME EngineInv, NEW r \in Readers, reader[r].assembling,
         NEW q \in Requests(reader[r]), ~PublicationChanged(q), ~InvalidRequest(q)
  PROVE  /\ NextCursor(q) \in Cursor \cup {NoCursor}
         /\ NextCursor(q) = NoCursor <=> End(q) = maxCollectionLength(q.route)
         /\ NextCursor(q) # NoCursor =>
              /\ End(q) < maxCollectionLength(q.route)
              /\ NextCursor(q).key = process
              /\ NextCursor(q).route = q.route
              /\ NextCursor(q).revision = current.revision
              /\ NextCursor(q).generation = current.generation
              /\ NextCursor(q).position = End(q)
<1> DEFINE total == maxCollectionLength(q.route)
           cursor == [key        |-> process,
                      route      |-> q.route,
                      revision   |-> current.revision,
                      generation |-> current.generation,
                      position   |-> End(q),
                      limit      |-> PageLimit(q)]
<1>1. total \in Nat /\ End(q) \in Nat /\ End(q) <= total
  BY PageFacts
<1>2. /\ current.revision \in Nat /\ current.generation \in Nat /\ process \in Nat
      /\ reader[r] \in Assembly
  BY CurrentFacts DEF EngineInv, TypeOK
<1>3. q.route \in Routes /\ PageLimit(q) \in Nat \ {0}
  BY <1>2, RequestFacts
<1>4. cursor \in Cursor
  BY <1>1, <1>2, <1>3 DEF Cursor
<1>5. cursor # NoCursor
  BY <1>4, NoCursorAssumption
<1>6. NextCursor(q) = IF End(q) < total THEN cursor ELSE NoCursor
  BY DEF NextCursor
<1> QED
  BY <1>1, <1>4, <1>5, <1>6

LEMMA PageItemsFacts ==
  ASSUME EngineInv, NEW r \in Readers, reader[r].assembling,
         NEW q \in Requests(reader[r]), ~PublicationChanged(q), ~InvalidRequest(q)
  PROVE  LET old == reader[r].items[q.route]
             new == old \o PageItems(q)
         IN  /\ old \in Seq(Item) /\ new \in Seq(Item)
             /\ Len(new) = End(q)
             /\ \A i \in 1..Len(old) : new[i] = old[i]
             /\ \A i \in (Len(old) + 1)..Len(new) :
                  new[i] = [process |-> process, generation |-> current.generation,
                            route |-> q.route, index |-> i]
<1> DEFINE old == reader[r].items[q.route]
           page == PageItems(q)
           new == old \o page
           n == End(q) - Start(q)
<1>1. /\ End(q) \in Nat /\ Start(q) = Len(old) /\ Start(q) \in Nat /\ Start(q) <= End(q)
  BY PageFacts
<1>2. /\ current.generation \in Nat /\ process \in Nat /\ reader[r] \in Assembly
  BY CurrentFacts DEF EngineInv, TypeOK
<1>3. q.route \in Routes
  BY <1>2, RequestFacts
<1>4. old \in Seq(Item)
  BY <1>2, <1>3 DEF Assembly
<1>5. n \in Nat
  BY <1>1
<1>6. /\ page \in [1..n -> Item]
      /\ \A i \in 1..n : page[i] = [process |-> process, generation |-> current.generation,
                                    route |-> q.route, index |-> Start(q) + i]
  BY <1>1, <1>2, <1>3 DEF PageItems, Item
<1> HIDE DEF page
<1>7. page \in Seq(Item) /\ Len(page) = n
  BY <1>5, <1>6
<1>n. n = End(q) - Start(q) /\ Len(old) \in Nat
  BY <1>4
<1> HIDE DEF n
<1>8. new \in Seq(Item) /\ Len(new) = Len(old) + n /\ \A i \in 1..Len(old) : new[i] = old[i]
  BY <1>4, <1>5, <1>7
<1>9. Len(new) = End(q)
  <2> HIDE DEF old, new
  <2> QED
    BY <1>1, <1>8, <1>n
<1>10. ASSUME NEW i \in (Len(old) + 1)..Len(new)
       PROVE  new[i] = [process |-> process, generation |-> current.generation,
                        route |-> q.route, index |-> i]
  <2>1. i - Len(old) \in 1..n /\ Start(q) + (i - Len(old)) = i
    <3> HIDE DEF old, new
    <3> QED
      BY <1>1, <1>5, <1>8, <1>n
  <2>2. new[i] = page[i - Len(old)]
    BY <1>4, <1>5, <1>7, <1>8, <2>1
  <2> QED
    BY <1>6, <2>1, <2>2
<1> QED
  BY <1>4, <1>8, <1>9, <1>10 DEF page

(* The reader that got a page. *)
LEMMA CollectKeeps ==
  ASSUME EngineInv, NEW r \in Readers, reader[r].assembling,
         NEW q \in Requests(reader[r]), ~PublicationChanged(q), ~InvalidRequest(q),
         NEW b \in Assembly,
         b.process = reader[r].process, b.revision = reader[r].revision,
         b.generation = reader[r].generation,
         b.cursor = [reader[r].cursor EXCEPT ![q.route] = NextCursor(q)],
         b.items = [reader[r].items EXCEPT ![q.route] = reader[r].items[q.route] \o PageItems(q)],
         b.total = [reader[r].total EXCEPT ![q.route] = maxCollectionLength(q.route)],
         b.done \subseteq reader[r].done \cup {q.route},
         q.route \in b.done => NextCursor(q) = NoCursor,
         b.reply = "page"
  PROVE  ReaderInv(b, current, process)
<1> DEFINE a == reader[r]
           old == a.items[q.route]
           new == old \o PageItems(q)
<1>1. /\ a \in Assembly /\ current \in Feed!CurrentType /\ process \in Nat
      /\ a.process \in Nat /\ a.process <= process /\ ReaderInv(a, current, process)
      /\ q.route \in Routes
      /\ current.generation \in Nat /\ a.generation \in Nat
  BY RequestFacts, CurrentFacts DEF EngineInv, TypeOK, ReaderInv, Assembly
<1>2. ASSUME NEW route \in Routes, route # q.route
      PROVE  CollectionInv(b, route, current, process)
  <2>1. CollectionInv(a, route, current, process)
    BY <1>1 DEF ReaderInv
  <2>2. /\ a.items \in [Routes -> Seq(Item)]
        /\ a.cursor \in [Routes -> Cursor \cup {NoCursor}]
        /\ a.total \in [Routes -> Nat]
    BY <1>1 DEF Assembly
  <2>3. b.items[route] = a.items[route]
    BY <1>2, <2>2
  <2>4. b.cursor[route] = a.cursor[route]
    BY <1>2, <2>2
  <2>5. b.total[route] = a.total[route] /\ (route \in b.done => route \in a.done)
    BY <1>2, <2>2
  <2>6. b.process = a.process /\ b.revision = a.revision /\ b.generation = a.generation
    OBVIOUS
  <2> HIDE DEF a
  <2> QED
    BY ONLY <2>1, <2>3, <2>4, <2>5, <2>6 DEF CollectionInv
<1>3. CollectionInv(b, q.route, current, process)
  <2>1. CollectionInv(a, q.route, current, process)
    BY <1>1 DEF ReaderInv
  <2>2. b.items[q.route] = new /\ b.cursor[q.route] = NextCursor(q)
        /\ b.total[q.route] = maxCollectionLength(q.route)
    <3>1. /\ a.items \in [Routes -> Seq(Item)]
          /\ a.cursor \in [Routes -> Cursor \cup {NoCursor}]
          /\ a.total \in [Routes -> Nat]
      BY <1>1 DEF Assembly
    <3>2. b.items[q.route] = new
      BY <1>1, <3>1
    <3>3. b.cursor[q.route] = NextCursor(q)
      BY <1>1, <3>1
    <3>4. b.total[q.route] = maxCollectionLength(q.route)
      BY <1>1, <3>1
    <3> QED
      BY <3>2, <3>3, <3>4
  <2>3. /\ old \in Seq(Item) /\ new \in Seq(Item)
        /\ Len(new) = End(q)
        /\ \A i \in 1..Len(old) : new[i] = old[i]
        /\ \A i \in (Len(old) + 1)..Len(new) :
             new[i] = [process |-> process, generation |-> current.generation,
                       route |-> q.route, index |-> i]
    BY PageItemsFacts, ZenonT(60)
  <2>4. /\ a.revision = current.revision /\ End(q) \in Nat
        /\ Start(q) = Len(old) /\ Start(q) <= End(q)
        /\ End(q) < maxCollectionLength(q.route) => End(q) # 0 /\ End(q) > Start(q)
        /\ q.cursor # NoCursor => Start(q) # 0 /\ old[1].process = process
                                  /\ old[1].generation = current.generation
    BY PageFacts
  <2>5. q.cursor = NoCursor => Len(old) = 0
    BY <1>1, RequestFacts
  <2>6. a.process = process => a.generation = current.generation
    BY <1>1, <2>4 DEF ReaderInv
  <2> HIDE DEF new, old
  <2>7. \A i \in 1..Len(new) :
          /\ new[i].route = q.route /\ new[i].index = i
          /\ new[i].process = process /\ new[i].generation = current.generation
    <3> SUFFICES ASSUME NEW i \in 1..Len(new)
                 PROVE  /\ new[i].route = q.route /\ new[i].index = i
                        /\ new[i].process = process /\ new[i].generation = current.generation
      OBVIOUS
    <3>1. CASE i \in 1..Len(old)
      <4>1. q.cursor # NoCursor
        BY <2>3, <2>5, <3>1
      <4>2. new[i] = old[i] /\ 1 \in 1..Len(old)
        BY <2>3, <3>1
      <4>3. /\ old[i].route = q.route /\ old[i].index = i
            /\ old[i].process = old[1].process /\ old[i].generation = old[1].generation
        BY ONLY <2>1, <3>1 DEF CollectionInv, old
      <4> QED
        BY ONLY <2>4, <4>1, <4>2, <4>3
    <3>2. CASE i \in (Len(old) + 1)..Len(new)
      <4>1. new[i] = [process |-> process, generation |-> current.generation,
                      route |-> q.route, index |-> i]
        BY <2>3, <3>2
      <4> QED
        BY <4>1
    <3> QED
      BY <2>3, <3>1, <3>2
  <2>8. Len(new) \in Nat /\ (Len(new) # 0 => 1 \in 1..Len(new))
    BY <2>3
  <2>9. /\ NextCursor(q) = NoCursor <=> End(q) = maxCollectionLength(q.route)
        /\ NextCursor(q) # NoCursor =>
             /\ End(q) < maxCollectionLength(q.route)
             /\ NextCursor(q).key = process
             /\ NextCursor(q).route = q.route
             /\ NextCursor(q).revision = current.revision
             /\ NextCursor(q).generation = current.generation
             /\ NextCursor(q).position = End(q)
    BY NextCursorFacts
  <2>10. \A i \in 1..Len(new) :
           /\ new[i].route = q.route /\ new[i].index = i
           /\ new[i].process = new[1].process /\ new[i].generation = new[1].generation
           /\ b.process <= new[i].process /\ new[i].process <= process
           /\ b.process = process => new[i].generation = b.generation
    BY <1>1, <2>6, <2>7, <2>8
  <2>11. q.route \in b.done => Len(new) = maxCollectionLength(q.route)
    BY <2>3, <2>9
  <2>12. NextCursor(q) # NoCursor =>
           /\ NextCursor(q).route = q.route
           /\ NextCursor(q).revision = b.revision
           /\ NextCursor(q).position = Len(new) /\ NextCursor(q).position # 0
           /\ NextCursor(q).key = new[1].process
           /\ NextCursor(q).generation = new[1].generation
           /\ NextCursor(q).position < current.evidence[q.route]
    BY <2>3, <2>4, <2>7, <2>8, <2>9 DEF maxCollectionLength
  <2> QED
    BY <2>2, <2>10, <2>11, <2>12 DEF CollectionInv
<1>4. \A route \in Routes : CollectionInv(b, route, current, process)
  BY <1>2, <1>3
<1> QED
  BY <1>1, <1>4 DEF ReaderInv

LEMMA CollectedFacts ==
  ASSUME EngineInv, NEW r \in Readers, reader[r].assembling,
         NEW q \in Requests(reader[r]), ~PublicationChanged(q), ~InvalidRequest(q)
  PROVE  LET b == Collected(reader[r], q)
         IN  b \in Assembly /\ ReaderInv(b, current, process)
<1> DEFINE a == reader[r]
           cursor == [a.cursor EXCEPT ![q.route] = NextCursor(q)]
           new == a.items[q.route] \o PageItems(q)
           items == [a.items EXCEPT ![q.route] = new]
           total == [a.total EXCEPT ![q.route] = maxCollectionLength(q.route)]
           last == IF NextCursor(q) = NoCursor THEN {q.route} ELSE {}
           orderly == a.orderly /\ FollowsRules(a, q)
           b == Collected(a, q)
<1>1. a \in Assembly /\ q.route \in Routes
  BY RequestFacts DEF EngineInv, TypeOK
<1>2. /\ a.cursor \in [Routes -> Cursor \cup {NoCursor}]
      /\ a.items \in [Routes -> Seq(Item)]
      /\ a.total \in [Routes -> Nat]
      /\ a.done \in SUBSET Routes
  BY <1>1 DEF Assembly
<1>3. cursor \in [Routes -> Cursor \cup {NoCursor}]
  BY <1>1, <1>2, NextCursorFacts
<1>4. new \in Seq(Item)
  BY PageItemsFacts
<1>5. items \in [Routes -> Seq(Item)]
  <2> HIDE DEF new
  <2> QED
    BY <1>1, <1>2, <1>4
<1>6. total \in [Routes -> Nat]
  BY <1>1, <1>2, PageFacts
<1>7. last \subseteq {q.route} /\ (q.route \in last => NextCursor(q) = NoCursor)
  OBVIOUS
<1>8. orderly \in BOOLEAN
  OBVIOUS
<1>9. "page" \in Reply
  BY DEF Reply
<1>10. b = [a EXCEPT !.cursor = cursor, !.items = items, !.total = total,
                     !.done = a.done \cup last, !.orderly = orderly, !.reply = "page"]
  BY Zenon DEF Collected
<1> HIDE DEF cursor, new, items, total, last, orderly, b
<1>11. /\ b \in Assembly
       /\ b.process = a.process /\ b.revision = a.revision /\ b.generation = a.generation
       /\ b.cursor = cursor /\ b.items = items /\ b.total = total
       /\ b.done = a.done \cup last /\ b.reply = "page"
  BY <1>1, <1>2, <1>3, <1>5, <1>6, <1>7, <1>8, <1>9, <1>10 DEF Assembly
<1>12. b.done \subseteq a.done \cup {q.route} /\ (q.route \in b.done => NextCursor(q) = NoCursor)
  BY <1>1, <1>7, <1>11, RequestFacts
<1>13. ReaderInv(b, current, process)
  BY <1>11, <1>12, CollectKeeps DEF cursor, items, total, new
<1> QED
  BY <1>11, <1>13 DEF b

(* A request that follows the rules is invalid to another process only:    *)
(* the cursor's revision, generation, limit and position are the           *)
(* publication's.                                                          *)
LEMMA OrderlyIsValid ==
  ASSUME EngineInv, NEW r \in Readers, reader[r].assembling,
         NEW q \in Requests(reader[r]), InvalidRequest(q), FollowsRules(reader[r], q)
  PROVE  reader[r].process # process
<1> DEFINE a == reader[r]
<1> SUFFICES ASSUME a.process = process
             PROVE  FALSE
  OBVIOUS
<1>1. a \in Assembly /\ current \in Feed!CurrentType /\ process \in Nat
      /\ ReaderInv(a, current, process)
  BY DEF EngineInv, TypeOK
<1>2. q.revision = a.revision /\ q.route \in Routes
  BY <1>1, RequestFacts
<1>3. a.generation # 0 /\ a.revision # 0
  BY <1>1 DEF FollowsRules, ReaderInv
<1>4. a.revision = current.revision /\ a.generation = current.generation
  BY <1>1, <1>2, <1>3 DEF InvalidRequest, PublicationChanged, ReaderInv
<1>5. q.cursor # NoCursor /\ ~Resumes(q)
  BY <1>2, <1>3, <1>4 DEF InvalidRequest
<1>6. q.cursor = a.cursor[q.route] /\ PageLimit(q) = q.cursor.limit
  BY <1>5 DEF FollowsRules
<1>7. CollectionInv(a, q.route, current, process)
  BY <1>1, <1>2 DEF ReaderInv
<1>8. /\ a.items[q.route] \in Seq(Item)
      /\ q.cursor \in Cursor
  BY <1>1, <1>2, <1>5, <1>6 DEF Assembly
<1>9. /\ q.cursor.route = q.route /\ q.cursor.revision = q.revision
      /\ q.cursor.position = Len(a.items[q.route]) /\ q.cursor.position # 0
      /\ q.cursor.key = a.items[q.route][1].process
      /\ q.cursor.generation = a.items[q.route][1].generation
      /\ q.cursor.position < current.evidence[q.route]
  BY <1>2, <1>4, <1>5, <1>6, <1>7 DEF CollectionInv
<1>10. 1 \in 1..Len(a.items[q.route])
  BY <1>8, <1>9
<1>11. /\ a.process <= a.items[q.route][1].process /\ a.items[q.route][1].process <= process
       /\ a.items[q.route][1].generation = current.generation
  BY <1>4, <1>7, <1>10 DEF CollectionInv
<1>12. a.items[q.route][1].process \in Nat
  <2>1. a.items[q.route][1] \in Item
    BY <1>8, <1>10
  <2> QED
    BY <2>1 DEF Item
<1>13. q.cursor.key = process /\ q.cursor.generation = current.generation
  BY <1>1, <1>9, <1>11, <1>12
<1> QED
  BY <1>5, <1>6, <1>9, <1>13 DEF Resumes, Genuine, maxCollectionLength

LEMMA DiscardedFacts ==
  ASSUME EngineInv, NEW r \in Readers, reader[r].assembling,
         NEW q \in Requests(reader[r]),
         NEW reply \in {"publication-changed", "invalid-request"},
         reply = "invalid-request" => InvalidRequest(q)
  PROVE  LET b == Discarded(reader[r], q, reply)
         IN  b \in Assembly /\ ReaderInv(b, current, process)
<1> DEFINE a == reader[r]
           orderly == a.orderly /\ FollowsRules(a, q)
           b == Discarded(a, q, reply)
<1>1. a \in Assembly /\ ReaderInv(a, current, process)
  BY DEF EngineInv, TypeOK
<1>2. orderly \in BOOLEAN /\ reply \in Reply
  BY DEF Reply
<1>3. b = [a EXCEPT !.assembling = FALSE, !.orderly = orderly, !.reply = reply]
  BY Zenon DEF Discarded
<1>4. orderly => FollowsRules(a, q)
  OBVIOUS
<1> HIDE DEF orderly, b
<1>5. /\ b \in Assembly
      /\ b.process = a.process /\ b.revision = a.revision /\ b.generation = a.generation
      /\ b.assembling = FALSE /\ b.orderly = orderly /\ b.reply = reply
  BY <1>1, <1>2, <1>3 DEF Assembly
<1>6. b.orderly /\ b.reply = "invalid-request" => b.process # process
  BY <1>4, <1>5, OrderlyIsValid
<1>7. ReaderInv(b, current, process)
  BY <1>1, <1>5, <1>6 DEF ReaderInv
<1> QED
  BY <1>5, <1>7 DEF b

-----------------------------------------------------------------------------
LEMMA InitEstablishes == Init => EngineInv
<1> SUFFICES ASSUME Init PROVE EngineInv
  OBVIOUS
<1>1. current \in Feed!CurrentType /\ current.revision = 0 /\ current.generation = 0
  BY DEF Init, Feed!Init, Feed!Unpublished, Feed!CurrentType
<1>2. process = 1 /\ process \in Nat
  BY DEF Init
<1> DEFINE f == Fresh(0, 0)
           a == [f EXCEPT !.assembling = FALSE]
<1>3. f \in Assembly /\ f.process = 1 /\ f.revision = 0 /\ f.generation = 0 /\ f.reply = "none"
  BY <1>2, FreshFacts
<1>4. reader = [r \in Readers |-> a]
  BY DEF Init
<1> HIDE DEF f
<1>5. /\ a \in Assembly /\ a.assembling = FALSE /\ a.process = 1
      /\ a.revision = 0 /\ a.generation = 0 /\ a.reply = "none"
  BY <1>3 DEF Assembly
<1> HIDE DEF a
<1>6. ReaderInv(a, current, process)
  BY <1>1, <1>2, <1>5 DEF ReaderInv
<1> QED
  BY <1>1, <1>2, <1>4, <1>5, <1>6 DEF EngineInv, TypeOK

(* A step of one reader. *)
LEMMA ReaderStep ==
  ASSUME EngineInv, NEW r \in Readers, NEW b \in Assembly, ReaderInv(b, current, process),
         reader' = [reader EXCEPT ![r] = b], UNCHANGED <<current, process>>
  PROVE  EngineInv'
<1>1. reader' \in [Readers -> Assembly]
  BY DEF EngineInv, TypeOK
<1>2. \A s \in Readers : ReaderInv(reader'[s], current, process)
  BY DEF EngineInv, TypeOK
<1>3. \A s \in Readers : ReaderInv(reader'[s], current', process')
  BY <1>2
<1> QED
  BY <1>1, <1>3 DEF EngineInv, TypeOK

(* A step that publishes. *)
LEMMA PublishStep ==
  ASSUME EngineInv, current' \in Feed!CurrentType,
         current'.generation # 0 => current'.revision # 0,
         current'.revision > current.revision, UNCHANGED <<process, reader>>
  PROVE  EngineInv'
<1>1. \A r \in Readers : ReaderInv(reader[r], current', process)
  BY PublishedKeeps DEF EngineInv, TypeOK
<1>2. \A r \in Readers : ReaderInv(reader'[r], current', process')
  BY <1>1
<1> QED
  BY <1>2 DEF EngineInv, TypeOK

LEMMA NextPreserves == EngineInv /\ [Next]_vars => EngineInv'
<1> SUFFICES ASSUME EngineInv, [Next]_vars PROVE EngineInv'
  OBVIOUS
<1>1. ASSUME NEW r \in Readers, ReadSnapshot(r) PROVE EngineInv'
  <2> DEFINE b == Fresh(current.revision, current.generation)
  <2>1. b \in Assembly /\ ReaderInv(b, current, process)
    BY SnapshotKeeps DEF EngineInv
  <2>2. reader' = [reader EXCEPT ![r] = b] /\ UNCHANGED <<current, process>>
    BY <1>1 DEF ReadSnapshot
  <2> HIDE DEF b
  <2> QED
    BY <2>1, <2>2, ReaderStep
<1>2. ASSUME NEW r \in Readers, RequestPage(r) PROVE EngineInv'
  <2>1. reader[r].assembling /\ UNCHANGED <<current, process>>
    BY <1>2 DEF RequestPage
  <2>2. PICK q \in Requests(reader[r]) :
          \/ PublicationChanged(q) /\ Discard(r, q, "publication-changed")
          \/ InvalidRequest(q) /\ Discard(r, q, "invalid-request")
          \/ /\ ~PublicationChanged(q) /\ ~InvalidRequest(q)
             /\ Collect(r, q)
    BY <1>2 DEF RequestPage
  <2>3. \E b \in Assembly : /\ ReaderInv(b, current, process)
                            /\ reader' = [reader EXCEPT ![r] = b]
    <3>1. CASE Discard(r, q, "publication-changed")
      <4>1. /\ Discarded(reader[r], q, "publication-changed") \in Assembly
            /\ ReaderInv(Discarded(reader[r], q, "publication-changed"), current, process)
        BY <2>1, DiscardedFacts
      <4> QED
        BY <3>1, <4>1 DEF Discard
    <3>2. CASE InvalidRequest(q) /\ Discard(r, q, "invalid-request")
      <4>1. /\ Discarded(reader[r], q, "invalid-request") \in Assembly
            /\ ReaderInv(Discarded(reader[r], q, "invalid-request"), current, process)
        BY <2>1, <3>2, DiscardedFacts
      <4> QED
        BY <3>2, <4>1 DEF Discard
    <3>3. CASE ~PublicationChanged(q) /\ ~InvalidRequest(q) /\ Collect(r, q)
      <4>1. /\ Collected(reader[r], q) \in Assembly
            /\ ReaderInv(Collected(reader[r], q), current, process)
        BY <2>1, <3>3, CollectedFacts
      <4> QED
        BY <3>3, <4>1 DEF Collect
    <3> QED
      BY <2>2, <3>1, <3>2, <3>3
  <2> QED
    BY <2>1, <2>3, ReaderStep
<1>3. CASE PublishComplete
  <2>1. PICK revision \in 1..MaxRevision, evidence \in [Routes -> Lengths] :
          /\ revision > current.revision
          /\ current' = [revision   |-> revision,
                         generation |-> revision,
                         stale      |-> FALSE,
                         evidence   |-> evidence]
    BY <1>3 DEF PublishComplete, Feed!PublishComplete
  <2>2. revision \in Nat /\ revision # 0
    BY EngineAssumption
  <2>3. /\ current' \in Feed!CurrentType /\ current'.revision = revision
    BY <2>1, <2>2 DEF Feed!CurrentType
  <2> QED
    BY <1>3, <2>1, <2>2, <2>3, PublishStep DEF PublishComplete
<1>4. CASE PublishFailure
  <2>1. PICK revision \in 1..MaxRevision :
          /\ revision > current.revision
          /\ current' = [revision   |-> revision,
                         generation |-> current.generation,
                         stale      |-> TRUE,
                         evidence   |-> current.evidence]
    BY <1>4 DEF PublishFailure, Feed!PublishFailure
  <2>2. revision \in Nat /\ revision # 0 /\ current \in Feed!CurrentType
    BY EngineAssumption DEF EngineInv, TypeOK
  <2>3. /\ current' \in Feed!CurrentType /\ current'.revision = revision
    BY <2>1, <2>2 DEF Feed!CurrentType
  <2> QED
    BY <1>4, <2>1, <2>2, <2>3, PublishStep DEF PublishFailure
<1>5. CASE Restart
  <2>1. current' \in Feed!CurrentType /\ current'.revision = 0 /\ current'.generation = 0
    BY <1>5 DEF Restart, Feed!Restart, Feed!Unpublished, Feed!CurrentType
  <2>2. process' = process + 1 /\ process' \in Nat /\ reader' = reader
    BY <1>5 DEF Restart, EngineInv, TypeOK
  <2>3. \A r \in Readers : ReaderInv(reader[r], current', process + 1)
    BY <2>1, RestartKeeps DEF EngineInv, TypeOK
  <2>4. \A r \in Readers : ReaderInv(reader'[r], current', process')
    BY <2>2, <2>3
  <2> QED
    BY <2>1, <2>2, <2>4 DEF EngineInv, TypeOK
<1>6. CASE UNCHANGED vars
  <2>1. current' = current /\ process' = process /\ reader' = reader
    BY <1>6 DEF vars
  <2> QED
    BY <2>1 DEF EngineInv, TypeOK
<1> QED
  BY <1>1, <1>2, <1>3, <1>4, <1>5, <1>6 DEF Next

(* Every reader's assembly stays consistent with the publication and the   *)
(* process, whatever is published, restarted or mixed up between requests. *)
THEOREM EngineIsConsistent == Spec => []EngineInv
BY InitEstablishes, NextPreserves, PTL DEF Spec

(* A collection read to its end is one publication's collection, complete, *)
(* in order and without repetition.                                        *)
THEOREM CollectionsWhole == Spec => []CollectionsAreWhole
<1>1. EngineInv => CollectionsAreWhole
  <2> SUFFICES ASSUME EngineInv, NEW r \in Readers, NEW route \in Routes, reader[r].assembling
               PROVE  LET items == reader[r].items[route]
                      IN  /\ \A i \in 1..Len(items) :
                               /\ items[i] = [items[1] EXCEPT !.index = i]
                               /\ items[i].route = route
                          /\ route \in reader[r].done => Len(items) = reader[r].total[route]
    BY DEF CollectionsAreWhole
  <2> DEFINE items == reader[r].items[route]
  <2>1. CollectionInv(reader[r], route, current, process)
    BY DEF EngineInv, ReaderInv
  <2>2. items \in Seq(Item)
    BY DEF EngineInv, TypeOK, Assembly
  <2>3. \A i \in 1..Len(items) : /\ items[i].route = route /\ items[i].index = i
                                 /\ items[i].process = items[1].process
                                 /\ items[i].generation = items[1].generation
    BY <2>1 DEF CollectionInv
  <2>4. ASSUME NEW i \in 1..Len(items) PROVE items[i] = [items[1] EXCEPT !.index = i]
    <3> HIDE DEF items
    <3>1. 1 \in 1..Len(items) /\ items[i] \in Item /\ items[1] \in Item
      BY <2>2
    <3>2. items[1].route = route
      BY <2>3, <3>1
    <3> QED
      BY <2>3, <3>1, <3>2 DEF Item
  <2> QED
    BY <2>1, <2>3, <2>4 DEF CollectionInv
<1> QED
  BY <1>1, EngineIsConsistent, PTL

(* While the process that served the snapshot runs, everything assembled   *)
(* from it is of that snapshot's publication.                              *)
THEOREM AssemblyMatches == Spec => []AssemblyMatchesSnapshot
<1>1. EngineInv => AssemblyMatchesSnapshot
  <2> SUFFICES ASSUME EngineInv, NEW r \in Readers, NEW route \in Routes,
                      reader[r].assembling, reader[r].process = process,
                      NEW i \in 1..Len(reader[r].items[route])
               PROVE  /\ reader[r].items[route][i].process = process
                      /\ reader[r].items[route][i].generation = reader[r].generation
    BY DEF AssemblyMatchesSnapshot
  <2> DEFINE item == reader[r].items[route][i]
  <2>1. CollectionInv(reader[r], route, current, process)
    BY DEF EngineInv, ReaderInv
  <2>2. item.process <= process /\ process <= item.process /\ item.generation = reader[r].generation
    BY <2>1 DEF CollectionInv
  <2>3. item \in Item
    BY DEF EngineInv, TypeOK, Assembly
  <2>4. item.process \in Nat /\ process \in Nat
    BY <2>3 DEF Item, EngineInv, TypeOK
  <2> QED
    BY <2>2, <2>4
<1> QED
  BY <1>1, EngineIsConsistent, PTL

(* A reader that follows the pagination rules is never told that its       *)
(* request is invalid, unless the process restarted.                       *)
THEOREM OrderlyServed == Spec => []OrderlyReaderIsServed
<1>1. EngineInv => OrderlyReaderIsServed
  BY DEF EngineInv, ReaderInv, OrderlyReaderIsServed
<1> QED
  BY <1>1, EngineIsConsistent, PTL

=============================================================================
