---------------------------- MODULE StoreProofs ----------------------------
(***************************************************************************)
(* Proofs about listing an object store, for any keys, prefixes, page size *)
(* and changes: a listing that ends without an error is whole.             *)
(***************************************************************************)
EXTENDS ObjectStore, FiniteSetTheorems, TLAPS

Ascending(s) == \A i, j \in DOMAIN s : i < j => s[i] < s[j]

(* What has been listed of the keys of prefix up to token. *)
UpTo(objects, token, prefix, al, ev) ==
  /\ Ascending(objects)
  /\ \A i \in DOMAIN objects : objects[i] \in ev \cap prefix /\ objects[i] <= token
  /\ \A k \in al \cap prefix : k <= token => k \in Range(objects)

(* While the listing runs, "always" is still stored and all that is stored *)
(* has been seen, and the listing is whole up to its token.                *)
StoreInv ==
  /\ TypeOK
  /\ listing.phase = "idle" => listing.objects = <<>> /\ listing.cursor = NoCursor
  /\ listing.phase = "listing" =>
       /\ always \subseteq Stored /\ Stored \subseteq ever
       /\ UpTo(listing.objects, decodeCursor(listing.cursor), RequestPrefix, always, ever)
  /\ ListingIsWhole

-----------------------------------------------------------------------------
(* Pages and answers *)

LEMMA InOrderFacts ==
  ASSUME NEW keys \in SUBSET Key, NEW s \in InOrder(keys)
  PROVE  /\ s \in Seq(Key) /\ Range(s) = keys /\ Ascending(s)
<1>1. MaxKey \in Nat
  BY StoreConstants
<1>2. IsFiniteSet(Key)
  BY <1>1, FS_Interval DEF Key
<1>3. Cardinality(keys) \in Nat
  BY <1>2, FS_Subset, FS_CardinalityType
<1>4. s \in [1..Cardinality(keys) -> keys] /\ Range(s) = keys /\ Ascending(s)
  BY DEF InOrder, Ascending
<1> HIDE DEF Key
<1>5. s \in [1..Cardinality(keys) -> Key]
  BY <1>4
<1> QED
  BY <1>3, <1>4, <1>5

(* An honest answer has the keys between its token and the one asked with. *)
Honest(answer, token) ==
  /\ answer.keys \in Seq(Key) /\ Ascending(answer.keys)
  /\ answer.unsized = 0
  /\ \/ /\ answer.truncated = TRUE
        /\ answer.token \in Key /\ answer.token >= token
        /\ Range(answer.keys) = {k \in Following(token) : k <= answer.token}
     \/ /\ answer.truncated = FALSE /\ answer.token = NoToken
        /\ Range(answer.keys) = Following(token)

LEMMA HonestFacts ==
  ASSUME TypeOK, NEW token \in 0..MaxKey, NEW answer \in HonestAnswers(token)
  PROVE  Honest(answer, token)
<1>1. Following(token) \in SUBSET Key
  BY DEF Following, TypeOK
<1>2. CASE \E p \in Key : /\ p >= token
                          /\ \E keys \in InOrder({k \in Following(token) : k <= p}) :
                               answer = Answer(keys, 0, TRUE, p)
  <2>1. PICK p \in Key : /\ p >= token
                         /\ \E keys \in InOrder({k \in Following(token) : k <= p}) :
                              answer = Answer(keys, 0, TRUE, p)
    BY <1>2
  <2>2. PICK keys \in InOrder({k \in Following(token) : k <= p}) :
          answer = Answer(keys, 0, TRUE, p)
    BY <2>1
  <2>3. {k \in Following(token) : k <= p} \in SUBSET Key
    BY <1>1
  <2>4. /\ keys \in Seq(Key) /\ Ascending(keys)
        /\ Range(keys) = {k \in Following(token) : k <= p}
    BY <2>3, InOrderFacts
  <2>5. /\ answer.keys = keys /\ answer.unsized = 0 /\ answer.truncated = TRUE
        /\ answer.token = p
    BY <2>2 DEF Answer
  <2> QED
    BY <2>1, <2>4, <2>5 DEF Honest
<1>3. CASE \E keys \in InOrder(Following(token)) : answer = Answer(keys, 0, FALSE, NoToken)
  <2>1. PICK keys \in InOrder(Following(token)) : answer = Answer(keys, 0, FALSE, NoToken)
    BY <1>3
  <2>2. keys \in Seq(Key) /\ Ascending(keys) /\ Range(keys) = Following(token)
    BY <1>1, InOrderFacts
  <2>3. /\ answer.keys = keys /\ answer.unsized = 0 /\ answer.truncated = FALSE
        /\ answer.token = NoToken
    BY <2>1 DEF Answer
  <2> QED
    BY <2>2, <2>3 DEF Honest
<1> DEFINE upTo(p) == {k \in Following(token) : k <= p}
           ends == {p \in Key : p >= token /\ Cardinality(upTo(p)) <= PageSize}
           cut(p) == {Answer(keys, 0, TRUE, p) : keys \in InOrder(upTo(p))}
           last == {Answer(keys, 0, FALSE, NoToken) :
                      keys \in {s \in InOrder(Following(token)) : Len(s) <= PageSize}}
           cuts == UNION {cut(p) : p \in ends}
<1>4. HonestAnswers(token) = cuts \cup last
  BY DEF HonestAnswers
<1>5. CASE answer \in last
  BY <1>3, <1>5
<1>6. CASE answer \in cuts
  <2> HIDE DEF cut, ends
  <2>1. PICK p \in ends : answer \in cut(p)
    BY <1>6
  <2>2. p \in Key /\ p >= token
    BY DEF ends
  <2>3. \E keys \in InOrder(upTo(p)) : answer = Answer(keys, 0, TRUE, p)
    BY <2>1 DEF cut
  <2> QED
    BY <1>2, <2>2, <2>3
<1> HIDE DEF cuts, last
<1> QED
  BY <1>4, <1>5, <1>6

(* Each adapter refuses each fault. *)
LEMMA RefusesFaults ==
  ASSUME TypeOK, NEW answer,
         \/ Len(answer.keys) > PageSize
         \/ Unusable(answer) # {}
         \/ answer.truncated = TRUE /\ answer.token = NoToken /\ provider = "s3"
  PROVE  ConfinedList(answer).error # NoError
<1>1. List(answer) \in {Refuse("unavailable"), Refuse("safety_limit")}
  <2>1. provider \in {"s3", "azure", "gcs"}
    BY StoreConstants DEF TypeOK
  <2> QED
    BY <2>1 DEF List, s3List, azureList, gcsList
<1>2. ConfinedList(answer) \in {Refuse("unavailable"), Refuse("safety_limit")}
  BY <1>1 DEF ConfinedList
<1> QED
  BY <1>2 DEF Refuse, NoError

LEMMA AcceptedIsHonest ==
  ASSUME TypeOK, NEW answer \in Answers, ConfinedList(answer).error = NoError
  PROVE  /\ answer \in HonestAnswers(decodeCursor(listing.cursor))
         /\ ~(Len(answer.keys) > PageSize) /\ Unusable(answer) = {}
<1> DEFINE token == decodeCursor(listing.cursor)
<1>1. /\ ~(Len(answer.keys) > PageSize) /\ Unusable(answer) = {}
      /\ ~(answer.truncated = TRUE /\ answer.token = NoToken /\ provider = "s3")
  BY RefusesFaults
<1>2. token \in 0..MaxKey
  BY StoreConstants DEF TypeOK, decodeCursor, Cursor, NoCursor, NoToken
<1> HIDE DEF token
<1>3. SUFFICES ASSUME answer \in FaultyAnswers(token)
               PROVE  FALSE
  BY <1>1 DEF Answers, token
<1>4. CASE \E s : Len(s) > PageSize /\ answer = Answer(s, 0, FALSE, NoToken)
  BY <1>1, <1>4 DEF Answer
<1>5. CASE \E a \in HonestAnswers(token), k \in Key \ RequestPrefix :
             answer = Answer(Append(a.keys, k), 0, a.truncated, a.token)
  <2>1. PICK a \in HonestAnswers(token), k \in Key \ RequestPrefix :
               answer = Answer(Append(a.keys, k), 0, a.truncated, a.token)
    BY <1>5
  <2>2. a.keys \in Seq(Key) /\ answer.keys = Append(a.keys, k)
    BY <1>2, <2>1, HonestFacts DEF Honest, Answer
  <2>3. Len(a.keys) + 1 \in DOMAIN answer.keys /\ answer.keys[Len(a.keys) + 1] = k
    BY <2>2
  <2> QED
    BY <1>1, <2>3 DEF Unusable, relativeKeyOK
<1>6. CASE \E a \in HonestAnswers(token) : \E i \in DOMAIN a.keys :
             answer = Answer(a.keys, i, a.truncated, a.token)
  <2>1. PICK a \in HonestAnswers(token) : \E i \in DOMAIN a.keys :
          answer = Answer(a.keys, i, a.truncated, a.token)
    BY <1>6
  <2>2. PICK i \in DOMAIN a.keys : answer = Answer(a.keys, i, a.truncated, a.token)
    BY <2>1
  <2> QED
    BY <1>1, <2>2 DEF Unusable, Answer
<1>7. CASE \E a : provider = "s3" /\ answer = Answer(a, 0, TRUE, NoToken)
  BY <1>1, <1>7 DEF Answer
<1> DEFINE honest == HonestAnswers(token)
           tooMany == {Answer(keys, 0, FALSE, NoToken) :
                         keys \in {s \in InOrder(Following(token)) : Len(s) > PageSize}}
           foreign == {Answer(Append(a.keys, k), 0, a.truncated, a.token) :
                         a \in {h \in honest : Len(h.keys) < PageSize},
                         k \in Key \ RequestPrefix}
           unsized(a) == {Answer(a.keys, i, a.truncated, a.token) : i \in DOMAIN a.keys}
           endless == {Answer(a.keys, 0, TRUE, NoToken) :
                         a \in {h \in honest : h.truncated /\ provider = "s3"}}
           sizeless == UNION {unsized(a) : a \in honest}
<1>8. FaultyAnswers(token) = tooMany \cup foreign \cup sizeless \cup endless
  BY DEF FaultyAnswers
<1>9. CASE answer \in tooMany
  BY <1>4, <1>9
<1>10. CASE answer \in foreign
  BY <1>5, <1>10
<1>11. CASE answer \in sizeless
  <2> HIDE DEF unsized, honest
  <2>1. PICK a \in honest : answer \in unsized(a)
    BY <1>11
  <2>2. \E i \in DOMAIN a.keys : answer = Answer(a.keys, i, a.truncated, a.token)
    BY <2>1 DEF unsized
  <2> QED
    BY <1>6, <2>2 DEF honest
<1>12. CASE answer \in endless
  BY <1>7, <1>12
<1> HIDE DEF tooMany, foreign, sizeless, endless
<1> QED
  BY <1>3, <1>8, <1>9, <1>10, <1>11, <1>12

(* The page of an honest answer: its keys, and a cursor that continues at  *)
(* its token or ends the listing.                                          *)
LEMMA PageFacts ==
  ASSUME TypeOK, NEW answer \in Answers, ConfinedList(answer).error = NoError
  PROVE  LET page  == ConfinedList(answer)
             token == decodeCursor(listing.cursor)
         IN  /\ page.keys \in Seq(Key) /\ Ascending(page.keys)
             /\ \/ /\ page.cursor = NoCursor
                   /\ Range(page.keys) = Following(token)
                \/ \E p \in Key : 
                   /\ page.cursor = encodeCursor(p) /\ p >= token
                   /\ Range(page.keys) = {k \in Following(token) : k <= p}
<1> DEFINE page == ConfinedList(answer)
           token == decodeCursor(listing.cursor)
<1>1. token \in 0..MaxKey
  BY StoreConstants DEF TypeOK, decodeCursor, Cursor, NoCursor, NoToken
<1>2. /\ answer \in HonestAnswers(token)
      /\ ~(Len(answer.keys) > PageSize) /\ Unusable(answer) = {}
  BY AcceptedIsHonest
<1>3. Honest(answer, token)
  BY <1>1, <1>2, HonestFacts
<1>4. provider \in {"s3", "azure", "gcs"}
  BY StoreConstants DEF TypeOK
<1>5. \A p \in Key : p # NoToken
  BY DEF Key, NoToken
<1>6. page = List(answer)
  <2>1. Refuse("safety_limit").error # NoError
    BY DEF Refuse, NoError
  <2> QED
    BY <2>1 DEF ConfinedList
<1>7. CASE answer.truncated = TRUE
  <2>1. /\ answer.token \in Key /\ answer.token >= token
        /\ Range(answer.keys) = {k \in Following(token) : k <= answer.token}
    BY <1>3, <1>7 DEF Honest
  <2>2. List(answer) = Page(answer.keys, encodeCursor(answer.token))
    BY <1>2, <1>4, <1>5, <1>7, <2>1 DEF List, s3List, azureList, gcsList
  <2>3. page.keys = answer.keys /\ page.cursor = encodeCursor(answer.token)
    BY <1>6, <2>2 DEF Page
  <2> QED
    BY <1>3, <2>1, <2>3 DEF Honest
<1>8. CASE answer.truncated = FALSE
  <2>1. answer.token = NoToken /\ Range(answer.keys) = Following(token)
    BY <1>3, <1>8 DEF Honest
  <2>2. List(answer) = Page(answer.keys, NoCursor)
    BY <1>2, <1>4, <1>8, <2>1 DEF List, s3List, azureList, gcsList
  <2>3. page.keys = answer.keys /\ page.cursor = NoCursor
    BY <1>6, <2>2 DEF Page
  <2> QED
    BY <1>3, <2>1, <2>3 DEF Honest
<1> QED
  BY <1>3, <1>7, <1>8 DEF Honest

LEMMA CursorFacts ==
  ASSUME NEW p \in Key
  PROVE  /\ encodeCursor(p) # NoCursor
         /\ decodeCursor(encodeCursor(p)) = p
         /\ encodeCursor(p) \in Cursor
<1>1. p # 0 /\ p \in 0..MaxKey
  BY StoreConstants DEF Key
<1>2. encodeCursor(p).token = p /\ NoCursor.token = 0
  BY DEF encodeCursor, NoCursor
<1>3. encodeCursor(p) \in Cursor
  BY <1>1 DEF encodeCursor, Cursor, RequestPrefix
<1> QED
  BY <1>1, <1>2, <1>3 DEF decodeCursor

(* Appending a page keeps the order, and adds its keys. *)
LEMMA ConcatFacts ==
  ASSUME NEW s \in Seq(Key), NEW t \in Seq(Key), Ascending(s), Ascending(t),
         NEW token \in Nat,
         \A i \in DOMAIN s : s[i] <= token,
         \A i \in DOMAIN t : t[i] > token
  PROVE  /\ s \o t \in Seq(Key) /\ Ascending(s \o t)
         /\ Range(s \o t) = Range(s) \cup Range(t)
<1> DEFINE u == s \o t
           m == Len(s)
           n == Len(t)
<1>1. /\ m \in Nat /\ n \in Nat /\ DOMAIN s = 1..m /\ DOMAIN t = 1..n
      /\ u \in Seq(Key) /\ DOMAIN u = 1..(m + n)
  OBVIOUS
<1>2. \A i \in 1..m : u[i] = s[i] /\ u[i] \in Key
  OBVIOUS
<1>3. \A i \in (m + 1)..(m + n) : u[i] = t[i - m] /\ i - m \in 1..n /\ u[i] \in Key
  OBVIOUS
<1>4. \A i \in 1..n : u[m + i] = t[i] /\ m + i \in 1..(m + n)
  OBVIOUS
<1>5. \A i \in 1..(m + n) : i \in 1..m \/ i \in (m + 1)..(m + n)
  BY <1>1
<1>6. 1..m \subseteq 1..(m + n)
  BY <1>1
<1> HIDE DEF u, m, n
<1>7. Ascending(u)
  <2> SUFFICES ASSUME NEW i \in 1..(m + n), NEW j \in 1..(m + n), i < j
               PROVE  u[i] < u[j]
    BY <1>1 DEF Ascending
  <2>1. CASE i \in 1..m /\ j \in 1..m
    BY <1>1, <1>2, <2>1 DEF Ascending
  <2>2. CASE i \in 1..m /\ j \in (m + 1)..(m + n)
    <3>1. u[i] <= token
      BY <1>1, <1>2, <2>2
    <3>2. u[j] > token
      BY <1>1, <1>3, <2>2
    <3>3. u[i] \in Int /\ u[j] \in Int
      BY <1>2, <1>3, <2>2 DEF Key
    <3> QED
      BY <3>1, <3>2, <3>3
  <2>3. CASE i \in (m + 1)..(m + n) /\ j \in (m + 1)..(m + n)
    <3>1. i - m \in 1..n /\ j - m \in 1..n /\ i - m < j - m
      BY <1>1, <1>3, <2>3
    <3>2. t[i - m] < t[j - m]
      BY <1>1, <3>1 DEF Ascending
    <3> QED
      BY <1>3, <2>3, <3>2
  <2>4. CASE i \in (m + 1)..(m + n) /\ j \in 1..m
    BY <1>1, <2>4
  <2> QED
    BY <1>5, <2>1, <2>2, <2>3, <2>4
<1>8. Range(u) = Range(s) \cup Range(t)
  <2>1. ASSUME NEW x \in Range(u) PROVE x \in Range(s) \cup Range(t)
    BY <1>1, <1>2, <1>3, <1>5 DEF Range
  <2>2. ASSUME NEW x \in Range(s) PROVE x \in Range(u)
    BY <1>1, <1>2, <1>6 DEF Range
  <2>3. ASSUME NEW x \in Range(t) PROVE x \in Range(u)
    BY <1>1, <1>4 DEF Range
  <2> QED
    BY <2>1, <2>2, <2>3
<1> QED
  BY <1>1, <1>7, <1>8 DEF u

(* A page extends the listing as far as its token.  Nothing that stayed is *)
(* passed over: it was stored when its page was answered.                  *)
LEMMA PageExtends ==
  ASSUME NEW objects \in Seq(Key), NEW keys \in Seq(Key), Ascending(keys),
         NEW token \in Nat, NEW prefix, NEW al, NEW ev, NEW st \in SUBSET Key,
         al \subseteq st, st \subseteq ev,
         UpTo(objects, token, prefix, al, ev),
         NEW p \in Nat, p >= token,
         Range(keys) = {k \in st \cap prefix : k > token /\ k <= p}
  PROVE  /\ objects \o keys \in Seq(Key)
         /\ UpTo(objects \o keys, p, prefix, al, ev)
<1> DEFINE new == objects \o keys
<1>1. /\ \A i \in DOMAIN objects : objects[i] <= token
      /\ Ascending(objects)
  BY DEF UpTo
<1>2. \A i \in DOMAIN keys : keys[i] > token
  BY DEF Range
<1>3. /\ new \in Seq(Key) /\ Ascending(new)
      /\ Range(new) = Range(objects) \cup Range(keys)
  BY <1>1, <1>2, ConcatFacts
<1> HIDE DEF new
<1>4. \A x \in Range(objects) : x \in ev \cap prefix /\ x <= token /\ x \in Key
  BY DEF UpTo, Range
<1>5. \A x \in Range(new) : x \in ev \cap prefix /\ x <= p
  <2> SUFFICES ASSUME NEW x \in Range(new)
               PROVE  x \in ev \cap prefix /\ x <= p
    OBVIOUS
  <2>1. CASE x \in Range(objects)
    BY <1>4, <2>1 DEF Key
  <2>2. CASE x \in Range(keys)
    BY <2>2
  <2> QED
    BY <1>3, <2>1, <2>2
<1>6. \A i \in DOMAIN new : new[i] \in Range(new)
  BY DEF Range
<1>7. ASSUME NEW k \in al \cap prefix, k <= p PROVE k \in Range(new)
  <2>1. k \in Int
    BY DEF Key
  <2>2. CASE k <= token
    BY <1>3, <2>2 DEF UpTo
  <2>3. CASE k > token
    BY <1>3, <1>7, <2>3
  <2> QED
    BY <2>1, <2>2, <2>3
<1>8. UpTo(new, p, prefix, al, ev)
  BY <1>3, <1>5, <1>6, <1>7 DEF UpTo
<1> QED
  BY <1>3, <1>8 DEF new

-----------------------------------------------------------------------------
(* The steps *)

ReadingType ==
  [phase : {"idle", "open", "found", "parse", "unreadable", "failed"}, size : Nat, got : Nat]

ListingType ==
  [phase   : {"idle", "listing", "done", "failed"},
   cursor  : Cursor,
   objects : Seq(Key),
   error   : Category \cup {NoError}]

LEMMA NoCursorFacts == NoCursor \in Cursor /\ decodeCursor(NoCursor) = 0
BY StoreConstants DEF NoCursor, Cursor, decodeCursor, NoToken

LEMMA InitEstablishes == Init => StoreInv
<1> SUFFICES ASSUME Init PROVE StoreInv
  OBVIOUS
<1>1. PICK K \in SUBSET Key : bucket = [k \in K |-> MaxBytes]
  BY DEF Init
<1>2. listing \in ListingType /\ listing.phase = "idle" /\ listing.objects = <<>>
      /\ listing.cursor = NoCursor
  BY NoCursorFacts DEF Init, ListingType
<1>3. reading \in ReadingType
  BY DEF Init, ReadingType
<1>4. Stored \subseteq Key /\ \A k \in Stored : bucket[k] \in Sizes
  BY <1>1 DEF Stored, Sizes
<1>5. provider \in Providers /\ confined \in BOOLEAN /\ changes \in 0..MaxChanges
  BY StoreConstants DEF Init
<1>6. TypeOK
  BY <1>2, <1>3, <1>4, <1>5 DEF TypeOK, ListingType, ReadingType, Init
<1> QED
  BY <1>2, <1>6 DEF StoreInv, ListingIsWhole

(* A step of the reads: the listing and the bucket stay as they are. *)
LEMMA ReadingStep ==
  ASSUME StoreInv, reading' \in ReadingType,
         UNCHANGED <<provider, confined, bucket, changes, listing, always, ever>>
  PROVE  StoreInv'
<1>1. TypeOK'
  BY DEF StoreInv, TypeOK, ReadingType, Stored
<1> QED
  BY <1>1 DEF StoreInv, ListingIsWhole, Stored, RequestPrefix

(* The listing ends with an error, and keeps nothing. *)
LEMMA FailStep ==
  ASSUME StoreInv, NEW category \in Category, FailListing(category),
         UNCHANGED <<provider, confined, bucket, changes, always, ever, reading>>
  PROVE  StoreInv'
<1>1. listing \in ListingType
  BY DEF StoreInv, TypeOK, ListingType
<1>2. listing' \in ListingType /\ listing'.phase = "failed"
  <2>1. <<>> \in Seq(Key) /\ NoCursor \in Cursor
    BY NoCursorFacts
  <2>2. listing' = [listing EXCEPT !.phase = "failed", !.error = category, !.objects = <<>>,
                                   !.cursor = NoCursor]
    BY DEF FailListing
  <2> QED
    BY ONLY <1>1, <2>1, <2>2, category \in Category DEF ListingType
<1>3. TypeOK'
  BY <1>2 DEF StoreInv, TypeOK, ListingType, Stored
<1> QED
  BY <1>2, <1>3 DEF StoreInv, ListingIsWhole

LEMMA PutStep ==
  ASSUME StoreInv, NEW k \in Key, NEW bytes \in Sizes, Put(k, bytes)
  PROVE  StoreInv'
<1>1. /\ UNCHANGED <<provider, confined, listing, always, reading>>
      /\ changes' = changes + 1 /\ changes < MaxChanges
      /\ bucket' = [j \in Stored \cup {k} |-> IF j = k THEN bytes ELSE bucket[j]]
      /\ ever' = IF listing.phase = "listing" THEN ever \cup {k} ELSE ever
  BY DEF Put
<1>2. Stored' = Stored \cup {k}
  BY <1>1 DEF Stored
<1>3. \A j \in Stored' : bucket'[j] \in Sizes
  BY <1>1, <1>2 DEF StoreInv, TypeOK
<1>4. TypeOK'
  <2>1. changes' \in 0..MaxChanges
    BY <1>1, StoreConstants DEF StoreInv, TypeOK
  <2> QED
    BY <1>1, <1>2, <1>3, <2>1 DEF StoreInv, TypeOK, Sizes
<1>5. CASE listing.phase = "listing"
  <2>1. /\ always' \subseteq Stored' /\ Stored' \subseteq ever'
        /\ UpTo(listing.objects, decodeCursor(listing.cursor), RequestPrefix, always, ever')
    BY <1>1, <1>2, <1>5 DEF StoreInv, UpTo
  <2>2. UpTo(listing.objects, decodeCursor(listing.cursor), RequestPrefix, always, ever)'
    BY <1>1, <2>1 DEF RequestPrefix, UpTo
  <2> QED
    BY <1>1, <1>4, <1>5, <2>1, <2>2 DEF StoreInv, ListingIsWhole
<1>6. CASE listing.phase # "listing"
  <2>1. ListingIsWhole'
    BY <1>1, <1>6 DEF StoreInv, ListingIsWhole, RequestPrefix
  <2> QED
    BY <1>1, <1>4, <1>6, <2>1 DEF StoreInv
<1> QED
  BY <1>5, <1>6

LEMMA DeleteStep ==
  ASSUME StoreInv, NEW k \in Key, Delete(k)
  PROVE  StoreInv'
<1>1. /\ UNCHANGED <<provider, confined, listing, ever, reading>>
      /\ changes' = changes + 1 /\ changes < MaxChanges
      /\ bucket' = [j \in Stored \ {k} |-> bucket[j]]
      /\ always' = always \ {k}
  BY DEF Delete
<1>2. Stored' = Stored \ {k}
  BY <1>1 DEF Stored
<1>3. \A j \in Stored' : bucket'[j] \in Sizes
  BY <1>1, <1>2 DEF StoreInv, TypeOK
<1>4. TypeOK'
  <2>1. changes' \in 0..MaxChanges
    BY <1>1, StoreConstants DEF StoreInv, TypeOK
  <2> QED
    BY <1>1, <1>2, <1>3, <2>1 DEF StoreInv, TypeOK, Sizes
<1>5. ASSUME listing.phase = "listing"
      PROVE  /\ always' \subseteq Stored' /\ Stored' \subseteq ever'
             /\ UpTo(listing.objects, decodeCursor(listing.cursor), RequestPrefix, always, ever)'
  <2>1. /\ always' \subseteq Stored' /\ Stored' \subseteq ever'
        /\ UpTo(listing.objects, decodeCursor(listing.cursor), RequestPrefix, always', ever)
    BY <1>1, <1>2, <1>5 DEF StoreInv, UpTo
  <2> QED
    BY <1>1, <2>1 DEF RequestPrefix, UpTo
<1>6. ListingIsWhole'
  BY <1>1 DEF StoreInv, ListingIsWhole, RequestPrefix
<1> QED
  BY <1>1, <1>4, <1>5, <1>6 DEF StoreInv

LEMMA BeginStep ==
  ASSUME StoreInv, BeginListing
  PROVE  StoreInv'
<1>1. /\ listing.phase = "idle" /\ listing' = [listing EXCEPT !.phase = "listing"]
      /\ always' = Stored /\ ever' = Stored
      /\ UNCHANGED <<provider, confined, bucket, changes, reading>>
  BY DEF BeginListing
<1>2. listing \in ListingType
  BY DEF StoreInv, TypeOK, ListingType
<1>3. /\ listing' \in ListingType /\ listing'.phase = "listing"
      /\ listing'.objects = <<>> /\ listing'.cursor = NoCursor
  BY <1>1, <1>2 DEF ListingType, StoreInv
<1>4. TypeOK'
  BY <1>1, <1>3 DEF StoreInv, TypeOK, ListingType, Stored
<1>5. UpTo(<<>>, 0, RequestPrefix', always', ever')
  <2>1. always' \subseteq Key
    BY <1>4 DEF TypeOK
  <2> QED
    BY <2>1 DEF UpTo, Ascending, Key
<1>6. UpTo(listing.objects, decodeCursor(listing.cursor), RequestPrefix, always, ever)'
  BY <1>3, <1>5, NoCursorFacts DEF decodeCursor
<1> QED
  BY <1>1, <1>3, <1>4, <1>6 DEF StoreInv, ListingIsWhole, Stored

LEMMA PageStep ==
  ASSUME StoreInv, NEW answer \in Answers, ListPage(answer)
  PROVE  StoreInv'
<1> DEFINE page    == ConfinedList(answer)
           objects == listing.objects \o page.keys
           token   == decodeCursor(listing.cursor)
<1>1. /\ listing.phase = "listing"
      /\ UNCHANGED <<provider, confined, bucket, changes, always, ever, reading>>
  BY DEF ListPage
<1>2. \/ /\ page.error # NoError
         /\ FailListing(page.error)
      \/ /\ page.error = NoError /\ page.cursor = NoCursor
         /\ listing' = [listing EXCEPT !.phase = "done", !.objects = objects,
                                       !.cursor = NoCursor]
      \/ FailListing("safety_limit")
      \/ /\ page.error = NoError /\ page.cursor \notin {NoCursor, listing.cursor}
         /\ listing' = [listing EXCEPT !.objects = objects, !.cursor = page.cursor]
  BY DEF ListPage
<1>3. /\ TypeOK /\ listing \in ListingType /\ token \in 0..MaxKey /\ listing.objects \in Seq(Key)
      /\ always \subseteq Stored /\ Stored \subseteq ever /\ Stored \in SUBSET Key
      /\ UpTo(listing.objects, token, RequestPrefix, always, ever)
  BY <1>1, StoreConstants
     DEF StoreInv, TypeOK, ListingType, decodeCursor, Cursor, NoCursor, NoToken
<1>4. CASE page.error # NoError /\ FailListing(page.error)
  <2>1. page.error \in Category
    <3>1. List(answer).error \in {NoError, "unavailable", "safety_limit"}
      <4>1. provider \in {"s3", "azure", "gcs"}
        BY <1>3, StoreConstants DEF TypeOK
      <4> QED
        BY <4>1 DEF List, s3List, azureList, gcsList, Page, Refuse
    <3>2. page.error \in {NoError, "unavailable", "safety_limit"}
      BY <3>1 DEF ConfinedList, Refuse
    <3> QED
      BY <1>4, <3>2 DEF Category
  <2> HIDE DEF page
  <2> QED
    BY <1>1, <1>4, <2>1, FailStep
<1>5. CASE FailListing("safety_limit")
  <2>1. "safety_limit" \in Category
    BY DEF Category
  <2> QED
    BY <1>1, <1>5, <2>1, FailStep
<1>6. CASE /\ page.error = NoError /\ page.cursor = NoCursor
           /\ listing' = [listing EXCEPT !.phase = "done", !.objects = objects,
                                         !.cursor = NoCursor]
  <2>1. /\ page.keys \in Seq(Key) /\ Ascending(page.keys)
        /\ Range(page.keys) = Following(token)
    <3>1. \A p \in Key : encodeCursor(p) # NoCursor
      BY CursorFacts
    <3> QED
      BY <1>3, <1>6, <3>1, PageFacts
  <2>2. Range(page.keys) = {k \in Stored \cap RequestPrefix : k > token /\ k <= MaxKey}
    <3>1. \A k \in Stored : k <= MaxKey
      BY <1>3 DEF Key
    <3> QED
      BY <2>1, <3>1 DEF Following
  <2>3. MaxKey \in Nat /\ MaxKey >= token /\ token \in Nat
    BY <1>3, StoreConstants
  <2> HIDE DEF page, token
  <2>4. objects \in Seq(Key) /\ UpTo(objects, MaxKey, RequestPrefix, always, ever)
    BY <1>3, <2>1, <2>2, <2>3, PageExtends
  <2> HIDE DEF objects
  <2>5. /\ listing' \in ListingType /\ listing'.phase = "done" /\ listing'.objects = objects
    BY <1>3, <1>6, <2>4, NoCursorFacts DEF ListingType
  <2>6. TypeOK'
    BY <1>1, <1>3, <2>5 DEF TypeOK, ListingType, Stored
  <2>7. /\ always \cap RequestPrefix \subseteq Range(objects)
        /\ Range(objects) \subseteq ever \cap RequestPrefix
        /\ \A i, j \in DOMAIN objects : i < j => objects[i] < objects[j]
    <3>1. \A k \in always : k <= MaxKey
      BY <1>3 DEF Key
    <3>2. Range(objects) \subseteq ever \cap RequestPrefix
      BY <2>4 DEF UpTo, Range
    <3> QED
      BY <2>4, <3>1, <3>2 DEF UpTo, Ascending
  <2>8. ListingIsWhole'
    BY <1>1, <2>5, <2>7 DEF ListingIsWhole, RequestPrefix
  <2> QED
    BY <2>5, <2>6, <2>8 DEF StoreInv
<1>7. CASE /\ page.error = NoError /\ page.cursor \notin {NoCursor, listing.cursor}
           /\ listing' = [listing EXCEPT !.objects = objects, !.cursor = page.cursor]
  <2>1. /\ page.keys \in Seq(Key) /\ Ascending(page.keys)
        /\ \E p \in Key : /\ page.cursor = encodeCursor(p) /\ p >= token
                          /\ Range(page.keys) = {k \in Following(token) : k <= p}
    BY <1>3, <1>7, PageFacts
  <2>2. PICK p \in Key : /\ page.cursor = encodeCursor(p) /\ p >= token
                         /\ Range(page.keys) = {k \in Following(token) : k <= p}
    BY <2>1
  <2>3. Range(page.keys) = {k \in Stored \cap RequestPrefix : k > token /\ k <= p}
    BY <2>2 DEF Following
  <2>4. p \in Nat /\ token \in Nat /\ decodeCursor(page.cursor) = p /\ page.cursor \in Cursor
    BY <1>3, <2>2, CursorFacts DEF Key
  <2> HIDE DEF page, token
  <2>5. objects \in Seq(Key) /\ UpTo(objects, p, RequestPrefix, always, ever)
    BY <1>3, <2>1, <2>2, <2>3, <2>4, PageExtends, ZenonT(30)
  <2> HIDE DEF objects
  <2>6. /\ listing' \in ListingType /\ listing'.phase = "listing" /\ listing'.objects = objects
        /\ listing'.cursor = page.cursor
    BY <1>1, <1>3, <1>7, <2>4, <2>5 DEF ListingType
  <2>7. TypeOK'
    BY <1>1, <1>3, <2>6 DEF TypeOK, ListingType, Stored
  <2>8. UpTo(listing.objects, decodeCursor(listing.cursor), RequestPrefix, always, ever)'
    <3>1. UpTo(listing'.objects, decodeCursor(listing'.cursor), RequestPrefix, always, ever)
      BY <2>4, <2>5, <2>6
    <3> QED
      BY <1>1, <3>1 DEF RequestPrefix, decodeCursor
  <2> QED
    BY <1>1, <1>3, <2>6, <2>7, <2>8 DEF StoreInv, ListingIsWhole, Stored
<1> QED
  BY <1>2, <1>4, <1>5, <1>6, <1>7

LEMMA NextPreserves == StoreInv /\ [Next]_vars => StoreInv'
<1> SUFFICES ASSUME StoreInv, [Next]_vars PROVE StoreInv'
  OBVIOUS
<1>0. reading \in ReadingType /\ Stored \subseteq Key /\ \A k \in Stored : bucket[k] \in Nat
  BY StoreConstants DEF StoreInv, TypeOK, ReadingType, Sizes
<1>1. ASSUME NEW cause \in Causes, ListFails(cause) PROVE StoreInv'
  <2>1. safeError(cause) \in Category
    BY DEF safeError, categoryForCode, categoryForStatus, Category
  <2> QED
    BY <1>1, <2>1, FailStep DEF ListFails
<1>2. ASSUME NEW k, Open(k) PROVE StoreInv'
  <2>1. reading' \in ReadingType
    <3>1. CASE Reachable(k) /\ k \in Stored
      BY <1>0, <1>2, <3>1, StoreConstants DEF Open, ReadingType
    <3>2. CASE ~(Reachable(k) /\ k \in Stored)
      BY <1>0, <1>2, <3>2 DEF Open, ReadingType
    <3> QED
      BY <3>1, <3>2
  <2> QED
    BY <1>2, <2>1, ReadingStep DEF Open
<1>3. ASSUME NEW k, Stat(k) PROVE StoreInv'
  <2>1. reading' \in ReadingType
    <3>1. CASE Reachable(k) /\ k \in Stored
      BY <1>0, <1>3, <3>1, StoreConstants DEF Stat, ReadingType
    <3>2. CASE ~(Reachable(k) /\ k \in Stored)
      BY <1>0, <1>3, <3>2 DEF Stat, ReadingType
    <3> QED
      BY <3>1, <3>2
  <2> QED
    BY <1>3, <2>1, ReadingStep DEF Stat
<1>4. CASE OpenFails
  BY <1>0, <1>4, ReadingStep DEF OpenFails, ReadingType
<1>5. CASE ReadFails
  BY <1>0, <1>5, ReadingStep DEF ReadFails, ReadingType
<1>6. CASE Read
  <2>1. PICK phase \in {"unreadable", "parse"} : reading' = [reading EXCEPT !.phase = phase]
    <3>1. CASE reading.got > MaxBytes
      BY <1>6, <3>1 DEF Read
    <3>2. CASE ~(reading.got > MaxBytes)
      BY <1>6, <3>2 DEF Read
    <3> QED
      BY <3>1, <3>2
  <2>2. reading' \in ReadingType
    BY <1>0, <2>1 DEF ReadingType
  <2> QED
    BY <1>6, <2>2, ReadingStep DEF Read
<1>7. CASE UNCHANGED vars
  BY <1>0, <1>7, ReadingStep DEF vars
<1> QED
  BY <1>1, <1>2, <1>3, <1>4, <1>5, <1>6, <1>7, PutStep, DeleteStep, BeginStep, PageStep
     DEF Next

(* At every moment of a listing, what it has is whole up to its token.     *)
THEOREM ListingIsConsistent == Spec => []StoreInv
BY InitEstablishes, NextPreserves, PTL DEF Spec

(* A listing that ends without an error has every object that was there    *)
(* all along, none that never was, nothing from outside of the prefix, in  *)
(* order and once each, whatever the service answered (scan, List).        *)
THEOREM ListingWhole == Spec => []ListingIsWhole
<1>1. StoreInv => ListingIsWhole
  BY DEF StoreInv
<1> QED
  BY <1>1, ListingIsConsistent, PTL

=============================================================================
