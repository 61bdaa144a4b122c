---------------------------- MODULE ObjectStore ----------------------------
(***************************************************************************)
(* The read-only boundary of the program: the three provider adapters      *)
(* behind store.Reader, and the reader that confines a sidecar to the      *)
(* prefix of its server.                                                   *)
(*                                                                         *)
(* The service on the other side is external.  It lists its keys in order, *)
(* in pages it may cut short, while others write and delete objects; and   *)
(* it may misbehave: answer too much, answer outside of what was asked,    *)
(* leave out a size or a continuation.  Keys are numbers in listing order. *)
(* The client is the scanner's goroutine: it lists the repository page by  *)
(* page and, when the listing is complete, reads a metadata object as      *)
(* readBackup and readHistory do, or looks an artifact up.                 *)
(***************************************************************************)
EXTENDS Integers, Sequences, FiniteSets, FiniteSetsExt, Functions

CONSTANTS
  Providers,    \* the adapters in use, of "s3", "azure", "gcs"
  MaxKey,       \* keys are 1..MaxKey
  Root,         \* keys under the repository's root prefix
  Marker,       \* keys of Root that equal that prefix: nothing is left of them
  Scope,        \* keys of Root under the prefix of the sidecar's server
  PageSize,     \* limit of one List
  MaxBytes,     \* bound on a metadata object
  MaxChanges    \* bound: writes and deletes while the clients are at work

Key == 1..MaxKey

ASSUME StoreConstants ==
  /\ MaxKey \in Nat
  /\ Providers \subseteq {"s3", "azure", "gcs"}
  /\ Marker \subseteq Root /\ Scope \subseteq Root \ Marker /\ Root \subseteq Key
  /\ PageSize \in Nat \ {0} /\ MaxBytes \in Nat \ {0} /\ MaxChanges \in Nat

VARIABLES
  provider,   \* the configured adapter
  confined,   \* is the reader a prefixConfinedReader
  bucket,     \* bytes of every stored object
  changes,    \* writes and deletes so far
  listing,    \* the scanner's listing: phase, cursor, objects so far, error
  always,     \* keys stored ever since the listing began
  ever,       \* keys stored at some time since then
  reading     \* the read of one metadata object: phase, its size, bytes got

vars == <<provider, confined, bucket, changes, listing, always, ever, reading>>

Sizes    == {MaxBytes, MaxBytes + 1}    \* within the bound, and not
Stored   == DOMAIN bucket
NoCursor == [prefix |-> {}, token |-> 0]
NoError  == "none"

Category == {"canceled", "timeout", "authentication", "authorization", "throttled",
             "unavailable", "not_found", "safety_limit", "unknown"}

Cursor == [prefix : {{}, Root, Scope}, token : 0..MaxKey]

TypeOK ==
  /\ provider \in Providers /\ confined \in BOOLEAN
  /\ Stored \subseteq Key /\ \A k \in Stored : bucket[k] \in Sizes
  /\ changes \in 0..MaxChanges
  /\ listing \in [phase   : {"idle", "listing", "done", "failed"},
                  cursor  : Cursor,
                  objects : Seq(Key),
                  error   : Category \cup {NoError}]
  /\ always \subseteq Key /\ ever \subseteq Key
  /\ reading \in [phase : {"idle", "open", "found", "parse", "unreadable", "failed"},
                  size  : Nat,
                  got   : Nat]

-----------------------------------------------------------------------------
(* Why a call of the SDK fails: the context of the request, or what the    *)
(* service answered, an error code in S3 and a status in the other two.    *)
(* Anything else, a lost connection too, is "other".                       *)
Codes    == {"AccessDenied", "ExpiredToken", "NoSuchKey", "SlowDown", "other"}
Statuses == {"401", "403", "404", "429", "other"}
Causes   == {"canceled", "timeout"} \cup IF provider = "s3" THEN Codes ELSE Statuses

categoryForCode(code) ==
  CASE code = "AccessDenied" -> "authorization"
    [] code = "ExpiredToken" -> "authentication"
    [] code = "NoSuchKey"    -> "not_found"
    [] code = "SlowDown"     -> "throttled"
    [] OTHER                 -> "unavailable"

categoryForStatus(status) ==
  CASE status = "401" -> "authentication"
    [] status = "403" -> "authorization"
    [] status = "404" -> "not_found"
    [] status = "429" -> "throttled"
    [] OTHER          -> "unavailable"

(* The context is looked at first, whatever the call returned. *)
safeError(cause) ==
  IF cause \in {"canceled", "timeout"} THEN cause
  ELSE IF provider = "s3" THEN categoryForCode(cause) ELSE categoryForStatus(cause)

(* The keys under the prefix of a request.  The scanner asks for the whole *)
(* repository; a confined reader asks for its server's prefix instead.     *)
RequestPrefix == IF confined THEN Scope ELSE Root

(* A native answer: the keys, which of them comes without a size (0: none  *)
(* does), whether more is to come, and the token to continue with.         *)
NoToken == 0

Answer(keys, unsized, truncated, token) ==
  [keys |-> keys, unsized |-> unsized, truncated |-> truncated, token |-> token]

(* The keys of a set as the service lists them. *)
InOrder(keys) ==
  {s \in [1..Cardinality(keys) -> keys] :
     /\ Range(s) = keys
     /\ \A i, j \in DOMAIN s : i < j => s[i] < s[j]}

Following(token) == {k \in Stored \cap RequestPrefix : k > token}

(* A token names a position in the order, and a page has what lies between *)
(* the two.  It may be cut short anywhere; there may be a token although   *)
(* nothing follows, and a page of nothing that still moves on, or does not.*)
HonestAnswers(token) ==
  LET upTo(p) == {k \in Following(token) : k <= p}
      ends    == {p \in Key : p >= token /\ Cardinality(upTo(p)) <= PageSize}
  IN  (UNION {{Answer(keys, 0, TRUE, p) : keys \in InOrder(upTo(p))} : p \in ends})
        \cup {Answer(keys, 0, FALSE, NoToken) :
                keys \in {s \in InOrder(Following(token)) : Len(s) <= PageSize}}

(* What an adapter can notice: more keys than asked for, a key from        *)
(* elsewhere, an object without a size, and, where the answer has a flag   *)
(* of its own, a missing continuation.                                     *)
FaultyAnswers(token) ==
  LET honest == HonestAnswers(token)
  IN  {Answer(keys, 0, FALSE, NoToken) :
         keys \in {s \in InOrder(Following(token)) : Len(s) > PageSize}}
      \cup {Answer(Append(a.keys, k), 0, a.truncated, a.token) :
              a \in {h \in honest : Len(h.keys) < PageSize}, k \in Key \ RequestPrefix}
      \cup (UNION {{Answer(a.keys, i, a.truncated, a.token) : i \in DOMAIN a.keys} :
                      a \in honest})
      \cup {Answer(a.keys, 0, TRUE, NoToken) :
              a \in {h \in honest : h.truncated /\ provider = "s3"}}

(* relativeKey: under the root, under the requested prefix, not the root   *)
(* itself.  decodeCursor gives back the token of a cursor for this prefix. *)
relativeKeyOK(key) == key \in RequestPrefix \ Marker

encodeCursor(token) == [prefix |-> RequestPrefix, token |-> token]

decodeCursor(cursor) == IF cursor = NoCursor THEN NoToken ELSE cursor.token

Page(keys, cursor) == [error |-> NoError, keys |-> keys, cursor |-> cursor]
Refuse(category)   == [error |-> category, keys |-> <<>>, cursor |-> NoCursor]

(* The objects of an answer are taken in turn; the first that cannot be    *)
(* taken refuses the whole page.                                           *)
Unusable(answer) ==
  {i \in DOMAIN answer.keys : i = answer.unsized \/ ~relativeKeyOK(answer.keys[i])}

LacksSize(answer) == Min(Unusable(answer)) = answer.unsized

(* Mutant: an S3 answer without a continuation token is the last one. *)
s3ListUntilNoToken(answer) ==
  IF Len(answer.keys) > PageSize THEN Refuse("unavailable")
  ELSE IF Unusable(answer) # {}
    THEN Refuse(IF LacksSize(answer) THEN "unavailable" ELSE "safety_limit")
  ELSE Page(answer.keys, IF answer.truncated /\ answer.token # NoToken
                           THEN encodeCursor(answer.token) ELSE NoCursor)

(* S3 says whether the answer is truncated, and then owes a token. *)
s3List(answer) ==
  IF Len(answer.keys) > PageSize THEN Refuse("unavailable")
  ELSE IF Unusable(answer) # {}
    THEN Refuse(IF LacksSize(answer) THEN "unavailable" ELSE "safety_limit")
  ELSE IF answer.truncated /\ answer.token = NoToken THEN Refuse("unavailable")
  ELSE Page(answer.keys, IF answer.truncated THEN encodeCursor(answer.token) ELSE NoCursor)

(* In Azure the marker itself says that there is more. *)
azureList(answer) ==
  IF Len(answer.keys) > PageSize THEN Refuse("unavailable")
  ELSE IF Unusable(answer) # {}
    THEN Refuse(IF LacksSize(answer) THEN "unavailable" ELSE "safety_limit")
  ELSE Page(answer.keys, IF answer.token # NoToken THEN encodeCursor(answer.token)
                                                   ELSE NoCursor)

(* And in GCS; there a negative size is a limit like a key from elsewhere. *)
gcsList(answer) ==
  IF Len(answer.keys) > PageSize THEN Refuse("unavailable")
  ELSE IF Unusable(answer) # {} THEN Refuse("safety_limit")
  ELSE Page(answer.keys, IF answer.token # NoToken THEN encodeCursor(answer.token)
                                                   ELSE NoCursor)

List(answer) ==
  CASE provider = "s3"    -> s3List(answer)
    [] provider = "azure" -> azureList(answer)
    [] provider = "gcs"   -> gcsList(answer)

(* prefixConfinedReader.List looks at every key once more. *)
ConfinedList(answer) ==
  LET page == List(answer)
  IN  IF confined /\ \E i \in DOMAIN page.keys : page.keys[i] \notin Scope
        THEN Refuse("safety_limit")
        ELSE page

-----------------------------------------------------------------------------
Init ==
  /\ provider \in Providers
  /\ confined \in BOOLEAN
  /\ confined => provider = "s3"
  /\ \E K \in SUBSET Key : bucket = [k \in K |-> MaxBytes]
  /\ changes = 0
  /\ listing = [phase |-> "idle", cursor |-> NoCursor, objects |-> <<>>, error |-> NoError]
  /\ always = {} /\ ever = {}
  /\ reading = [phase |-> "idle", size |-> 0, got |-> 0]

(* Others write to the bucket and delete from it. *)
Put(k, bytes) ==
  /\ changes < MaxChanges
  /\ changes' = changes + 1
  /\ bucket' = [j \in Stored \cup {k} |-> IF j = k THEN bytes ELSE bucket[j]]
  /\ ever' = IF listing.phase = "listing" THEN ever \cup {k} ELSE ever
  /\ UNCHANGED <<provider, confined, listing, always, reading>>

Delete(k) ==
  /\ changes < MaxChanges
  /\ k \in Stored
  /\ changes' = changes + 1
  /\ bucket' = [j \in Stored \ {k} |-> bucket[j]]
  /\ always' = always \ {k}
  /\ UNCHANGED <<provider, confined, listing, ever, reading>>

BeginListing ==
  /\ listing.phase = "idle"
  /\ listing' = [listing EXCEPT !.phase = "listing"]
  /\ always' = Stored /\ ever' = Stored
  /\ UNCHANGED <<provider, confined, bucket, changes, reading>>

FailListing(category) ==
  listing' = [listing EXCEPT !.phase = "failed", !.error = category, !.objects = <<>>,
                             !.cursor = NoCursor]

(* One call of List by the scanner: the request fails, is refused by the   *)
(* adapter, repeats its cursor, ends the listing or continues it.          *)
ListFails(cause) ==
  /\ listing.phase = "listing"
  /\ FailListing(safeError(cause))
  /\ UNCHANGED <<provider, confined, bucket, changes, always, ever, reading>>

ListPage(answer) ==
  LET page    == ConfinedList(answer)
      objects == listing.objects \o page.keys
  IN  /\ listing.phase = "listing"
      /\ \/ /\ page.error # NoError
            /\ FailListing(page.error)
         \/ /\ page.error = NoError /\ page.cursor = NoCursor
            /\ listing' = [listing EXCEPT !.phase = "done", !.objects = objects,
                                          !.cursor = NoCursor]
         \/ /\ page.error = NoError /\ page.cursor # NoCursor
            /\ page.cursor = listing.cursor
            /\ FailListing("safety_limit")
         \/ /\ page.error = NoError /\ page.cursor \notin {NoCursor, listing.cursor}
            /\ listing' = [listing EXCEPT !.objects = objects, !.cursor = page.cursor]
      /\ UNCHANGED <<provider, confined, bucket, changes, always, ever, reading>>

Answers == LET token == decodeCursor(listing.cursor)
           IN  HonestAnswers(token) \cup FaultyAnswers(token)

Idle == listing.phase = "done" /\ reading.phase = "idle"

(* A confined reader does not pass on a request for another key. *)
Reachable(k) == confined => k \in Scope

(* Open, the same in every adapter: the object as it is now, its body cut  *)
(* at the MaxBytes of the request.                                         *)
Open(k) ==
  /\ Idle
  /\ reading' = IF Reachable(k) /\ k \in Stored
                  THEN [phase |-> "open", size |-> bucket[k],
                        got |-> IF bucket[k] < MaxBytes THEN bucket[k] ELSE MaxBytes]
                  ELSE [reading EXCEPT !.phase = "failed"]
  /\ UNCHANGED <<provider, confined, bucket, changes, listing, always, ever>>

(* Stat: only that the object is there, and how large it is. *)
Stat(k) ==
  /\ Idle
  /\ reading' = IF Reachable(k) /\ k \in Stored
                  THEN [phase |-> "found", size |-> bucket[k], got |-> 0]
                  ELSE [reading EXCEPT !.phase = "failed"]
  /\ UNCHANGED <<provider, confined, bucket, changes, listing, always, ever>>

OpenFails ==
  /\ Idle
  /\ reading' = [reading EXCEPT !.phase = "failed"]
  /\ UNCHANGED <<provider, confined, bucket, changes, listing, always, ever>>

(* The body ends early: the connection or the deadline of the request. *)
ReadFails ==
  /\ reading.phase = "open"
  /\ reading' = [reading EXCEPT !.phase = "unreadable"]
  /\ UNCHANGED <<provider, confined, bucket, changes, listing, always, ever>>

(* readBackup, readHistory: more than the bound is unreadable, anything    *)
(* else goes to the parser.                                                *)
Read ==
  /\ reading.phase = "open"
  /\ reading' = [reading EXCEPT !.phase = IF reading.got > MaxBytes
                                            THEN "unreadable" ELSE "parse"]
  /\ UNCHANGED <<provider, confined, bucket, changes, listing, always, ever>>

Next ==
  \/ \E k \in Key, bytes \in Sizes : Put(k, bytes)
  \/ \E k \in Key : Delete(k)
  \/ BeginListing
  \/ \E cause \in Causes : ListFails(cause)
  \/ \E answer \in Answers : ListPage(answer)
  \/ \E k \in Root \ Marker : Open(k) \/ Stat(k)
  \/ OpenFails
  \/ ReadFails
  \/ Read

Spec == Init /\ [][Next]_vars

-----------------------------------------------------------------------------
(* A listing that ends without an error is whole: whatever the pages were  *)
(* cut into, whatever was written meanwhile and however the service        *)
(* misbehaved, it has every object that was there all along, none that     *)
(* never was, nothing from outside of the prefix, in order and once each.  *)
(* The scan built on it is published as complete (scanner.go:208).         *)
ListingIsWhole ==
  listing.phase = "done" =>
    LET listed == Range(listing.objects)
    IN  /\ always \cap RequestPrefix \subseteq listed
        /\ listed \subseteq ever \cap RequestPrefix
        /\ \A i, j \in DOMAIN listing.objects :
             i < j => listing.objects[i] < listing.objects[j]

(* catalog.go:37: "A bigger object is not evidence of a valid backup.info  *)
(* file."  What is parsed is an object within the bound.                   *)
OversizeIsNotParsed ==
  reading.phase = "parse" => reading.size <= MaxBytes
=============================================================================
