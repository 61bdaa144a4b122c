--------------------------- MODULE ServiceProofs ---------------------------
(***************************************************************************)
(* Proofs about the evidence server, for any number of clients, any number *)
(* of slots and any requests: what the slots, the answers and the socket   *)
(* promise on every interleaving of handlers, publications, shutdown and   *)
(* kills.                                                                  *)
(***************************************************************************)
EXTENDS EvidenceService, FiniteSetTheorems, TLAPS

(* A request has a slot from Admit to Return. *)
HoldingPhase == {"admitted", "refused", "dispatching", "decided", "answered"}

Holders == {c \in Clients : handler[c].phase \in HoldingPhase}

(* What a handler has found out, against the current publication.          *)
Sound(h) ==
  /\ h.newest <= current
  /\ h.phase \in HoldingPhase => h.request.authenticated
  /\ h.phase \in {"refused", "decided"} => h.decision \notin {"none", "busy", "empty"}
  /\ h.phase = "dispatching" => h.request.route # "not-found"
  /\ h.phase = "refused" => /\ h.decision \in Refusal
                            /\ h.request = AnyRequest
  /\ h.phase \in {"arrived", "admitted", "dispatching", "decided"} =>
       /\ h.request.revision <= h.newest
       /\ ReadsEvidence(h.request) => h.newest <= h.oldest /\ h.oldest <= current
  /\ h.phase = "decided" =>
       /\ ReadsEvidence(h.request) => h.oldest <= h.revision /\ h.revision <= current
       /\ h.decision = "publication-changed" => h.request.revision < current
       /\ h.decision = "invalid-publication" => h.deadline \/ h.gone \/ canceled

ServiceInv ==
  /\ TypeOK
  /\ slots = Cardinality(Holders)
  /\ \A c \in Clients : Sound(handler[c])
  /\ process = "ended" => \A c \in Clients : handler[c] = Quiet(0)
  /\ server \in {"bound", "serving"} => path = "live"

-----------------------------------------------------------------------------
(* Requests and handlers are of their types. *)

LEMMA AnyRequestType == AnyRequest \in Request
BY ServiceAssumption DEF AnyRequest, Request, Route

LEMMA QuietType ==
  ASSUME NEW n \in 0..MaxRevision
  PROVE  /\ Quiet(n) \in Handler
         /\ Quiet(n).phase = "idle"
         /\ Quiet(n).newest = n
         /\ Quiet(n).answer = "none"
         /\ Quiet(n).request = AnyRequest
         /\ AnyRequest.authenticated
BY ServiceAssumption, AnyRequestType DEF Quiet, Handler, AnyRequest

LEMMA RequestsType ==
  ASSUME NEW h \in Handler, NEW r \in Requests(h)
  PROVE  /\ r \in Request
         /\ r.revision \in {0, h.newest}
<1>1. PICK f \in Forms : r = [f EXCEPT !.revision = IF f.query = "page" THEN h.newest ELSE 0]
  BY DEF Requests
<1>2. f \in Request /\ h.newest \in 0..MaxRevision
  BY ServiceAssumption DEF Handler
<1> QED
  BY <1>1, <1>2, ServiceAssumption DEF Request

(* Every client is alone with its handler. *)
LEMMA BecomeFacts ==
  ASSUME handler \in [Clients -> Handler], NEW c \in Clients, NEW h \in Handler, Become(c, h)
  PROVE  /\ handler' \in [Clients -> Handler]
         /\ handler'[c] = h
         /\ \A d \in Clients \ {c} : handler'[d] = handler[d]
BY DEF Become

LEMMA HoldersFinite ==
  /\ IsFiniteSet(Holders)
  /\ Cardinality(Holders) \in Nat
<1>1. Holders \in SUBSET Clients
  BY DEF Holders
<1> QED
  BY <1>1, ServiceAssumption, FS_Subset, FS_CardinalityType

(* What a step of one client does to the number of slots held. *)
LEMMA HoldersAfter ==
  ASSUME handler \in [Clients -> Handler], NEW c \in Clients, NEW h \in Handler, Become(c, h)
  PROVE  /\ (h.phase \in HoldingPhase <=> handler[c].phase \in HoldingPhase)
              => Cardinality(Holders') = Cardinality(Holders)
         /\ h.phase \in HoldingPhase /\ handler[c].phase \notin HoldingPhase
              => Cardinality(Holders') = Cardinality(Holders) + 1
         /\ h.phase \notin HoldingPhase /\ handler[c].phase \in HoldingPhase
              => Cardinality(Holders') = Cardinality(Holders) - 1
<1>1. /\ handler'[c] = h
      /\ \A d \in Clients \ {c} : handler'[d] = handler[d]
  BY BecomeFacts
<1>2. (h.phase \in HoldingPhase <=> handler[c].phase \in HoldingPhase) => Holders' = Holders
  BY <1>1 DEF Holders
<1>3. h.phase \in HoldingPhase /\ handler[c].phase \notin HoldingPhase
        => Holders' = Holders \cup {c} /\ c \notin Holders
  BY <1>1 DEF Holders
<1>4. h.phase \notin HoldingPhase /\ handler[c].phase \in HoldingPhase
        => Holders' = Holders \ {c} /\ c \in Holders
  BY <1>1 DEF Holders
<1>5. Cardinality(Holders \cup {c}) = IF c \in Holders THEN Cardinality(Holders)
                                                       ELSE Cardinality(Holders) + 1
  BY HoldersFinite, FS_AddElement
<1>6. Cardinality(Holders \ {c}) = IF c \in Holders THEN Cardinality(Holders) - 1
                                                    ELSE Cardinality(Holders)
  BY HoldersFinite, FS_RemoveElement
<1> QED
  BY <1>2, <1>3, <1>4, <1>5, <1>6

(* A handler that is left alone stays sound while publications go forward  *)
(* and the context, once canceled, stays canceled.                         *)
LEMMA SoundStays ==
  ASSUME NEW h \in Handler, Sound(h),
         current \in 0..MaxRevision, current' \in 0..MaxRevision,
         current <= current', canceled => canceled'
  PROVE  Sound(h)'
<1> USE ServiceAssumption
<1>1. /\ h.newest \in 0..MaxRevision /\ h.oldest \in 0..MaxRevision
      /\ h.revision \in 0..MaxRevision /\ h.request.revision \in 0..MaxRevision
  BY DEF Handler, Request
<1> QED
  BY <1>1 DEF Sound, ReadsEvidence

(* A step of one client that leaves its handler sound, and takes or gives  *)
(* back a slot exactly when it begins or ceases to hold one, preserves     *)
(* everything.                                                             *)
LEMMA ClientStep ==
  ASSUME ServiceInv, NEW c \in Clients, NEW h \in Handler, Become(c, h),
         RuntimeUnchanged, process = "running", Sound(h),
         slots' \in 0..MaxConcurrent,
         \/ slots' = slots /\ (h.phase \in HoldingPhase <=> handler[c].phase \in HoldingPhase)
         \/ slots' = slots + 1 /\ h.phase \in HoldingPhase /\ handler[c].phase \notin HoldingPhase
         \/ slots' = slots - 1 /\ h.phase \notin HoldingPhase /\ handler[c].phase \in HoldingPhase
  PROVE  ServiceInv'
<1>1. TypeOK /\ slots = Cardinality(Holders)
  BY DEF ServiceInv
<1>2. /\ handler' \in [Clients -> Handler]
      /\ handler'[c] = h
      /\ \A d \in Clients \ {c} : handler'[d] = handler[d]
  BY <1>1, BecomeFacts DEF TypeOK
<1>3. TypeOK'
  BY <1>1, <1>2 DEF TypeOK, RuntimeUnchanged
<1>4. slots' = Cardinality(Holders')
  BY <1>1, HoldersAfter DEF TypeOK
<1>5. \A d \in Clients : Sound(handler'[d])
  BY <1>2 DEF ServiceInv
<1>6. \A d \in Clients : Sound(handler[d])'
  BY <1>5 DEF RuntimeUnchanged, Sound
<1>7. process' = "running" /\ server' = server /\ path' = path
  BY DEF RuntimeUnchanged
<1> QED
  BY <1>3, <1>4, <1>6, <1>7 DEF ServiceInv

(* What is remembered between two requests, and while one is turned away   *)
(* or answered, is only the newest revision.                               *)
LEMMA QuietSound ==
  ASSUME NEW n \in 0..MaxRevision, n <= current,
         NEW phase \in {"idle", "turned-away", "answered"}, NEW answer \in Answer \cup {"none"}
  PROVE  LET h == [Quiet(n) EXCEPT !.phase = phase, !.answer = answer]
         IN  /\ h \in Handler
             /\ Sound(h)
             /\ h.phase = phase /\ h.answer = answer /\ h.newest = n
             /\ Sound(Quiet(n))
<1> DEFINE h == [Quiet(n) EXCEPT !.phase = phase, !.answer = answer]
<1>1. Quiet(n) \in Handler /\ Quiet(n).request = AnyRequest /\ AnyRequest.authenticated
  BY QuietType
<1>2. h \in Handler
  BY <1>1 DEF Handler
<1>3. h.phase = phase /\ h.answer = answer /\ h.newest = n /\ h.request = AnyRequest
  BY DEF Quiet
<1>4. Quiet(n).phase = "idle" /\ Quiet(n).newest = n
  BY DEF Quiet
<1>5. Sound(h)
  BY <1>1, <1>3 DEF Sound, HoldingPhase
<1>6. Sound(Quiet(n))
  BY <1>4 DEF Sound, HoldingPhase
<1> QED
  BY <1>2, <1>3, <1>5, <1>6

LEMMA ArrivePreserves ==
  ASSUME ServiceInv, NEW c \in Clients, Arrive(c)
  PROVE  ServiceInv'
<1> DEFINE old == handler[c]
<1>1. old \in Handler /\ Sound(old) /\ old.newest \in 0..MaxRevision /\ old.newest <= current
  BY DEF ServiceInv, TypeOK, Handler, Sound
<1>2. PICK r \in Requests(old) :
        Become(c, [Quiet(old.newest) EXCEPT !.phase = "arrived", !.request = r,
                     !.oldest = IF ReadsEvidence(r) THEN current ELSE 0])
  BY DEF Arrive
<1>3. r \in Request /\ r.revision \in {0, old.newest}
  BY <1>1, RequestsType
<1>4. current \in 0..MaxRevision /\ slots \in 0..MaxConcurrent
  BY DEF ServiceInv, TypeOK
<1>5. PICK o \in 0..MaxRevision : o = IF ReadsEvidence(r) THEN current ELSE 0
  BY <1>4, ServiceAssumption
<1> DEFINE h == [Quiet(old.newest) EXCEPT !.phase = "arrived", !.request = r, !.oldest = o]
<1>6. h \in Handler /\ Become(c, h)
  <2>1. h \in Handler
    <3>1. Quiet(old.newest) \in Handler
      BY <1>1, QuietType
    <3> QED
      BY <3>1, <1>3 DEF Handler
  <2>2. Become(c, h)
    BY <1>2, <1>5, Zenon
  <2> QED
    BY <2>1, <2>2
<1>7. h.phase = "arrived" /\ h.request = r /\ h.newest = old.newest /\ h.oldest = o
  BY DEF Quiet
<1>8. Sound(h)
  BY <1>1, <1>3, <1>4, <1>5, <1>7, ServiceAssumption DEF Sound, HoldingPhase
<1>9. old.phase = "idle" /\ process = "running" /\ slots' = slots /\ RuntimeUnchanged
  BY DEF Arrive, Handles
<1> HIDE DEF h
<1> QED
  BY <1>4, <1>6, <1>7, <1>8, <1>9, ClientStep DEF HoldingPhase

LEMMA RefusePreserves ==
  ASSUME ServiceInv, NEW c \in Clients, NEW refusal \in Refusal,
         Handles(c, "arrived"), Refuse(c, refusal)
  PROVE  ServiceInv'
<1> DEFINE old == handler[c]
           h == [Quiet(old.newest) EXCEPT !.phase = "turned-away", !.answer = refusal]
<1>1. old.newest \in 0..MaxRevision /\ old.newest <= current /\ slots \in 0..MaxConcurrent
  BY DEF ServiceInv, TypeOK, Handler, Sound
<1>2. h \in Handler /\ Sound(h) /\ h.phase = "turned-away"
  BY <1>1, QuietSound DEF Answer
<1>3. Become(c, h) /\ slots' = slots /\ RuntimeUnchanged /\ process = "running"
      /\ old.phase = "arrived"
  BY DEF Refuse, Handles
<1> HIDE DEF h
<1> QED
  BY <1>1, <1>2, <1>3, ClientStep DEF HoldingPhase

LEMMA AdmitPreserves ==
  ASSUME ServiceInv, NEW c \in Clients, Admit(c)
  PROVE  ServiceInv'
<1> DEFINE old == handler[c]
           h == [old EXCEPT !.phase = "admitted"]
<1>1. old \in Handler /\ Sound(old) /\ slots \in 0..MaxConcurrent
  BY DEF ServiceInv, TypeOK
<1>2. old.phase = "arrived" /\ old.request.authenticated /\ slots < MaxConcurrent
      /\ slots' = slots + 1 /\ Become(c, h) /\ RuntimeUnchanged /\ process = "running"
  BY DEF Admit, Handles
<1>3. h \in Handler /\ h.phase = "admitted"
  BY <1>1 DEF Handler
<1>4. Sound(h)
  BY <1>1, <1>2 DEF Sound, HoldingPhase, Handler
<1>5. slots' \in 0..MaxConcurrent
  BY <1>1, <1>2, ServiceAssumption
<1> HIDE DEF h
<1> QED
  BY <1>2, <1>3, <1>4, <1>5, ClientStep DEF HoldingPhase

LEMMA CheckPreserves ==
  ASSUME ServiceInv, NEW c \in Clients, Check(c)
  PROVE  ServiceInv'
<1> DEFINE old == handler[c]
<1>1. old \in Handler /\ Sound(old) /\ slots \in 0..MaxConcurrent
      /\ old.newest \in 0..MaxRevision /\ old.newest <= current
  BY DEF ServiceInv, TypeOK, Handler, Sound
<1>2. old.phase = "admitted" /\ process = "running" /\ slots' = slots /\ RuntimeUnchanged
  BY DEF Check, Handles
<1>3. \/ /\ Become(c, [old EXCEPT !.phase = "dispatching"])
         /\ old.request.route # "not-found"
      \/ \E refusal \in {"method-not-allowed", "not-found", "invalid-request"} :
           Become(c, [Quiet(old.newest) EXCEPT !.phase = "refused", !.decision = refusal])
  BY DEF Check
<1>4. CASE /\ Become(c, [old EXCEPT !.phase = "dispatching"])
           /\ old.request.route # "not-found"
  <2> DEFINE h == [old EXCEPT !.phase = "dispatching"]
  <2>1. h \in Handler /\ h.phase = "dispatching"
    BY <1>1 DEF Handler
  <2>2. Sound(h)
    BY <1>1, <1>2, <1>4 DEF Sound, HoldingPhase, Handler
  <2>3. Become(c, h)
    BY <1>4
  <2> HIDE DEF h
  <2> QED
    BY <1>1, <1>2, <2>1, <2>2, <2>3, ClientStep DEF HoldingPhase
<1>5. ASSUME NEW refusal \in {"method-not-allowed", "not-found", "invalid-request"},
             Become(c, [Quiet(old.newest) EXCEPT !.phase = "refused", !.decision = refusal])
      PROVE  ServiceInv'
  <2> DEFINE h == [Quiet(old.newest) EXCEPT !.phase = "refused", !.decision = refusal]
  <2>1. Quiet(old.newest) \in Handler
    BY <1>1, QuietType
  <2>2. h \in Handler
    BY <2>1 DEF Handler, Answer, Refusal
  <2>3. h.phase = "refused" /\ h.decision = refusal /\ h.request = AnyRequest /\ h.newest = old.newest
    BY DEF Quiet
  <2>4. Sound(h)
    BY <1>1, <2>3 DEF Sound, HoldingPhase, AnyRequest, Refusal
  <2>5. Become(c, h)
    BY <1>5
  <2> HIDE DEF h
  <2> QED
    BY <1>1, <1>2, <2>2, <2>3, <2>4, <2>5, ClientStep DEF HoldingPhase
<1> QED
  BY <1>3, <1>4, <1>5

(* What is decided is an answer, and each one for its reason. *)
LEMMA DecisionFacts ==
  ASSUME NEW h \in Handler, h.request.route # "not-found", NEW d \in Decisions(h)
  PROVE  /\ d \in Answer \ {"busy", "empty"}
         /\ d = "publication-changed" => h.request.revision # current
         /\ d = "invalid-publication" => h.deadline \/ h.gone \/ canceled
<1>1. h.request \in Request
  BY DEF Handler
<1>2. ContextErr(h) # "none" => h.deadline \/ h.gone \/ canceled
  BY DEF ContextErr
<1>3. h.request.route \in Route /\ h.request.query \in {"none", "page", "other"}
  BY <1>1 DEF Request
<1>4. CASE h.request.route # "collection"
  <2>1. \/ d \in {"invalid-request", "ok", "not-ready", "response-limit"}
        \/ d = "invalid-publication" /\ ContextErr(h) # "none"
    BY <1>3, <1>4 DEF Decisions, Route
  <2> QED
    BY <1>2, <2>1 DEF Answer, Refusal
<1>5. CASE h.request.route = "collection"
  <2>1. \/ d \in {"invalid-request", "ok", "response-limit"}
        \/ d = "invalid-publication" /\ ContextErr(h) # "none"
        \/ d = "publication-changed" /\ h.request.revision # current
    BY <1>3, <1>5 DEF Decisions, Route
  <2> QED
    BY <1>2, <2>1 DEF Answer, Refusal
<1> QED
  BY <1>4, <1>5

LEMMA DispatchPreserves ==
  ASSUME ServiceInv, NEW c \in Clients, Dispatch(c)
  PROVE  ServiceInv'
<1> DEFINE old == handler[c]
<1>1. old \in Handler /\ Sound(old) /\ slots \in 0..MaxConcurrent /\ current \in 0..MaxRevision
  BY DEF ServiceInv, TypeOK
<1>2. old.phase = "dispatching" /\ process = "running" /\ slots' = slots /\ RuntimeUnchanged
  BY DEF Dispatch, Handles
<1>3. PICK d \in Decisions(old) :
        Become(c, [old EXCEPT !.phase = "decided", !.decision = d,
                     !.revision = IF ReadsEvidence(old.request) THEN ReadRevision(old) ELSE 0])
  BY DEF Dispatch
<1>4. PICK v \in 0..MaxRevision : v = IF ReadsEvidence(old.request) THEN ReadRevision(old) ELSE 0
  BY <1>1, ServiceAssumption DEF ReadRevision
<1> DEFINE h == [old EXCEPT !.phase = "decided", !.decision = d, !.revision = v]
<1>5. Become(c, h)
  BY <1>3, <1>4, Zenon
<1>6. /\ d \in Answer \ {"busy", "empty"}
      /\ d = "publication-changed" => old.request.revision # current
      /\ d = "invalid-publication" => old.deadline \/ old.gone \/ canceled
  BY <1>1, <1>2, DecisionFacts DEF Sound
<1>7. h \in Handler
  BY <1>1, <1>6 DEF Handler
<1>8. /\ h.phase = "decided" /\ h.decision = d /\ h.revision = v /\ h.request = old.request
      /\ h.newest = old.newest /\ h.oldest = old.oldest /\ h.deadline = old.deadline
      /\ h.gone = old.gone
  BY <1>1 DEF Handler
<1>9. Sound(h)
  <2>1. /\ old.newest \in 0..MaxRevision /\ old.oldest \in 0..MaxRevision
        /\ old.request.revision \in 0..MaxRevision
    BY <1>1 DEF Handler, Request
  <2>2. d # "none"
    BY <1>6 DEF Answer, Refusal
  <2> HIDE DEF h
  <2> QED
    BY <1>1, <1>2, <1>4, <1>6, <1>8, <2>1, <2>2, ServiceAssumption
       DEF Sound, HoldingPhase, ReadRevision
<1> HIDE DEF h
<1> QED
  BY <1>1, <1>2, <1>5, <1>7, <1>8, <1>9, ClientStep DEF HoldingPhase

(* The end of a request, and what its client knows then. *)
LEMMA AnsweredFacts ==
  ASSUME NEW h \in Handler, NEW answer \in Answer
  PROVE  LET n == IF ~h.gone /\ answer = "ok" /\ h.request.route = "snapshot"
                    THEN h.revision ELSE h.newest
             a == IF h.gone THEN "none" ELSE answer
         IN  /\ Answered(h, answer) = [Quiet(n) EXCEPT !.phase = "answered", !.answer = a]
             /\ n \in 0..MaxRevision
             /\ a \in Answer \cup {"none"}
<1>1. h.revision \in 0..MaxRevision /\ h.newest \in 0..MaxRevision
  BY DEF Handler
<1>2. Answered(h, answer) =
        [Quiet(IF ~h.gone /\ answer = "ok" /\ h.request.route = "snapshot"
                 THEN h.revision ELSE h.newest) EXCEPT
           !.phase = "answered", !.answer = IF h.gone THEN "none" ELSE answer]
  BY Zenon DEF Answered
<1> QED
  BY <1>1, <1>2

LEMMA AnswerPreserves ==
  ASSUME ServiceInv, NEW c \in Clients, NEW answer \in Answer,
         Handles(c, "refused") \/ Handles(c, "decided"),
         Become(c, Answered(handler[c], answer)), slots' = slots, RuntimeUnchanged
  PROVE  ServiceInv'
<1> DEFINE old == handler[c]
           n == IF ~old.gone /\ answer = "ok" /\ old.request.route = "snapshot"
                  THEN old.revision ELSE old.newest
           a == IF old.gone THEN "none" ELSE answer
           h == [Quiet(n) EXCEPT !.phase = "answered", !.answer = a]
<1>1. old \in Handler /\ Sound(old) /\ slots \in 0..MaxConcurrent
  BY DEF ServiceInv, TypeOK
<1>2. n \in 0..MaxRevision /\ a \in Answer \cup {"none"} /\ Answered(old, answer) = h
  BY <1>1, AnsweredFacts
<1>3. n <= current
  BY <1>1 DEF Sound, Handles, ReadsEvidence, AnyRequest
<1> HIDE DEF n, a
<1>4. h \in Handler /\ Sound(h) /\ h.phase = "answered"
  BY <1>2, <1>3, QuietSound
<1>5. old.phase \in HoldingPhase /\ process = "running"
  BY DEF Handles, HoldingPhase
<1>6. Become(c, h)
  BY <1>2
<1> HIDE DEF h
<1> QED
  BY <1>1, <1>4, <1>5, <1>6, ClientStep DEF HoldingPhase

LEMMA WriteRefusalPreserves ==
  ASSUME ServiceInv, NEW c \in Clients, WriteRefusal(c)
  PROVE  ServiceInv'
<1>1. handler[c].decision \in Answer
  BY DEF ServiceInv, WriteRefusal, Handles, Sound, Answer
<1> QED
  BY <1>1, AnswerPreserves DEF WriteRefusal

LEMMA WritePreserves ==
  ASSUME ServiceInv, NEW c \in Clients, Write(c)
  PROVE  ServiceInv'
<1> DEFINE answer == IF ContextErr(handler[c]) = "canceled" THEN "empty" ELSE handler[c].decision
<1>1. answer \in Answer
  <2>1. handler[c].decision \in Answer \cup {"none"} /\ handler[c].decision # "none"
    BY DEF ServiceInv, TypeOK, Write, Handles, Sound, Handler
  <2> QED
    BY <2>1 DEF Answer
<1>2. /\ Handles(c, "decided")
      /\ Become(c, Answered(handler[c], answer)) /\ slots' = slots /\ RuntimeUnchanged
  BY DEF Write
<1> HIDE DEF answer
<1> QED
  BY <1>1, <1>2, AnswerPreserves

(* A request that ends gives its slot back if it had one. *)
LEMMA EndPreserves ==
  ASSUME ServiceInv, NEW c \in Clients, Return(c) \/ Leave(c)
  PROVE  ServiceInv'
<1> DEFINE n == handler[c].newest
<1>1. n \in 0..MaxRevision /\ n <= current /\ slots \in 0..MaxConcurrent
  BY DEF ServiceInv, TypeOK, Handler, Sound
<1>2. Quiet(n) \in Handler /\ Quiet(n).phase = "idle"
  BY <1>1, QuietType
<1>3. Sound(Quiet(n))
  BY <1>1, QuietType DEF Sound, HoldingPhase
<1>4. Become(c, Quiet(n)) /\ RuntimeUnchanged /\ process = "running"
  BY DEF Return, Leave, Handles
<1>5. CASE Return(c)
  <2>1. c \in Holders /\ slots' = slots - 1 /\ handler[c].phase = "answered"
    BY <1>5 DEF Return, Handles, Holders, HoldingPhase
  <2>2. slots # 0
    BY <2>1, HoldersFinite, FS_EmptySet DEF ServiceInv
  <2>3. slots' \in 0..MaxConcurrent
    BY <1>1, <2>1, <2>2, ServiceAssumption
  <2> QED
    BY <1>2, <1>3, <1>4, <2>1, <2>3, ClientStep DEF HoldingPhase
<1>6. CASE Leave(c)
  BY <1>1, <1>2, <1>3, <1>4, <1>6, ClientStep DEF Leave, Handles, HoldingPhase
<1> QED
  BY <1>5, <1>6

LEMMA TimeOutPreserves ==
  ASSUME ServiceInv, NEW c \in Clients, TimeOut(c)
  PROVE  ServiceInv'
<1> DEFINE old == handler[c]
           h == [old EXCEPT !.deadline = TRUE]
<1>1. old \in Handler /\ Sound(old) /\ slots \in 0..MaxConcurrent
  BY DEF ServiceInv, TypeOK
<1>2. Become(c, h) /\ slots' = slots /\ RuntimeUnchanged /\ process = "running"
  BY DEF TimeOut
<1>3. h \in Handler /\ h.phase = old.phase
  BY <1>1 DEF Handler
<1>4. Sound(h)
  BY <1>1 DEF Sound, Handler
<1> HIDE DEF h
<1> QED
  BY <1>1, <1>2, <1>3, <1>4, ClientStep

LEMMA HangUpPreserves ==
  ASSUME ServiceInv, NEW c \in Clients, HangUp(c)
  PROVE  ServiceInv'
<1> DEFINE old == handler[c]
           h == [old EXCEPT !.gone = TRUE]
<1>1. old \in Handler /\ Sound(old) /\ slots \in 0..MaxConcurrent
  BY DEF ServiceInv, TypeOK
<1>2. Become(c, h) /\ slots' = slots /\ RuntimeUnchanged /\ process = "running"
  BY DEF HangUp
<1>3. h \in Handler /\ h.phase = old.phase
  BY <1>1 DEF Handler
<1>4. Sound(h)
  BY <1>1 DEF Sound, Handler
<1> HIDE DEF h
<1> QED
  BY <1>1, <1>2, <1>3, <1>4, ClientStep

-----------------------------------------------------------------------------
(* The runtime leaves the handlers alone, until it takes them all away. *)

LEMMA RuntimePreserves ==
  ASSUME ServiceInv, TypeOK', UNCHANGED <<handler, slots, process>>,
         current <= current', canceled => canceled',
         server' \in {"bound", "serving"} => path' = "live"
  PROVE  ServiceInv'
<1>1. TypeOK
  BY DEF ServiceInv
<1>2. Holders' = Holders
  BY DEF Holders
<1>3. \A c \in Clients : Sound(handler[c])'
  <2> SUFFICES ASSUME NEW c \in Clients PROVE Sound(handler[c])'
    OBVIOUS
  <2>1. handler[c] \in Handler /\ Sound(handler[c]) /\ handler'[c] = handler[c]
    BY <1>1 DEF ServiceInv, TypeOK
  <2>2. current \in 0..MaxRevision /\ current' \in 0..MaxRevision
    BY <1>1 DEF TypeOK
  <2> DEFINE k == handler[c]
  <2> QED
    BY <2>1, <2>2, ServiceAssumption DEF Sound, ReadsEvidence, Handler, Request
<1> QED
  BY <1>2, <1>3 DEF ServiceInv

LEMMA ShutdownTimesOutPreserves ==
  ASSUME ServiceInv, ShutdownTimesOut
  PROVE  ServiceInv'
<1>1. TypeOK /\ \A c \in Clients : handler[c] \in Handler /\ Sound(handler[c])
  BY DEF ServiceInv, TypeOK
<1>2. \A c \in Clients : /\ handler'[c] \in Handler
                         /\ handler'[c].phase = handler[c].phase
                         /\ Sound(handler[c])'
  <2> SUFFICES ASSUME NEW c \in Clients
               PROVE  /\ handler'[c] \in Handler
                      /\ handler'[c].phase = handler[c].phase
                      /\ Sound(handler[c])'
    OBVIOUS
  <2>1. handler'[c] = handler[c] \/ handler'[c] = [handler[c] EXCEPT !.gone = TRUE]
    BY DEF ShutdownTimesOut
  <2>2. current' = current /\ canceled' = canceled
    BY DEF ShutdownTimesOut
  <2>3. CASE handler'[c] = handler[c]
    BY <1>1, <2>2, <2>3 DEF Sound
  <2>4. CASE handler'[c] = [handler[c] EXCEPT !.gone = TRUE]
    BY <1>1, <2>2, <2>4 DEF Sound, Handler
  <2> QED
    BY <2>1, <2>3, <2>4
<1>3. handler' \in [Clients -> Handler]
  BY <1>2 DEF ShutdownTimesOut
<1>4. TypeOK'
  BY <1>1, <1>3 DEF TypeOK, ShutdownTimesOut
<1>5. Holders' = Holders
  BY <1>2 DEF Holders
<1>6. process = "ended" => \A c \in Clients : handler'[c] = Quiet(0)
  <2> SUFFICES ASSUME process = "ended" PROVE \A c \in Clients : handler[c].phase = "idle"
    BY DEF ShutdownTimesOut
  <2>1. \A c \in Clients : handler[c] = Quiet(0)
    BY DEF ServiceInv
  <2> QED
    BY <2>1, QuietType, ServiceAssumption
<1>7. server' = "closed" /\ slots' = slots /\ process' = process
  BY DEF ShutdownTimesOut
<1> QED
  BY <1>2, <1>4, <1>5, <1>6, <1>7 DEF ServiceInv

(* After a kill, at the end, and until the next start nobody is served. *)
LEMMA VanishPreserves ==
  ASSUME ServiceInv, EndProcess \/ Kill
  PROVE  ServiceInv'
<1>1. TypeOK
  BY DEF ServiceInv
<1>2. handler' = [c \in Clients |-> Quiet(0)] /\ slots' = 0 /\ process' = "ended"
  BY DEF EndProcess, Kill, Vanish
<1>3. Quiet(0) \in Handler /\ Quiet(0).phase = "idle" /\ Quiet(0).newest = 0
  BY QuietType, ServiceAssumption
<1>4. current' = current /\ canceled' = canceled /\ server' = "closed" /\ path' \in Path
      /\ worker' = "stopped"
  BY <1>1 DEF EndProcess, Kill, TypeOK, Path
<1>5. TypeOK'
  BY <1>1, <1>2, <1>3, <1>4, ServiceAssumption DEF TypeOK
<1>6. Holders' = {}
  BY <1>2, <1>3 DEF Holders, HoldingPhase
<1>7. \A c \in Clients : Sound(handler[c])'
  BY <1>1, <1>2, <1>3, <1>4, ServiceAssumption DEF Sound, HoldingPhase, TypeOK
<1> QED
  BY <1>2, <1>4, <1>5, <1>6, <1>7, FS_EmptySet DEF ServiceInv

LEMMA RestartPreserves ==
  ASSUME ServiceInv, Restart
  PROVE  ServiceInv'
<1>1. TypeOK /\ \A c \in Clients : handler[c] = Quiet(0)
  BY DEF ServiceInv, Restart
<1>2. Quiet(0).phase = "idle" /\ Quiet(0).newest = 0
  BY QuietType, ServiceAssumption
<1>3. TypeOK'
  <2>1. /\ current' = 0 /\ handler' = handler /\ slots' = slots /\ path' = path
        /\ server' = "starting" /\ worker' = "running" /\ process' = "running" /\ canceled' = FALSE
    BY DEF Restart
  <2>2. 0 \in 0..MaxRevision
    BY ServiceAssumption
  <2> QED
    BY <1>1, <2>1, <2>2 DEF TypeOK
<1>4. Holders' = Holders
  BY DEF Holders, Restart
<1>5. \A c \in Clients : Sound(handler[c])'
  BY <1>1, <1>2 DEF Sound, HoldingPhase, Restart
<1> QED
  BY <1>3, <1>4, <1>5 DEF ServiceInv, Restart

-----------------------------------------------------------------------------
(* ServiceInv is an invariant of the server. *)

LEMMA InitInv == Init => ServiceInv
<1> SUFFICES ASSUME Init PROVE ServiceInv
  OBVIOUS
<1>1. /\ Quiet(0) \in Handler /\ Quiet(0).phase = "idle" /\ Quiet(0).newest = 0
      /\ \A c \in Clients : handler[c] = Quiet(0)
  BY QuietType, ServiceAssumption DEF Init
<1>2. TypeOK
  <2>1. 0 \in 0..MaxRevision /\ 0 \in 0..MaxConcurrent /\ handler \in [Clients -> Handler]
    BY <1>1, ServiceAssumption DEF Init
  <2> QED
    BY <2>1 DEF Init, TypeOK, Path
<1>3. Holders = {}
  BY <1>1 DEF Holders, HoldingPhase
<1>4. \A c \in Clients : Sound(handler[c])
  BY <1>1 DEF Sound, HoldingPhase, Init
<1> QED
  BY <1>1, <1>2, <1>3, <1>4, FS_EmptySet DEF ServiceInv, Init

LEMMA ClientPreserves ==
  ASSUME ServiceInv, NEW c \in Clients,
         Arrive(c) \/ HandlerStep(c) \/ TimeOut(c) \/ HangUp(c)
  PROVE  ServiceInv'
<1>1. CASE Arrive(c)
  BY <1>1, ArrivePreserves
<1>2. CASE RefuseUnauthenticated(c)
  BY <1>2, RefusePreserves DEF RefuseUnauthenticated, Refusal
<1>3. CASE RefuseBusy(c)
  BY <1>3, RefusePreserves DEF RefuseBusy, Refusal
<1>4. CASE Return(c) \/ Leave(c)
  BY <1>4, EndPreserves
<1>5. CASE Admit(c)
  BY <1>5, AdmitPreserves
<1>6. CASE Check(c)
  BY <1>6, CheckPreserves
<1>7. CASE WriteRefusal(c)
  BY <1>7, WriteRefusalPreserves
<1>8. CASE Dispatch(c)
  BY <1>8, DispatchPreserves
<1>9. CASE Write(c)
  BY <1>9, WritePreserves
<1>10. CASE TimeOut(c)
  BY <1>10, TimeOutPreserves
<1>11. CASE HangUp(c)
  BY <1>11, HangUpPreserves
<1> QED
  BY <1>1, <1>2, <1>3, <1>4, <1>5, <1>6, <1>7, <1>8, <1>9, <1>10, <1>11 DEF HandlerStep

LEMMA NextPreserves ==
  ASSUME ServiceInv, [Next]_vars
  PROVE  ServiceInv'
<1>1. TypeOK /\ (server \in {"bound", "serving"} => path = "live")
  BY DEF ServiceInv
<1>2. ASSUME NEW c \in Clients, Arrive(c) \/ HandlerStep(c) \/ TimeOut(c) \/ HangUp(c)
      PROVE  ServiceInv'
  BY <1>2, ClientPreserves
<1>3. CASE Publish
  <2>1. /\ UNCHANGED <<handler, slots, path, server, worker, process, canceled>>
        /\ current' \in 0..MaxRevision /\ current <= current'
    BY <1>1, <1>3, ServiceAssumption DEF Publish, TypeOK
  <2> QED
    BY <1>1, <2>1, RuntimePreserves DEF TypeOK
<1>4. CASE Cancel \/ StopWorker
  <2>1. /\ UNCHANGED <<current, handler, slots, path, server, process>>
        /\ canceled' \in BOOLEAN /\ (canceled => canceled') /\ worker' \in {"running", "stopped"}
    BY <1>1, <1>4 DEF Cancel, StopWorker, TypeOK
  <2> QED
    BY <1>1, <2>1, RuntimePreserves, ServiceAssumption DEF TypeOK
<1>5. CASE ListenStep \/ SocketUnfit \/ BeginShutdown \/ ShutdownDone \/ ServeFails
  <2>1. /\ UNCHANGED <<current, handler, slots, worker, process>>
        /\ canceled' \in BOOLEAN /\ (canceled => canceled') /\ path' \in Path
        /\ server' \in {"starting", "bound", "serving", "shutting-down", "closed"}
        /\ server' \in {"bound", "serving"} => path' = "live"
    BY <1>1, <1>5 DEF ListenStep, RemoveStale, RefuseListen, Bind, StartServing, SocketUnfit,
                      BeginShutdown, ShutdownDone, ServeFails, TypeOK, Path
  <2> QED
    BY <1>1, <2>1, RuntimePreserves, ServiceAssumption DEF TypeOK
<1>6. CASE ShutdownTimesOut
  BY <1>6, ShutdownTimesOutPreserves
<1>7. CASE EndProcess \/ Kill
  BY <1>7, VanishPreserves
<1>8. CASE Restart
  BY <1>8, RestartPreserves
<1>9. CASE UNCHANGED vars
  <2>1. UNCHANGED <<current, handler, slots, path, server, worker, process, canceled>>
    BY <1>9 DEF vars
  <2> QED
    BY <1>1, <2>1, RuntimePreserves, ServiceAssumption DEF TypeOK
<1> QED
  BY <1>2, <1>3, <1>4, <1>5, <1>6, <1>7, <1>8, <1>9 DEF Next, RuntimeStep

(* For every number of clients, slots and revisions: the slots taken are   *)
(* the requests that are between Admit and Return (the sends to and the    *)
(* deferred receives from the channel "concurrency"), never more than      *)
(* MaxConcurrent; what each handler has read is between what was current   *)
(* when its request came and what is current now; and a bound or serving   *)
(* process has its own socket at the path.                                 *)
THEOREM ServiceIsConsistent == Spec => []ServiceInv
<1>1. Init => ServiceInv
  BY InitInv
<1>2. ServiceInv /\ [Next]_vars => ServiceInv'
  BY NextPreserves
<1> QED
  BY <1>1, <1>2, PTL DEF Spec

-----------------------------------------------------------------------------
(* Who tells a client what *)

LEMMA AnsweredFields ==
  ASSUME NEW h \in Handler, NEW answer \in Answer
  PROVE  /\ Answered(h, answer).answer = IF h.gone THEN "none" ELSE answer
         /\ Answered(h, answer).newest = IF ~h.gone /\ answer = "ok" /\ h.request.route = "snapshot"
                                          THEN h.revision ELSE h.newest
<1> DEFINE n == IF ~h.gone /\ answer = "ok" /\ h.request.route = "snapshot"
                  THEN h.revision ELSE h.newest
           a == IF h.gone THEN "none" ELSE answer
<1>1. Answered(h, answer) = [Quiet(n) EXCEPT !.phase = "answered", !.answer = a]
      /\ n \in 0..MaxRevision /\ a \in Answer \cup {"none"}
  BY AnsweredFacts
<1>2. Quiet(n) \in Handler /\ Quiet(n).newest = n
  BY <1>1, QuietType
<1> HIDE DEF n, a
<1>3. Answered(h, answer).answer = a /\ Answered(h, answer).newest = n
  BY <1>1, <1>2 DEF Handler
<1> QED
  BY <1>3 DEF n, a

LEMMA OthersAreLeftAlone ==
  ASSUME handler \in [Clients -> Handler], NEW c \in Clients, NEW d \in Clients \ {c},
         Arrive(d) \/ HandlerStep(d) \/ TimeOut(d) \/ HangUp(d)
  PROVE  handler'[c] = handler[c]
<1>1. \E h : Become(d, h)
  BY Zenon DEF Arrive, HandlerStep, RefuseUnauthenticated, RefuseBusy, Refuse, Leave, Admit, Check,
               WriteRefusal, Dispatch, Write, Return, TimeOut, HangUp
<1> QED
  BY <1>1 DEF Become

LEMMA WhoTells ==
  ASSUME ServiceInv, [Next]_vars, NEW c \in Clients, NEW a \in Answer, Told(c, a)
  PROVE  \/ RefuseUnauthenticated(c) /\ a = "unauthenticated"
         \/ RefuseBusy(c) /\ a = "busy"
         \/ WriteRefusal(c) /\ a = handler[c].decision
         \/ /\ Write(c)
            /\ ~handler[c].gone
            /\ a = IF ContextErr(handler[c]) = "canceled" THEN "empty" ELSE handler[c].decision
            /\ handler'[c] = Answered(handler[c], a)
<1> DEFINE old == handler[c]
           Goal == \/ RefuseUnauthenticated(c) /\ a = "unauthenticated"
                   \/ RefuseBusy(c) /\ a = "busy"
                   \/ WriteRefusal(c) /\ a = handler[c].decision
                   \/ /\ Write(c)
                      /\ ~handler[c].gone
                      /\ a = IF ContextErr(handler[c]) = "canceled" THEN "empty" ELSE handler[c].decision
                      /\ handler'[c] = Answered(handler[c], a)
<1> SUFFICES Goal
  OBVIOUS
<1>1. /\ handler \in [Clients -> Handler] /\ old \in Handler
      /\ old.newest \in 0..MaxRevision /\ 0 \in 0..MaxRevision
      /\ a # "none" /\ old.answer = "none" /\ handler'[c].answer = a
  BY ServiceAssumption DEF ServiceInv, TypeOK, Answer, Refusal, Handler, Told
<1>2. handler'[c] # old
  BY <1>1
<1>3. /\ Quiet(0).answer = "none" /\ Quiet(old.newest).answer = "none"
      /\ Quiet(old.newest) \in Handler
  BY <1>1, QuietType
<1>4. \A h : Become(c, h) => handler'[c] = h
  BY <1>1 DEF Become
<1>5. CASE Arrive(c)
  <2>1. PICK r \in Requests(old), n \in {0, current} :
          Become(c, [Quiet(old.newest) EXCEPT !.phase = "arrived", !.request = r, !.oldest = n])
    BY <1>5, Zenon DEF Arrive
  <2>2. handler'[c].answer = "none"
    BY <1>3, <1>4, <2>1 DEF Handler
  <2> QED
    BY <1>1, <2>2
<1>6. CASE RefuseUnauthenticated(c) \/ RefuseBusy(c)
  BY <1>1, <1>3, <1>4, <1>6 DEF RefuseUnauthenticated, RefuseBusy, Refuse, Handler
<1>7. CASE Leave(c) \/ Return(c)
  BY <1>1, <1>3, <1>4, <1>7 DEF Leave, Return
<1>8. CASE Admit(c) \/ TimeOut(c) \/ HangUp(c)
  BY <1>1, <1>4, <1>8 DEF Admit, TimeOut, HangUp, Handler
<1>9. CASE Check(c)
  BY <1>1, <1>3, <1>4, <1>9 DEF Check, Handler
<1>10. CASE Dispatch(c)
  <2>1. PICK decision, n :
          Become(c, [old EXCEPT !.phase = "decided", !.decision = decision, !.revision = n])
    BY <1>10, Zenon DEF Dispatch
  <2> QED
    BY <1>1, <1>4, <2>1 DEF Handler
<1>11. CASE WriteRefusal(c)
  <2>1. old.decision \in Answer /\ handler'[c] = Answered(old, old.decision)
    BY <1>4, <1>11 DEF ServiceInv, WriteRefusal, Handles, Sound, Answer
  <2>2. handler'[c].answer \in {"none", old.decision}
    BY <1>1, <2>1, AnsweredFields
  <2> QED
    BY <1>1, <1>11, <2>2
<1>12. CASE Write(c)
  <2> DEFINE answer == IF ContextErr(handler[c]) = "canceled" THEN "empty" ELSE handler[c].decision
  <2>1. answer \in Answer /\ handler'[c] = Answered(old, answer)
    BY <1>1, <1>4, <1>12
    DEF ServiceInv, Write, Handles, Sound, Answer, Handler
  <2>2. handler'[c].answer = IF old.gone THEN "none" ELSE answer
    BY <1>1, <2>1, AnsweredFields
  <2> QED
    BY <1>1, <1>12, <2>1, <2>2
<1>13. ASSUME NEW d \in Clients, Arrive(d) \/ HandlerStep(d) \/ TimeOut(d) \/ HangUp(d)
       PROVE  Goal
  <2>1. d = c
    BY <1>1, <1>2, <1>13, OthersAreLeftAlone
  <2> HIDE DEF Goal
  <2> QED
    BY <1>5, <1>6, <1>7, <1>8, <1>9, <1>10, <1>11, <1>12, <1>13, <2>1 DEF HandlerStep
<1>14. CASE \/ Publish \/ Cancel \/ ListenStep \/ BeginShutdown \/ ShutdownDone
            \/ SocketUnfit \/ ServeFails \/ StopWorker \/ Restart \/ UNCHANGED vars
  BY <1>2, <1>14 DEF Publish, Cancel, ListenStep, RemoveStale, RefuseListen, Bind, StartServing,
       BeginShutdown, ShutdownDone, SocketUnfit, ServeFails, StopWorker, Restart, vars
<1>15. CASE ShutdownTimesOut
  <2>1. handler'[c] = old \/ handler'[c] = [old EXCEPT !.gone = TRUE]
    BY <1>15 DEF ShutdownTimesOut
  <2> QED
    BY <1>1, <2>1 DEF Handler
<1>16. CASE EndProcess \/ Kill
  BY <1>1, <1>3, <1>16 DEF EndProcess, Kill, Vanish
<1> HIDE DEF Goal
<1> QED
  BY <1>13, <1>14, <1>15, <1>16 DEF Next, RuntimeStep

(* A client is turned away as busy only while MaxConcurrent others are     *)
(* being served: the count of the channel never drifts from the requests   *)
(* in progress, however each of them ended before.                         *)
THEOREM BusyIsFull == Spec => BusyMeansFull
<1>1. ASSUME ServiceInv, [Next]_vars, NEW c \in Clients, Told(c, "busy")
      PROVE  Cardinality({d \in Clients \ {c} : InProgress(d)}) = MaxConcurrent
  <2>1. \A d \in Clients : handler[d] \in Handler /\ Sound(handler[d])
    BY <1>1 DEF ServiceInv, TypeOK
  <2>2. RefuseBusy(c)
    <3>1. "busy" \in Answer
      BY DEF Answer, Refusal
    <3>2. \/ RefuseBusy(c)
          \/ WriteRefusal(c) /\ "busy" = handler[c].decision
          \/ Write(c) /\ "busy" = handler[c].decision
      BY <1>1, <3>1, WhoTells
    <3> QED
      BY <2>1, <3>2 DEF WriteRefusal, Write, Handles, Sound
  <2>3. handler[c].phase = "arrived" /\ slots = MaxConcurrent
    BY <2>2 DEF RefuseBusy, Handles
  <2>4. {d \in Clients \ {c} : InProgress(d)} = Holders
    BY <2>1, <2>3 DEF Holders, HoldingPhase, InProgress, Sound, Handler
  <2> QED
    BY <1>1, <2>3, <2>4 DEF ServiceInv
<1>2. ServiceInv /\ [Next]_vars =>
        [\A c \in Clients :
           Told(c, "busy") =>
             Cardinality({d \in Clients \ {c} : InProgress(d)}) = MaxConcurrent]_vars
  BY <1>1
<1> QED
  BY <1>2, ServiceIsConsistent, PTL DEF Spec, BusyMeansFull

(* What a client is shown was current while its request was being served,  *)
(* and nobody is told of a change that did not happen, with any number of  *)
(* publications between the steps of the handler.                          *)
THEOREM AnswersCurrent == Spec => AnswersAreCurrent
<1>1. ASSUME ServiceInv, [Next]_vars, NEW c \in Clients,
             Told(c, "ok"), handler[c].request.route = "snapshot"
      PROVE  /\ handler[c].revision \in handler[c].oldest .. current
             /\ handler'[c].newest = handler[c].revision
             /\ handler'[c].newest >= handler[c].newest
  <2>1. handler[c] \in Handler /\ Sound(handler[c]) /\ current \in 0..MaxRevision
    BY <1>1 DEF ServiceInv, TypeOK
  <2>2. "ok" \in Answer /\ "ok" \notin Refusal
    BY DEF Answer, Refusal
  <2>3. /\ handler[c].phase = "decided" /\ ~handler[c].gone
        /\ handler'[c] = Answered(handler[c], "ok")
    BY <1>1, <2>1, <2>2, WhoTells DEF WriteRefusal, Write, Handles, Sound
  <2>4. handler'[c].newest = handler[c].revision
    BY <1>1, <2>1, <2>2, <2>3, AnsweredFields
  <2>5. /\ handler[c].oldest <= handler[c].revision /\ handler[c].revision <= current
        /\ handler[c].newest <= handler[c].oldest
    BY <1>1, <2>1, <2>3 DEF Sound, ReadsEvidence
  <2>6. /\ handler[c].oldest \in Int /\ handler[c].revision \in Int /\ handler[c].newest \in Int
        /\ current \in Int
    BY <2>1 DEF Handler
  <2> QED
    BY <2>4, <2>5, <2>6
<1>2. ASSUME ServiceInv, [Next]_vars, NEW c \in Clients, Told(c, "publication-changed")
      PROVE  handler[c].request.revision < current
  <2>1. handler[c] \in Handler /\ Sound(handler[c])
    BY <1>2 DEF ServiceInv, TypeOK
  <2>2. "publication-changed" \in Answer /\ "publication-changed" \notin Refusal
    BY DEF Answer, Refusal
  <2>3. handler[c].phase = "decided" /\ handler[c].decision = "publication-changed"
    BY <1>2, <2>1, <2>2, WhoTells DEF WriteRefusal, Write, Handles, Sound
  <2> QED
    BY <2>1, <2>3 DEF Sound
<1>3. ServiceInv /\ [Next]_vars =>
        [\A c \in Clients :
           /\ Told(c, "ok") /\ handler[c].request.route = "snapshot" =>
                /\ handler[c].revision \in handler[c].oldest .. current
                /\ handler'[c].newest = handler[c].revision
                /\ handler'[c].newest >= handler[c].newest
           /\ Told(c, "publication-changed") => handler[c].request.revision < current]_vars
  BY <1>1, <1>2
<1> QED
  BY <1>3, ServiceIsConsistent, PTL DEF Spec, AnswersAreCurrent

(* A client that waits is told of an invalid publication only when its     *)
(* time was up, and gets an empty answer only from a process told to stop. *)
THEOREM FailuresExplained == Spec => FailuresAreExplained
<1>1. ASSUME ServiceInv, [Next]_vars, NEW c \in Clients, Told(c, "invalid-publication")
      PROVE  handler[c].deadline
  <2>1. handler[c] \in Handler /\ Sound(handler[c]) /\ handler[c].gone \in BOOLEAN
    BY <1>1 DEF ServiceInv, TypeOK, Handler
  <2>2. "invalid-publication" \in Answer /\ "invalid-publication" \notin Refusal
    BY DEF Answer, Refusal
  <2>3. /\ handler[c].phase = "decided" /\ handler[c].decision = "invalid-publication"
        /\ ContextErr(handler[c]) # "canceled" /\ ~handler[c].gone
    BY <1>1, <2>1, <2>2, WhoTells DEF WriteRefusal, Write, Handles, Sound
  <2> QED
    BY <2>1, <2>3 DEF Sound, ContextErr
<1>2. ASSUME ServiceInv, [Next]_vars, NEW c \in Clients, Told(c, "empty")
      PROVE  canceled
  <2>1. handler[c] \in Handler /\ Sound(handler[c])
    BY <1>2 DEF ServiceInv, TypeOK
  <2>2. "empty" \in Answer /\ "empty" \notin Refusal
    BY DEF Answer, Refusal
  <2>3. ContextErr(handler[c]) = "canceled" /\ ~handler[c].gone
    BY <1>2, <2>1, <2>2, WhoTells DEF WriteRefusal, Write, Handles, Sound
  <2> QED
    BY <2>3 DEF ContextErr
<1>3. ServiceInv /\ [Next]_vars =>
        [\A c \in Clients :
           /\ Told(c, "invalid-publication") => handler[c].deadline
           /\ Told(c, "empty") => canceled]_vars
  BY <1>1, <1>2
<1> QED
  BY <1>3, ServiceIsConsistent, PTL DEF Spec, FailuresAreExplained

(* A killed process is always replaced by one that serves, what is not a   *)
(* socket of its own is never touched, and what is served on is there.     *)
THEOREM SocketTakenOver == Spec => SocketIsTakenOver
<1>1. ServiceInv /\ [Next]_vars =>
        [/\ server = "starting" /\ server' = "closed" /\ process' = "running" =>
              path \in {"foreign", "unusable"}
         /\ path \in {"foreign", "unusable"} => path' = path
         /\ server' = "serving" => path' = "live"]_vars
  <2> SUFFICES ASSUME ServiceInv, Next
               PROVE  /\ server = "starting" /\ server' = "closed" /\ process' = "running" =>
                           path \in {"foreign", "unusable"}
                      /\ path \in {"foreign", "unusable"} => path' = path
                      /\ server' = "serving" => path' = "live"
    OBVIOUS
  <2>1. server' = "serving" => path' = "live"
    BY NextPreserves DEF ServiceInv
  <2>2. ASSUME NEW c \in Clients, Arrive(c) \/ HandlerStep(c) \/ TimeOut(c) \/ HangUp(c)
        PROVE  server' = server /\ path' = path
    BY <2>2 DEF Arrive, HandlerStep, RefuseUnauthenticated, RefuseBusy, Refuse, Leave, Admit, Check,
                WriteRefusal, Dispatch, Write, Return, TimeOut, HangUp, RuntimeUnchanged
  <2>3. server \in {"bound", "serving"} => path = "live"
    BY DEF ServiceInv
  <2>4. CASE \/ Publish \/ Cancel \/ ListenStep \/ BeginShutdown \/ ShutdownDone \/ EndProcess
             \/ SocketUnfit \/ ShutdownTimesOut \/ ServeFails \/ StopWorker \/ Kill \/ Restart
    BY <2>1, <2>3, <2>4
    DEF Publish, Cancel, ListenStep, RemoveStale, RefuseListen, Bind, StartServing, BeginShutdown,
        ShutdownDone, EndProcess, SocketUnfit, ShutdownTimesOut, ServeFails, StopWorker, Kill,
        Vanish, Restart
  <2> QED
    BY <2>1, <2>2, <2>4 DEF Next, RuntimeStep
<1> QED
  BY <1>1, ServiceIsConsistent, PTL DEF Spec, SocketIsTakenOver

=============================================================================
