-------------------------- MODULE EvidenceService --------------------------
(***************************************************************************)
(* The sidecar's evidence server: the handler of each request              *)
(* (internal/evidenceapi/handler.go), the private socket and the server on *)
(* it (unix.go), and the runtime that runs it beside the scanner           *)
(* (application.go, serveRuntime).  The process may be killed at any       *)
(* moment and, like a container, is started again whenever it ended.       *)
(*                                                                         *)
(* Every request runs in a goroutine of its own, takes a slot for as long  *)
(* as it runs or is refused, and reads the engine's current publication at *)
(* one moment.  Its context is canceled when the client hangs up or the    *)
(* process is told to stop, and ends after RequestTimeout.  The scanner    *)
(* publishes meanwhile; a publication is its revision here.                *)
(*                                                                         *)
(* A client sends one request at a time.  What a page holds and which      *)
(* cursors are good is the subject of EvidenceEngine: here a collection is *)
(* either of the revision asked for or not.  The response size and the     *)
(* answer of /readyz depend on what is not modelled here, and may be       *)
(* either.                                                                 *)
(***************************************************************************)
EXTENDS Integers, FiniteSets

CONSTANTS
  Clients,
  MaxConcurrent,  \* MaximumConcurrentRequests
  Forms,          \* the requests a client may send, a page being of some revision
  MaxRevision     \* bound on the revisions the scanner publishes

Route == {"healthz", "readyz", "snapshot", "collection", "not-found"}

(* What the handler looks at.  The query is absent, asks for a page of a   *)
(* revision, or is anything else.                                          *)
Request ==
  [authenticated : BOOLEAN,
   get           : BOOLEAN,
   route         : Route,
   bounded       : BOOLEAN,
   query         : {"none", "page", "other"},
   revision      : 0..MaxRevision]

ASSUME ServiceAssumption ==
  /\ IsFiniteSet(Clients)
  /\ MaxConcurrent \in Nat \ {0}
  /\ MaxRevision \in Nat
  /\ Forms \subseteq {r \in Request : r.revision = 0}

Refusal == {"unauthenticated", "busy", "method-not-allowed", "not-found", "invalid-request"}

(* A status 200, an ErrorCode, or the empty 200 that net/http sends when a *)
(* handler returns without having written.                                 *)
Answer == Refusal \cup {"ok", "not-ready", "publication-changed", "response-limit",
                        "invalid-publication", "empty"}

VARIABLES
  current,   \* the revision of the engine's current publication
  handler,   \* the request of each client
  slots,     \* how many are taken of the channel "concurrency"
  path,      \* what is at the socket's path
  server,    \* "starting", "bound", "serving", "shutting-down", "closed"
  worker,    \* "running" or "stopped": the scanner's goroutine
  process,   \* "running" or "ended"
  canceled   \* whether the runtime's context is canceled

vars == <<current, handler, slots, path, server, worker, process, canceled>>

(* What is at the path of the socket: nothing, the socket of this process, *)
(* one that nobody listens on any more, or something that is not a socket; *)
(* or the directory is not one that validateSocketDirectory accepts.       *)
Path == {"absent", "live", "stale", "foreign", "unusable"}

(* newest is the greatest revision the client has been told of, and oldest *)
(* the revision that was current when its request arrived.                 *)
Handler ==
  [phase    : {"idle", "arrived", "turned-away",
               "admitted", "refused", "dispatching", "decided", "answered"},
   request  : Request,
   decision : Answer \cup {"none"},
   revision : 0..MaxRevision,
   answer   : Answer \cup {"none"},
   deadline : BOOLEAN,
   gone     : BOOLEAN,
   oldest   : 0..MaxRevision,
   newest   : 0..MaxRevision]

AnyRequest ==
  [authenticated |-> TRUE, get |-> TRUE, route |-> "not-found", bounded |-> TRUE,
   query |-> "none", revision |-> 0]

(* Between two requests.  What a goroutine does not look at any more is    *)
(* forgotten.                                                              *)
Quiet(newest) ==
  [phase |-> "idle", request |-> AnyRequest, decision |-> "none", revision |-> 0,
   answer |-> "none", deadline |-> FALSE, gone |-> FALSE, oldest |-> 0, newest |-> newest]

TypeOK ==
  /\ current \in 0..MaxRevision
  /\ handler \in [Clients -> Handler]
  /\ slots \in 0..MaxConcurrent
  /\ path \in Path
  /\ server \in {"starting", "bound", "serving", "shutting-down", "closed"}
  /\ worker \in {"running", "stopped"}
  /\ process \in {"running", "ended"}
  /\ canceled \in BOOLEAN

Init ==
  /\ current = 0
  /\ handler = [c \in Clients |-> Quiet(0)]
  /\ slots = 0
  /\ path \in {"absent", "foreign", "unusable"}
  /\ server = "starting"
  /\ worker = "running"
  /\ process = "running"
  /\ canceled = FALSE

-----------------------------------------------------------------------------
(* One request: ServeHTTP *)

(* The context of a request is done: why, or "none". *)
ContextErr(h) ==
  CASE h.deadline                          -> "deadline-exceeded"
    [] ~h.deadline /\ (h.gone \/ canceled) -> "canceled"
    [] OTHER                               -> "none"

Handles(c, phase) == process = "running" /\ handler[c].phase = phase

Become(c, h) == handler' = [handler EXCEPT ![c] = h]

RuntimeUnchanged == UNCHANGED <<current, path, server, worker, process, canceled>>

(* The requests of a client; it asks for pages of the revision it knows.   *)
Requests(h) == {[f EXCEPT !.revision = IF f.query = "page" THEN h.newest ELSE 0] : f \in Forms}

ReadsEvidence(r) == r.route \in {"snapshot", "collection"}

Arrive(c) ==
  /\ server = "serving"
  /\ Handles(c, "idle")
  /\ \E r \in Requests(handler[c]) :
       Become(c, [Quiet(handler[c].newest) EXCEPT
                    !.phase = "arrived", !.request = r,
                    !.oldest = IF ReadsEvidence(r) THEN current ELSE 0])
  /\ UNCHANGED slots
  /\ RuntimeUnchanged

(* An answer that is written before the request has a slot. *)
Refuse(c, refusal) ==
  /\ Become(c, [Quiet(handler[c].newest) EXCEPT !.phase = "turned-away", !.answer = refusal])
  /\ UNCHANGED slots
  /\ RuntimeUnchanged

RefuseUnauthenticated(c) ==
  /\ Handles(c, "arrived")
  /\ ~handler[c].request.authenticated
  /\ Refuse(c, "unauthenticated")

(* Mutant: a request waits for a slot. *)
WaitForSlot(c) == FALSE

RefuseBusy(c) ==
  /\ Handles(c, "arrived")
  /\ handler[c].request.authenticated
  /\ slots = MaxConcurrent
  /\ Refuse(c, "busy")

Admit(c) ==
  /\ Handles(c, "arrived")
  /\ handler[c].request.authenticated
  /\ slots < MaxConcurrent
  /\ slots' = slots + 1
  /\ Become(c, [handler[c] EXCEPT !.phase = "admitted"])
  /\ RuntimeUnchanged

(* The method, the route and the bounds are looked at in this order, and   *)
(* what passes gets a context with a deadline.                             *)
Check(c) ==
  /\ Handles(c, "admitted")
  /\ LET r == handler[c].request
         Decide(refusal) ==
           [Quiet(handler[c].newest) EXCEPT !.phase = "refused", !.decision = refusal]
     IN  Become(c, CASE ~r.get                                           -> Decide("method-not-allowed")
                     [] r.get /\ r.route = "not-found"                   -> Decide("not-found")
                     [] r.get /\ r.route # "not-found" /\ ~r.bounded -> Decide("invalid-request")
                     [] OTHER -> [handler[c] EXCEPT !.phase = "dispatching"])
  /\ UNCHANGED slots
  /\ RuntimeUnchanged

(* dispatch, and the engine's source: what is decided at this moment. *)
Decisions(h) ==
  LET r == h.request
      found == IF ContextErr(h) # "none" THEN {"invalid-publication"} ELSE {"ok", "response-limit"}
  IN  CASE r.route # "collection" /\ r.query # "none" -> {"invalid-request"}
        [] r.route = "healthz"  /\ r.query = "none"   -> {"ok"}
        [] r.route = "readyz"   /\ r.query = "none"   -> {"ok", "not-ready"}
        [] r.route = "snapshot" /\ r.query = "none"   -> found
        [] r.route = "collection" ->
             CASE r.query # "page" \/ r.revision = 0 -> {"invalid-request"}
               [] OTHER -> CASE ContextErr(h) # "none"         -> {"invalid-publication"}
                             [] ContextErr(h) = "none" /\ r.revision # current ->
                                  {"publication-changed", "invalid-request"}
                             [] OTHER                          -> found \cup {"invalid-request"}

(* Mutant: the snapshot is the one the client was shown before. *)
RememberedRevision(h) == IF h.newest # 0 THEN h.newest ELSE current

ReadRevision(h) == current

Dispatch(c) ==
  /\ Handles(c, "dispatching")
  /\ \E decision \in Decisions(handler[c]) :
       Become(c, [handler[c] EXCEPT
                    !.phase = "decided",
                    !.decision = decision,
                    !.revision = IF ReadsEvidence(handler[c].request) THEN ReadRevision(handler[c]) ELSE 0])
  /\ UNCHANGED slots
  /\ RuntimeUnchanged

(* What the client is told, unless it is gone. *)
Answered(h, answer) ==
  LET shown == ~h.gone /\ answer = "ok" /\ h.request.route = "snapshot"
  IN  [Quiet(IF shown THEN h.revision ELSE h.newest) EXCEPT
         !.phase  = "answered",
         !.answer = IF h.gone THEN "none" ELSE answer]

WriteRefusal(c) ==
  /\ Handles(c, "refused")
  /\ Become(c, Answered(handler[c], handler[c].decision))
  /\ UNCHANGED slots
  /\ RuntimeUnchanged

(* Mutant: whatever was decided is written. *)
AlwaysWrite(c) ==
  /\ Handles(c, "decided")
  /\ Become(c, Answered(handler[c], handler[c].decision))
  /\ UNCHANGED slots
  /\ RuntimeUnchanged

(* A request whose context was canceled is not answered, whatever was      *)
(* decided; one whose time is up is.                                       *)
Write(c) ==
  /\ Handles(c, "decided")
  /\ Become(c, Answered(handler[c],
                        IF ContextErr(handler[c]) = "canceled" THEN "empty" ELSE handler[c].decision))
  /\ UNCHANGED slots
  /\ RuntimeUnchanged

(* Mutant: the slot is given back only by a request that was answered. *)
ReturnIfAnswered(c) ==
  /\ Handles(c, "answered")
  /\ slots' = IF handler[c].answer \in {"none", "empty"} THEN slots ELSE slots - 1
  /\ Become(c, Quiet(handler[c].newest))
  /\ RuntimeUnchanged

(* The deferred receive from "concurrency". *)
Return(c) ==
  /\ Handles(c, "answered")
  /\ slots' = slots - 1
  /\ Become(c, Quiet(handler[c].newest))
  /\ RuntimeUnchanged

(* The end of a request that had no slot. *)
Leave(c) ==
  /\ Handles(c, "turned-away")
  /\ Become(c, Quiet(handler[c].newest))
  /\ UNCHANGED slots
  /\ RuntimeUnchanged

HandlerStep(c) ==
  \/ RefuseUnauthenticated(c) \/ RefuseBusy(c) \/ Leave(c)
  \/ Admit(c) \/ Check(c) \/ WriteRefusal(c)
  \/ Dispatch(c) \/ Write(c) \/ Return(c)

(* RequestTimeout passes. *)
TimeOut(c) ==
  /\ process = "running"
  /\ handler[c].phase \in {"dispatching", "decided"}
  /\ ContextErr(handler[c]) = "none"
  /\ Become(c, [handler[c] EXCEPT !.deadline = TRUE])
  /\ UNCHANGED slots
  /\ RuntimeUnchanged

(* The client hangs up.  The handler looks at its context only in these    *)
(* phases, so that it does not matter when the client did before.          *)
HangUp(c) ==
  /\ process = "running"
  /\ handler[c].phase \in {"dispatching", "decided"}
  /\ ~handler[c].gone
  /\ Become(c, [handler[c] EXCEPT !.gone = TRUE])
  /\ UNCHANGED slots
  /\ RuntimeUnchanged

-----------------------------------------------------------------------------
(* The scanner, the server and the runtime *)

Publish ==
  /\ process = "running"
  /\ worker = "running"
  /\ current < MaxRevision
  /\ current' = current + 1
  /\ UNCHANGED <<handler, slots, path, server, worker, process, canceled>>

(* The process is told to stop. *)
Cancel ==
  /\ process = "running"
  /\ ~canceled
  /\ canceled' = TRUE
  /\ UNCHANGED <<current, handler, slots, path, server, worker, process>>

(* listenUnixAt.  A socket that refuses a connection has no listener, and  *)
(* was left behind by a process that was killed: it is removed.  Calls on  *)
(* a directory that was accepted succeed, but what is bound may still be   *)
(* found unfit.                                                            *)
RemoveStale ==
  /\ server = "starting"
  /\ path = "stale"
  /\ path' = "absent"
  /\ UNCHANGED <<current, handler, slots, server, worker, process, canceled>>

(* Mutant: whatever is at the path is taken for a socket in use.           *)
RefuseAnySocket ==
  /\ server = "starting"
  /\ path # "absent"
  /\ server' = "closed"
  /\ canceled' = TRUE
  /\ UNCHANGED <<current, handler, slots, path, worker, process>>

(* ServeUnix returns the error, and the runtime cancels what is left. *)
RefuseListen ==
  /\ server = "starting"
  /\ path \in {"foreign", "unusable"}
  /\ server' = "closed"
  /\ canceled' = TRUE
  /\ UNCHANGED <<current, handler, slots, path, worker, process>>

Bind ==
  /\ server = "starting"
  /\ path = "absent"
  /\ path' = "live"
  /\ server' = "bound"
  /\ UNCHANGED <<current, handler, slots, worker, process, canceled>>

StartServing ==
  /\ server = "bound"
  /\ server' = "serving"
  /\ UNCHANGED <<current, handler, slots, path, worker, process, canceled>>

(* The mode or the group of what was bound is wrong: the listener closes,  *)
(* which removes the socket.                                               *)
SocketUnfit ==
  /\ server = "bound"
  /\ path' = "absent"
  /\ server' = "closed"
  /\ canceled' = TRUE
  /\ UNCHANGED <<current, handler, slots, worker, process>>

(* Mutant: the server accepts requests until there are none. *)
DrainThenShutDown ==
  /\ canceled
  /\ server = "serving"
  /\ \A c \in Clients : handler[c].phase = "idle"
  /\ path' = "absent"
  /\ server' = "shutting-down"
  /\ UNCHANGED <<current, handler, slots, worker, process, canceled>>

(* Shutdown closes the listener, which removes the socket, and waits for   *)
(* the requests in progress.                                               *)
BeginShutdown ==
  /\ canceled
  /\ server = "serving"
  /\ path' = "absent"
  /\ server' = "shutting-down"
  /\ UNCHANGED <<current, handler, slots, worker, process, canceled>>

ShutdownDone ==
  /\ server = "shutting-down"
  /\ \A c \in Clients : handler[c].phase = "idle"
  /\ server' = "closed"
  /\ UNCHANGED <<current, handler, slots, path, worker, process, canceled>>

(* serverShutdown passes: the connections are closed, and the requests     *)
(* still in progress are not waited for.                                   *)
ShutdownTimesOut ==
  /\ server = "shutting-down"
  /\ \E c \in Clients : handler[c].phase # "idle"
  /\ server' = "closed"
  /\ handler' = [c \in Clients |->
                   IF handler[c].phase \in {"idle", "turned-away", "answered"}
                   THEN handler[c]
                   ELSE [handler[c] EXCEPT !.gone = TRUE]]
  /\ UNCHANGED <<current, slots, path, worker, process, canceled>>

(* The listener fails and is closed, and the runtime cancels what is left. *)
ServeFails ==
  /\ server = "serving"
  /\ path' = "absent"
  /\ server' = "closed"
  /\ canceled' = TRUE
  /\ UNCHANGED <<current, handler, slots, worker, process>>

(* Scanner!ShutdownEnds: the scanner's goroutine returns. *)
StopWorker ==
  /\ canceled
  /\ worker = "running"
  /\ worker' = "stopped"
  /\ UNCHANGED <<current, handler, slots, path, server, process, canceled>>

(* A process takes with it what is left of its requests; what a client was *)
(* told of is of no use to the next one.                                   *)
Vanish ==
  /\ process = "running"
  /\ process' = "ended"
  /\ handler' = [c \in Clients |-> Quiet(0)]
  /\ slots' = 0

(* The end of serveRuntime. *)
EndProcess ==
  /\ server = "closed"
  /\ worker = "stopped"
  /\ Vanish
  /\ UNCHANGED <<current, path, server, worker, canceled>>

(* The process is killed: nothing is closed. *)
Kill ==
  /\ Vanish
  /\ path' = IF path = "live" THEN "stale" ELSE path
  /\ server' = "closed"
  /\ worker' = "stopped"
  /\ UNCHANGED <<current, canceled>>

(* The container is started again. *)
Restart ==
  /\ process = "ended"
  /\ process' = "running"
  /\ current' = 0
  /\ server' = "starting"
  /\ worker' = "running"
  /\ canceled' = FALSE
  /\ UNCHANGED <<handler, slots, path>>

ListenStep == RemoveStale \/ RefuseListen \/ Bind \/ StartServing

RuntimeStep == ListenStep \/ BeginShutdown \/ ShutdownDone \/ EndProcess

Next ==
  \/ \E c \in Clients : Arrive(c) \/ HandlerStep(c) \/ TimeOut(c) \/ HangUp(c)
  \/ Publish \/ Cancel
  \/ RuntimeStep \/ SocketUnfit \/ ShutdownTimesOut \/ ServeFails \/ StopWorker
  \/ Kill \/ Restart

Spec == Init /\ [][Next]_vars

(* A goroutine that can go on does: the handlers, the one that listens and *)
(* waits for the cancellation, and the scanner's.  Nothing else has to     *)
(* happen.                                                                 *)
FairSpec ==
  /\ Spec
  /\ \A c \in Clients : WF_vars(HandlerStep(c))
  /\ WF_vars(RuntimeStep)
  /\ WF_vars(StopWorker)

-----------------------------------------------------------------------------
(* Properties *)

(* The end of a request: what its client is told. *)
Told(c, answer) ==
  /\ handler[c].answer = "none"
  /\ handler'[c].answer = answer

InProgress(c) ==
  /\ handler[c].phase \notin {"idle", "arrived", "turned-away"}
  /\ handler[c].request.authenticated

(* A client is refused as busy only while MaxConcurrent authenticated      *)
(* requests of others are in progress: each one gives its slot back on     *)
(* every way out, also when it is not answered (the deferred receive in    *)
(* ServeHTTP), and nothing takes one before it is authenticated.           *)
BusyMeansFull ==
  [][\A c \in Clients :
       Told(c, "busy") =>
         Cardinality({d \in Clients \ {c} : InProgress(d)}) = MaxConcurrent]_vars

(* A snapshot was current at some moment while its request was being       *)
(* served, and is not older than one the client has seen; a collection is  *)
(* refused as changed only if the revision asked for was replaced before   *)
(* the answer (Engine.Snapshot and page read one publication, once).       *)
AnswersAreCurrent ==
  [][\A c \in Clients :
       /\ Told(c, "ok") /\ handler[c].request.route = "snapshot" =>
            /\ handler[c].revision \in handler[c].oldest .. current
            /\ handler'[c].newest = handler[c].revision
            /\ handler'[c].newest >= handler[c].newest
       /\ Told(c, "publication-changed") => handler[c].request.revision < current]_vars

(* A client that waits for its answer is told that the publication is      *)
(* invalid only when its time was up, and gets the empty answer only when  *)
(* the process was told to stop (ServeHTTP after dispatch; the engine's    *)
(* source refuses a context that is done).                                 *)
FailuresAreExplained ==
  [][\A c \in Clients :
       /\ Told(c, "invalid-publication") => handler[c].deadline
       /\ Told(c, "empty") => canceled]_vars

(* Whenever a process was killed, the next one serves in its place: it     *)
(* refuses to start only over something that is not a socket, or in a      *)
(* directory it does not accept, and neither is ever touched.  What it     *)
(* serves on is its own socket (listenUnixAt, SetUnlinkOnClose).           *)
SocketIsTakenOver ==
  [][/\ server = "starting" /\ server' = "closed" /\ process' = "running" =>
          path \in {"foreign", "unusable"}
     /\ path \in {"foreign", "unusable"} => path' = path
     /\ server' = "serving" => path' = "live"]_vars

(* Every request ends, answered or not: none waits for another.            *)
RequestsEnd == \A c \in Clients : handler[c].phase = "arrived" ~> handler[c].phase = "idle"

(* A process that is told to stop ends, whatever requests there are. *)
ServiceEnds == canceled ~> process = "ended"
=============================================================================
