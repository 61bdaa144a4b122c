----------------------------- MODULE Readiness -----------------------------
(***************************************************************************)
(* Readiness: the scanner's goroutine probes the store at the start of     *)
(* each cycle and records the outcome with its time; whoever asks is told  *)
(* "ready" while the last outcome was good and is not older than maxAge.   *)
(*                                                                         *)
(* Time passes in Tick, in units small enough that the interval and the    *)
(* request timeout are whole numbers of them.  Nothing holds an absolute   *)
(* time: an event is remembered by its age, capped where it stops to       *)
(* matter, so that behaviours of any length are finite-state.  The clock   *)
(* is steady: a stepped wall clock is not modelled here.                   *)
(***************************************************************************)
EXTENDS Integers

VARIABLES
  interval,   \* CATALOG_REFRESH_INTERVAL
  timeout,    \* STORE_REQUEST_TIMEOUT
  phase,      \* what the scanner's goroutine does
  asked,      \* how long the probe's request has been out
  scanned,    \* how long the scan after the last probe has taken
  ticker,     \* time.Ticker: does it run, when does it fire, its buffered tick
  mark,       \* ProbeState: last outcome, its age, its category
  firstCycle, \* is the last outcome that of the first probe
  store       \* is the store up, since when not, was it up for all of the probe

readyVars == <<interval, timeout, phase, asked, scanned, ticker, mark, firstCycle, store>>

Phase    == {"stopped", "probing", "scanning", "waiting"}
Category == {"unknown", "unavailable", "timeout"}

Capped(n, cap) == IF n < cap THEN n ELSE cap

(* Mutant: the request timeout is forgotten. *)
TwoIntervals == 2 * interval

(* application.New: readiness.New(true, 2*interval + timeout, now). *)
maxAge == 2 * interval + timeout

NoTicker == [running |-> FALSE, due |-> 0, tick |-> FALSE]
NoMark   == [checked |-> FALSE, reachable |-> FALSE, age |-> 0, category |-> "unavailable"]

ReadinessInit ==
  /\ interval = 0 /\ timeout = 0
  /\ phase = "stopped"
  /\ asked = 0 /\ scanned = 0
  /\ ticker = NoTicker
  /\ mark = NoMark
  /\ firstCycle = TRUE
  /\ store = [up |-> TRUE, outage |-> 0, clean |-> TRUE]

ReadinessTypeOK ==
  /\ interval \in Nat /\ timeout \in Nat
  /\ phase \in Phase
  /\ asked \in 0..timeout
  /\ scanned \in 0..(2 * interval + 1)
  /\ ticker \in [running : BOOLEAN, due : 0..interval, tick : BOOLEAN]
  /\ mark \in [checked : BOOLEAN, reachable : BOOLEAN, age : 0..(maxAge + 1),
               category : Category]
  /\ firstCycle \in BOOLEAN
  /\ store \in [up : BOOLEAN, outage : 0..(maxAge + 1), clean : BOOLEAN]

(* Mutant: the age of the outcome is not looked at. *)
ResultOfAnyAge ==
  IF ~mark.checked \/ ~mark.reachable THEN [ready |-> FALSE, category |-> mark.category]
                                      ELSE [ready |-> TRUE, category |-> "unknown"]

(* ProbeState.Result; validConfig is TRUE in the only call of New. *)
Result ==
  IF ~mark.checked \/ ~mark.reachable THEN [ready |-> FALSE, category |-> mark.category]
  ELSE IF maxAge <= 0 \/ mark.age > maxAge THEN [ready |-> FALSE, category |-> "unavailable"]
  ELSE [ready |-> TRUE, category |-> "unknown"]

Ready == Result.ready

-----------------------------------------------------------------------------
StartProbe ==
  /\ phase' = "probing"
  /\ asked' = 0
  /\ store' = [store EXCEPT !.clean = store.up]

(* serveRuntime starts the worker, whose Run begins with a cycle. *)
StartWorker(i, t) ==
  /\ phase = "stopped"
  /\ interval' = i /\ timeout' = t
  /\ StartProbe
  /\ UNCHANGED <<scanned, ticker, mark, firstCycle>>

(* probe: List answered within the request timeout, MarkReachable. *)
ProbeSucceeds ==
  /\ phase = "probing" /\ store.up
  /\ mark' = [checked |-> TRUE, reachable |-> TRUE, age |-> 0, category |-> "unknown"]
  /\ firstCycle' = ~mark.checked
  /\ phase' = "scanning" /\ scanned' = 0
  /\ UNCHANGED <<interval, timeout, asked, ticker, store>>

(* probe: List failed or its deadline passed, MarkFailure.  A store that   *)
(* is up answers in time.                                                  *)
ProbeFails ==
  /\ phase = "probing" /\ ~store.clean
  /\ mark' = [checked |-> TRUE, reachable |-> FALSE, age |-> 0,
              category |-> IF asked = timeout THEN "timeout" ELSE "unavailable"]
  /\ firstCycle' = ~mark.checked
  /\ phase' = "scanning" /\ scanned' = 0
  /\ UNCHANGED <<interval, timeout, asked, ticker, store>>

(* Refresh returns, published or failed.  The ticker is created when the   *)
(* first cycle is over, not when it begins.                                *)
ScanEnds ==
  /\ phase = "scanning"
  /\ phase' = "waiting"
  /\ ticker' = IF ticker.running THEN ticker
               ELSE [running |-> TRUE, due |-> interval, tick |-> FALSE]
  /\ UNCHANGED <<interval, timeout, asked, scanned, mark, firstCycle, store>>

(* Mutant: a goroutine that saw the store fail probes no more. *)
NextCycleAfterSuccess ==
  /\ phase = "waiting" /\ ticker.tick
  /\ mark.reachable
  /\ ticker' = [ticker EXCEPT !.tick = FALSE]
  /\ StartProbe
  /\ UNCHANGED <<interval, timeout, scanned, mark, firstCycle>>

(* Run takes the buffered tick and starts the next cycle with its probe. *)
NextCycle ==
  /\ phase = "waiting" /\ ticker.tick
  /\ ticker' = [ticker EXCEPT !.tick = FALSE]
  /\ StartProbe
  /\ UNCHANGED <<interval, timeout, scanned, mark, firstCycle>>

-----------------------------------------------------------------------------
StoreFails ==
  /\ phase # "stopped" /\ store.up
  /\ store' = [up |-> FALSE, outage |-> 0, clean |-> FALSE]
  /\ UNCHANGED <<interval, timeout, phase, asked, scanned, ticker, mark, firstCycle>>

StoreRecovers ==
  /\ ~store.up
  /\ store' = [store EXCEPT !.up = TRUE, !.outage = 0]
  /\ UNCHANGED <<interval, timeout, phase, asked, scanned, ticker, mark, firstCycle>>

(* The ticker's channel holds one tick: what fires while it is full is     *)
(* dropped.                                                                *)
Advance(t) ==
  CASE ~t.running              -> t
    [] t.running /\ t.due > 1 -> [t EXCEPT !.due = @ - 1]
    [] OTHER                   -> [t EXCEPT !.due = interval, !.tick = TRUE]

(* One unit of time.  A request is answered or cut off by its deadline,    *)
(* and a tick that is waited for is taken, before time goes on.            *)
Tick ==
  /\ phase # "stopped"
  /\ ~(phase = "probing" /\ asked = timeout)
  /\ ~(phase = "waiting" /\ ticker.tick)
  /\ asked' = IF phase = "probing" THEN asked + 1 ELSE asked
  /\ scanned' = IF phase = "scanning" THEN Capped(scanned + 1, 2 * interval + 1) ELSE scanned
  /\ ticker' = Advance(ticker)
  /\ mark' = IF mark.checked THEN [mark EXCEPT !.age = Capped(@ + 1, maxAge + 1)] ELSE mark
  /\ store' = IF store.up THEN store ELSE [store EXCEPT !.outage = Capped(@ + 1, maxAge + 1)]
  /\ UNCHANGED <<interval, timeout, phase, firstCycle>>

ReadinessNext ==
  \/ ProbeSucceeds
  \/ ProbeFails
  \/ ScanEnds
  \/ NextCycle
  \/ StoreFails
  \/ StoreRecovers
  \/ Tick

-----------------------------------------------------------------------------
(* A good outcome does not expire before the next probe had its chance:    *)
(* readiness is lost by age only when a scan overran, the first by more    *)
(* than one interval (its ticker starts late), any other by more than two. *)
(* The timeout may be longer than the interval.  readiness.go:84 against   *)
(* the maxAge chosen in application.go and the ticker of scanner.go.       *)
ReachableStaysReady ==
  /\ mark.checked /\ mark.reachable
  /\ scanned <= IF firstCycle THEN interval ELSE 2 * interval
  => Ready

(* Ready means that the store answered within the last maxAge: an outage   *)
(* that lasts longer is noticed, whatever the scanner is doing, even when  *)
(* it is stuck in a scan and probes no more.                               *)
OutageIsNoticed ==
  ~store.up /\ store.outage > maxAge => ~Ready

(* A store that stays up is reported ready again and again, whatever the   *)
(* outages, failed probes and overrunning scans before.                    *)
ReadinessReturns ==
  <>[](phase # "stopped" /\ store.up) => []<>Ready
=============================================================================
