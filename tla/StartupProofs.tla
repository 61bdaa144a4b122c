--------------------------- MODULE StartupProofs ---------------------------
(***************************************************************************)
(* Proofs about readiness in the running process, for every refresh        *)
(* interval, every request timeout and behaviours of any length; and about *)
(* the configuration, for every environment whatsoever: what Load accepts  *)
(* is what the constructors behind it accept, but for the cases            *)
(* RefusedLate names, and every setting but the idle ones is used.         *)
(***************************************************************************)
EXTENDS Startup, NaturalsInduction, WellFoundedInduction, SequenceTheorems, TLAPS

(* Where main is, and what the goroutine it started was given. *)
StartInv ==
  /\ pc \in {"loading", "building", "listening"} =>
       /\ \A v \in Variable : env[v] \in Values[v] \cup {Absent}
       /\ ReadinessInit
  /\ pc = "listening" => /\ env.CATALOG_REFRESH_INTERVAL \in NumberClass
                         /\ env.STORE_REQUEST_TIMEOUT \in NumberClass
  /\ pc = "exited" => phase = "stopped"
  /\ phase # "stopped" => interval > 0 /\ timeout > 0

(* What the goroutine and its ticker are doing. *)
CycleInv ==
  /\ phase = "stopped" => ~mark.checked
  /\ ~mark.checked => phase \in {"stopped", "probing"} /\ ~ticker.running
  /\ ~ticker.running => firstCycle /\ ~ticker.tick
  /\ ticker.running => ticker.due >= 1
  /\ phase = "scanning" => (firstCycle <=> ~ticker.running)
  /\ phase = "waiting" => ticker.running
  /\ phase = "probing" /\ mark.checked => ticker.running

OnTime == scanned <= IF firstCycle THEN interval ELSE 2 * interval

(* How old the last outcome may be: it ages with the scan, then until the  *)
(* ticker fires, then while the next request is out.                       *)
AgeInv ==
  mark.checked =>
    /\ phase = "scanning" /\ scanned <= 2 * interval => mark.age <= scanned
    /\ phase \in {"scanning", "waiting"} /\ ~firstCycle /\ ~ticker.tick =>
         mark.age + ticker.due <= interval
    /\ phase = "waiting" /\ firstCycle /\ OnTime /\ ~ticker.tick =>
         mark.age + ticker.due <= 2 * interval
    /\ phase = "waiting" /\ OnTime /\ ticker.tick => mark.age <= 2 * interval
    /\ phase = "probing" /\ OnTime => mark.age <= 2 * interval + asked

(* A good outcome is older than the outage that followed it. *)
OutageInv ==
  ~store.up /\ mark.checked /\ mark.reachable => store.outage <= mark.age

ReadyInv == StartInv /\ ReadinessTypeOK /\ CycleInv /\ AgeInv /\ OutageInv

-----------------------------------------------------------------------------
(* The start *)

LEMMA InitReady == Init => ReadyInv
<1> SUFFICES ASSUME Init PROVE ReadyInv
  OBVIOUS
<1> USE DEF Init, ReadinessInit
<1>1. StartInv
  BY StartupConstants DEF StartInv
<1>2. ReadinessTypeOK
  BY DEF ReadinessTypeOK, NoTicker, NoMark, Phase, Category, maxAge
<1>3. CycleInv /\ AgeInv /\ OutageInv
  BY DEF CycleInv, AgeInv, OutageInv, NoTicker, NoMark
<1> QED
  BY <1>1, <1>2, <1>3 DEF ReadyInv

(* The constructors do not build a program with an interval or a timeout   *)
(* outside its bounds, whatever Load let through.                          *)
LEMMA BuiltWithinBounds ==
  ASSUME \A v \in Variable : env[v] \in Values[v] \cup {Absent},
         NEW host \in BOOLEAN, ~NewRefuses(Load(env), env, host)
  PROVE  /\ env.CATALOG_REFRESH_INTERVAL \in NumberClass
         /\ env.STORE_REQUEST_TIMEOUT \in NumberClass
<1> DEFINE cfg == Load(env)
<1>1. /\ env.CATALOG_REFRESH_INTERVAL \in Number \cup {Absent}
      /\ env.STORE_REQUEST_TIMEOUT \in Number \cup {Absent}
  BY DEF Variable, Values
<1>2. /\ cfg.interval = env.CATALOG_REFRESH_INTERVAL
      /\ cfg.timeout = env.STORE_REQUEST_TIMEOUT
  BY DEF Load
<1>3. cfg.interval # "outside"
  BY DEF NewRefuses, NewScannerRefuses
<1>4. ~defaultReaderFactoryRefuses(cfg, env, host)
  BY DEF NewRefuses
<1>5. cfg.timeout # "outside"
  <2> HIDE DEF cfg
  <2> QED
    BY <1>4 DEF defaultReaderFactoryRefuses, s3Refuses, azureRefuses, gcsRefuses
<1> QED
  BY <1>1, <1>2, <1>3, <1>5 DEF Number, NumberClass, Absent

LEMMA StartPreserves ==
  ASSUME ReadyInv, LoadOS \/ New \/ ListenFails
  PROVE  ReadyInv'
<1>1. UNCHANGED <<env, readyVars>>
  BY DEF LoadOS, New, ListenFails
<1>2. UNCHANGED <<interval, timeout, phase, asked, scanned, ticker, mark, firstCycle, store>>
  BY <1>1 DEF readyVars
<1>3. ReadinessTypeOK' /\ CycleInv' /\ AgeInv' /\ OutageInv'
  BY <1>2 DEF ReadyInv, ReadinessTypeOK, CycleInv, AgeInv, OutageInv, OnTime, maxAge
<1>4. /\ pc \in {"loading", "building", "listening"}
      /\ pc' \in {"building", "exited", "listening"}
  BY DEF LoadOS, New, ListenFails, Exit
<1>5. pc' = "listening" => /\ env.CATALOG_REFRESH_INTERVAL \in NumberClass
                           /\ env.STORE_REQUEST_TIMEOUT \in NumberClass
  <2> SUFFICES ASSUME pc' = "listening"
               PROVE  \E host \in BOOLEAN : ~NewRefuses(Load(env), env, host)
    BY <1>4, BuiltWithinBounds DEF ReadyInv, StartInv
  <2>1. New
    BY DEF LoadOS, New, ListenFails, Exit
  <2> QED
    BY <2>1 DEF New, Exit
<1>6. StartInv'
  BY <1>1, <1>2, <1>4, <1>5 DEF ReadyInv, StartInv, ReadinessInit
<1> QED
  BY <1>3, <1>6 DEF ReadyInv

LEMMA ServePreserves ==
  ASSUME ReadyInv, Serve
  PROVE  ReadyInv'
<1> DEFINE i == IntervalTicks[env.CATALOG_REFRESH_INTERVAL]
           t == TimeoutTicks[env.STORE_REQUEST_TIMEOUT]
<1>1. i \in Nat \ {0} /\ t \in Nat \ {0}
  BY StartupConstants DEF ReadyInv, StartInv, Serve
<1>2. ReadinessInit
  BY DEF ReadyInv, StartInv, Serve
<1>3. /\ pc' = "serving" /\ interval' = i /\ timeout' = t /\ phase' = "probing" /\ asked' = 0
      /\ store' = [store EXCEPT !.clean = store.up]
      /\ scanned' = scanned /\ ticker' = ticker /\ mark' = mark /\ firstCycle' = firstCycle
  BY DEF Serve, StartWorker, StartProbe
<1> HIDE DEF i, t
<1> USE DEF ReadinessInit, NoTicker, NoMark
<1>4. StartInv'
  BY <1>1, <1>3 DEF StartInv
<1>5. ReadinessTypeOK'
  <2>1. store' = [up |-> TRUE, outage |-> 0, clean |-> TRUE]
    BY <1>2, <1>3
  <2>2. /\ mark' \in [checked : BOOLEAN, reachable : BOOLEAN, age : {0}, category : Category]
        /\ ticker' \in [running : BOOLEAN, due : {0}, tick : BOOLEAN]
        /\ scanned' = 0 /\ asked' = 0 /\ firstCycle' \in BOOLEAN
    BY <1>2, <1>3 DEF Category
  <2>3. /\ interval' \in Nat /\ timeout' \in Nat /\ maxAge' \in Nat
        /\ 0 \in 0..timeout' /\ 0 \in 0..(2 * interval' + 1) /\ 0 \in 0..interval'
        /\ 0 \in 0..(maxAge' + 1)
    BY <1>1, <1>3 DEF maxAge
  <2>4. store' \in [up : BOOLEAN, outage : 0..(maxAge' + 1), clean : BOOLEAN]
    BY <2>1, <2>3
  <2>5. mark' \in [checked : BOOLEAN, reachable : BOOLEAN, age : 0..(maxAge' + 1),
                   category : Category]
    BY <2>2, <2>3
  <2>6. ticker' \in [running : BOOLEAN, due : 0..interval', tick : BOOLEAN]
    BY <2>2, <2>3
  <2>7. asked' \in 0..timeout' /\ scanned' \in 0..(2 * interval' + 1) /\ phase' \in Phase
    BY <1>3, <2>2, <2>3 DEF Phase
  <2> QED
    BY <2>2, <2>3, <2>4, <2>5, <2>6, <2>7 DEF ReadinessTypeOK
<1>6. CycleInv' /\ AgeInv' /\ OutageInv'
  BY <1>2, <1>3 DEF CycleInv, AgeInv, OutageInv
<1> QED
  BY <1>4, <1>5, <1>6 DEF ReadyInv

-----------------------------------------------------------------------------
(* The running process *)

LEMMA OutcomePreserves ==
  ASSUME ReadyInv, ProbeSucceeds \/ ProbeFails, phase # "stopped"
  PROVE  ReadinessTypeOK' /\ CycleInv' /\ AgeInv' /\ OutageInv'
<1> USE DEF ReadyInv
<1>1. /\ phase = "probing" /\ phase' = "scanning" /\ scanned' = 0
      /\ UNCHANGED <<interval, timeout, asked, ticker, store>>
      /\ firstCycle' = ~mark.checked
  BY DEF ProbeSucceeds, ProbeFails
<1>2. PICK reachable \in BOOLEAN, category \in Category :
        /\ mark' = [checked |-> TRUE, reachable |-> reachable, age |-> 0, category |-> category]
        /\ reachable => store.up
  BY DEF ProbeSucceeds, ProbeFails, Category
<1>3. ReadinessTypeOK'
  BY <1>1, <1>2 DEF ReadinessTypeOK, Phase, maxAge
<1>4. CycleInv'
  BY <1>1, <1>2 DEF CycleInv, ReadinessTypeOK
<1>5. AgeInv'
  BY <1>1, <1>2 DEF AgeInv, CycleInv, ReadinessTypeOK
<1>6. OutageInv'
  BY <1>1, <1>2 DEF OutageInv
<1> QED
  BY <1>3, <1>4, <1>5, <1>6

LEMMA ScanEndsPreserves ==
  ASSUME ReadyInv, ScanEnds, phase # "stopped"
  PROVE  ReadinessTypeOK' /\ CycleInv' /\ AgeInv' /\ OutageInv'
<1> USE DEF ReadyInv
<1>1. /\ phase = "scanning" /\ phase' = "waiting"
      /\ UNCHANGED <<interval, timeout, asked, scanned, mark, firstCycle, store>>
      /\ mark.checked /\ interval > 0
  BY DEF ScanEnds, CycleInv, StartInv
<1>2. CASE ticker.running
  <2>1. ticker' = ticker /\ ~firstCycle
    BY <1>1, <1>2 DEF ScanEnds, CycleInv, ReadinessTypeOK
  <2>2. ReadinessTypeOK' /\ CycleInv' /\ OutageInv'
    BY <1>1, <1>2, <2>1 DEF ReadinessTypeOK, CycleInv, OutageInv, Phase, maxAge
  <2>3. AgeInv'
    BY <1>1, <1>2, <2>1 DEF AgeInv, OnTime, ReadinessTypeOK
  <2> QED
    BY <2>2, <2>3
<1>3. CASE ~ticker.running
  <2>1. ticker' = [running |-> TRUE, due |-> interval, tick |-> FALSE] /\ firstCycle
    BY <1>1, <1>3 DEF ScanEnds, CycleInv
  <2>2. ReadinessTypeOK' /\ CycleInv' /\ OutageInv'
    BY <1>1, <1>3, <2>1 DEF ReadinessTypeOK, CycleInv, OutageInv, Phase, maxAge
  <2>3. AgeInv'
    BY <1>1, <1>3, <2>1 DEF AgeInv, OnTime, ReadinessTypeOK
  <2> QED
    BY <2>2, <2>3
<1> QED
  BY <1>2, <1>3

LEMMA NextCyclePreserves ==
  ASSUME ReadyInv, NextCycle, phase # "stopped"
  PROVE  ReadinessTypeOK' /\ CycleInv' /\ AgeInv' /\ OutageInv'
<1> USE DEF ReadyInv
<1>1. /\ phase = "waiting" /\ phase' = "probing" /\ asked' = 0 /\ ticker.tick
      /\ UNCHANGED <<interval, timeout, scanned, mark, firstCycle>>
      /\ ticker' = [ticker EXCEPT !.tick = FALSE]
      /\ store' = [store EXCEPT !.clean = store.up]
      /\ mark.checked /\ ticker.running
  BY DEF NextCycle, StartProbe, CycleInv
<1>2. /\ ticker'.running /\ ticker'.due = ticker.due /\ ~ticker'.tick
      /\ store'.up = store.up /\ store'.outage = store.outage
  BY <1>1 DEF ReadinessTypeOK
<1>3. ReadinessTypeOK'
  <2>1. /\ store' \in [up : BOOLEAN, outage : 0..(maxAge + 1), clean : BOOLEAN]
        /\ ticker' \in [running : BOOLEAN, due : 0..interval, tick : BOOLEAN]
    BY <1>1 DEF ReadinessTypeOK
  <2>2. maxAge' = maxAge
    BY <1>1 DEF maxAge
  <2> QED
    BY <1>1, <2>1, <2>2 DEF ReadinessTypeOK, Phase
<1>4. CycleInv' /\ OutageInv'
  BY <1>1, <1>2 DEF CycleInv, OutageInv
<1>5. AgeInv'
  BY <1>1, <1>2 DEF AgeInv, OnTime, ReadinessTypeOK
<1> QED
  BY <1>3, <1>4, <1>5

LEMMA StorePreserves ==
  ASSUME ReadyInv, StoreFails \/ StoreRecovers
  PROVE  ReadinessTypeOK' /\ CycleInv' /\ AgeInv' /\ OutageInv'
<1> USE DEF ReadyInv
<1>1. /\ UNCHANGED <<interval, timeout, phase, asked, scanned, ticker, mark, firstCycle>>
      /\ store' \in [up : BOOLEAN, outage : {0}, clean : BOOLEAN]
  <2>1. CASE StoreFails
    BY <2>1 DEF StoreFails
  <2>2. CASE StoreRecovers
    <3>1. store \in [up : BOOLEAN, outage : 0..(maxAge + 1), clean : BOOLEAN]
      BY DEF ReadinessTypeOK
    <3> QED
      BY <2>2, <3>1 DEF StoreRecovers
  <2> QED
    BY <2>1, <2>2
<1>2. ReadinessTypeOK'
  BY <1>1 DEF ReadinessTypeOK, maxAge
<1>3. CycleInv' /\ AgeInv'
  BY <1>1 DEF CycleInv, AgeInv, OnTime
<1>4. OutageInv'
  BY <1>1 DEF OutageInv, ReadinessTypeOK
<1> QED
  BY <1>2, <1>3, <1>4

LEMMA TickPreserves ==
  ASSUME ReadyInv, Tick
  PROVE  ReadinessTypeOK' /\ CycleInv' /\ AgeInv' /\ OutageInv'
<1> USE DEF ReadyInv
<1>1. /\ phase # "stopped" /\ interval > 0 /\ interval \in Nat /\ timeout \in Nat
      /\ maxAge = 2 * interval + timeout /\ maxAge \in Nat
      /\ scanned \in 0..(2 * interval + 1) /\ asked \in 0..timeout
      /\ ~(phase = "probing" /\ asked = timeout)
      /\ ~(phase = "waiting" /\ ticker.tick)
      /\ UNCHANGED <<interval, timeout, phase, firstCycle>> /\ maxAge' = maxAge
  BY DEF Tick, StartInv, ReadinessTypeOK, maxAge
<1>2. asked' = (IF phase = "probing" THEN asked + 1 ELSE asked) /\ asked' \in 0..timeout
  BY <1>1 DEF Tick
<1>3. scanned' = (IF phase = "scanning" /\ scanned < 2 * interval + 1 THEN scanned + 1 ELSE scanned)
      /\ scanned' \in 0..(2 * interval + 1)
  BY <1>1 DEF Tick, Capped
<1>4. /\ ticker' \in [running : BOOLEAN, due : 0..interval, tick : BOOLEAN]
      /\ ticker'.running = ticker.running
      /\ ~ticker.running => ticker' = ticker
      /\ ticker.running => \/ ticker'.due = ticker.due - 1 /\ ticker'.due >= 1
                              /\ ticker'.tick = ticker.tick
                           \/ ticker'.due = interval /\ ticker'.tick /\ ticker.due = 1
  <2>1. /\ ticker \in [running : BOOLEAN, due : 0..interval, tick : BOOLEAN]
        /\ ticker.running => ticker.due >= 1
    BY DEF ReadinessTypeOK, CycleInv
  <2>2. CASE ~ticker.running
    <3>1. ticker' = ticker
      BY <2>2 DEF Tick, Advance
    <3> QED
      BY <2>1, <2>2, <3>1
  <2>3. CASE ticker.running /\ ticker.due > 1
    <3>1. ticker' = [ticker EXCEPT !.due = ticker.due - 1]
      BY <2>3 DEF Tick, Advance
    <3>2. /\ ticker' \in [running : BOOLEAN, due : 0..interval, tick : BOOLEAN]
          /\ ticker'.running /\ ticker'.due = ticker.due - 1 /\ ticker'.due >= 1
      BY <1>1, <2>1, <2>3, <3>1
    <3>3. ticker'.tick = ticker.tick
      BY <2>1, <3>1
    <3> QED
      BY <2>3, <3>2, <3>3
  <2>4. CASE ticker.running /\ ~(ticker.due > 1)
    <3>1. ticker' = [ticker EXCEPT !.due = interval, !.tick = TRUE]
      BY <2>4 DEF Tick, Advance
    <3>2. interval \in 0..interval /\ ticker.due = 1
      BY <1>1, <2>1, <2>4
    <3>3. ticker' \in [running : BOOLEAN, due : 0..interval, tick : BOOLEAN]
      BY <2>1, <3>1, <3>2
    <3>4. ticker'.running = ticker.running /\ ticker'.due = interval /\ ticker'.tick
      BY <2>1, <3>1
    <3> QED
      BY <2>4, <3>2, <3>3, <3>4
  <2> QED
    BY <2>2, <2>3, <2>4
<1>5. /\ mark' \in [checked : BOOLEAN, reachable : BOOLEAN, age : 0..(maxAge + 1),
                    category : Category]
      /\ mark'.checked = mark.checked /\ mark'.reachable = mark.reachable
      /\ mark.checked => mark'.age = IF mark.age < maxAge + 1 THEN mark.age + 1 ELSE mark.age
  <2>1. mark \in [checked : BOOLEAN, reachable : BOOLEAN, age : 0..(maxAge + 1),
                  category : Category]
    BY DEF ReadinessTypeOK
  <2>2. PICK n \in 0..(maxAge + 1) :
          /\ n = Capped(mark.age + 1, maxAge + 1)
          /\ n = IF mark.age < maxAge + 1 THEN mark.age + 1 ELSE mark.age
    BY <1>1, <2>1 DEF Capped
  <2>3. mark' = IF mark.checked THEN [mark EXCEPT !.age = n] ELSE mark
    BY <2>2 DEF Tick
  <2> QED
    BY <2>1, <2>2, <2>3
<1>6. /\ store' \in [up : BOOLEAN, outage : 0..(maxAge + 1), clean : BOOLEAN]
      /\ store'.up = store.up
      /\ ~store.up => store'.outage = IF store.outage < maxAge + 1 THEN store.outage + 1
                                                                   ELSE store.outage
  <2>1. store \in [up : BOOLEAN, outage : 0..(maxAge + 1), clean : BOOLEAN]
    BY DEF ReadinessTypeOK
  <2>2. PICK n \in 0..(maxAge + 1) :
          /\ n = Capped(store.outage + 1, maxAge + 1)
          /\ n = IF store.outage < maxAge + 1 THEN store.outage + 1 ELSE store.outage
    BY <1>1, <2>1 DEF Capped
  <2>3. store' = IF store.up THEN store ELSE [store EXCEPT !.outage = n]
    BY <2>2 DEF Tick
  <2> QED
    BY <2>1, <2>2, <2>3
<1>7. ReadinessTypeOK'
  BY <1>1, <1>2, <1>3, <1>4, <1>5, <1>6 DEF ReadinessTypeOK
<1>8. CycleInv'
  BY <1>1, <1>4, <1>5 DEF CycleInv, ReadinessTypeOK
<1>9. AgeInv'
  <2>1. /\ mark.age \in Nat /\ ticker.due \in Nat /\ mark'.age \in Nat /\ ticker'.due \in Nat
        /\ ticker.running => ticker.due >= 1
    BY <1>1, <1>4, <1>5 DEF ReadinessTypeOK, CycleInv
  <2>2. OnTime' => OnTime
    BY <1>1, <1>3 DEF OnTime
  <2>3. mark.checked => mark'.age <= mark.age + 1
    BY <1>1, <1>5, <2>1
  <2>4. CASE phase = "scanning"
    BY <1>1, <1>3, <1>4, <1>5, <2>1, <2>3, <2>4 DEF AgeInv, CycleInv, ReadinessTypeOK
  <2>5. CASE phase = "waiting"
    BY <1>1, <1>3, <1>4, <1>5, <2>1, <2>2, <2>3, <2>5 DEF AgeInv, CycleInv, ReadinessTypeOK
  <2>6. CASE phase = "probing"
    BY <1>1, <1>2, <1>3, <1>4, <1>5, <2>1, <2>2, <2>3, <2>6 DEF AgeInv
  <2> QED
    BY <1>1, <2>4, <2>5, <2>6 DEF ReadinessTypeOK, Phase
<1>10. OutageInv'
  <2>1. mark.age \in Nat /\ store.outage \in 0..(maxAge + 1)
    BY DEF ReadinessTypeOK
  <2> QED
    BY <1>1, <1>5, <1>6, <2>1 DEF OutageInv
<1> QED
  BY <1>7, <1>8, <1>9, <1>10

LEMMA NextReady ==
  ASSUME ReadyInv, [Next]_vars
  PROVE  ReadyInv'
<1>1. CASE LoadOS \/ New \/ ListenFails
  BY <1>1, StartPreserves
<1>2. CASE Serve
  BY <1>2, ServePreserves
<1>3. CASE Run
  <2>1. pc = "serving" /\ pc' = "serving" /\ ReadinessNext
    BY <1>3 DEF Run, startupVars
  <2>2. /\ interval' = interval /\ timeout' = timeout
        /\ phase' = "stopped" => phase = "stopped"
        /\ phase # "stopped" => phase' # "stopped"
    BY <2>1 DEF ReadinessNext, ProbeSucceeds, ProbeFails, ScanEnds, NextCycle, StartProbe,
                StoreFails, StoreRecovers, Tick
  <2>3. phase # "stopped" \/ StoreRecovers
    BY <2>1 DEF ReadinessNext, ProbeSucceeds, ProbeFails, ScanEnds, NextCycle, StoreFails, Tick
  <2>4. StartInv'
    BY <2>1, <2>2, <2>3 DEF ReadyInv, StartInv, StoreRecovers
  <2>5. ReadinessTypeOK' /\ CycleInv' /\ AgeInv' /\ OutageInv'
    BY <2>1, <2>3, OutcomePreserves, ScanEndsPreserves, NextCyclePreserves, StorePreserves,
       TickPreserves DEF ReadinessNext
  <2> QED
    BY <2>4, <2>5 DEF ReadyInv
<1>4. CASE UNCHANGED vars
  <2>1. UNCHANGED <<pc, env, interval, timeout, phase, asked, scanned, ticker, mark, firstCycle,
                    store>>
    BY <1>4 DEF vars, startupVars, readyVars
  <2>2. StartInv' /\ ReadinessTypeOK'
    BY <2>1 DEF ReadyInv, StartInv, ReadinessInit, ReadinessTypeOK, maxAge
  <2>3. CycleInv' /\ AgeInv' /\ OutageInv'
    BY <2>1 DEF ReadyInv, CycleInv, AgeInv, OutageInv, OnTime
  <2> QED
    BY <2>2, <2>3 DEF ReadyInv
<1> QED
  BY <1>1, <1>2, <1>3, <1>4 DEF Next

(* For every interval and timeout: the ticker, the scan and the request in *)
(* progress bound the age of the last outcome, in every state of the       *)
(* process from its start on.                                              *)
THEOREM ReadinessIsBounded == Spec => []ReadyInv
<1>1. Init => ReadyInv
  BY InitReady
<1>2. ReadyInv /\ [Next]_vars => ReadyInv'
  BY NextReady
<1> QED
  BY <1>1, <1>2, PTL DEF Spec

(* maxAge = 2*interval + timeout is enough for every interval and timeout: *)
(* a good outcome expires only behind a scan that overran.                 *)
THEOREM ReachableStays == Spec => []ReachableStaysReady
<1>1. ReadyInv => ReachableStaysReady
  <2> SUFFICES ASSUME ReadyInv, mark.checked, mark.reachable, OnTime
               PROVE  Ready
    BY DEF ReachableStaysReady, OnTime
  <2>1. /\ interval \in Nat /\ timeout \in Nat /\ asked \in 0..timeout /\ mark.age \in Nat
        /\ scanned \in Nat /\ ticker.due \in Nat /\ ticker.tick \in BOOLEAN
        /\ firstCycle \in BOOLEAN /\ phase \in Phase
    BY DEF ReadyInv, ReadinessTypeOK
  <2>2. phase # "stopped" /\ interval > 0 /\ timeout > 0
    BY DEF ReadyInv, StartInv, CycleInv
  <2>3. scanned <= 2 * interval
    BY <2>1 DEF OnTime
  <2>4. mark.age <= 2 * interval + timeout
    BY <2>1, <2>2, <2>3 DEF ReadyInv, AgeInv, Phase
  <2> QED
    BY <2>1, <2>2, <2>4 DEF Ready, Result, maxAge
<1> QED
  BY <1>1, ReadinessIsBounded, PTL

(* An outage longer than maxAge is noticed, whatever the scanner is at.    *)
THEOREM OutageNoticed == Spec => []OutageIsNoticed
<1>1. ReadyInv => OutageIsNoticed
  <2> SUFFICES ASSUME ReadyInv, ~store.up, store.outage > maxAge, mark.checked, mark.reachable
               PROVE  mark.age > maxAge
    BY DEF OutageIsNoticed, Ready, Result
  <2>1. mark.age \in Nat /\ store.outage \in Nat /\ maxAge \in Nat
    BY DEF ReadyInv, ReadinessTypeOK, maxAge
  <2> QED
    BY <2>1 DEF ReadyInv, OutageInv
<1> QED
  BY <1>1, ReadinessIsBounded, PTL

-----------------------------------------------------------------------------
(* The configuration *)

(* An error of Load names a variable. *)
Outcome == {c \in [named : SUBSET Variable, refused : BOOLEAN] : c.refused => c.named # {}}

Passes(s) == \A i \in DOMAIN s : ~s[i].refused

Valued(e) == \A v \in Variable : e[v] \in Values[v] \cup {Absent}

-----------------------------------------------------------------------------
(* The list of the checks *)

LEMMA LeastNatural ==
  ASSUME NEW S \in SUBSET Nat, S # {}
  PROVE  \E x \in S : \A y \in S : x <= y
<1>1. PICK x \in S : \A y \in S : ~(<<y, x>> \in OpToRel(<, Nat))
  BY NatLessThanWellFounded, WFMin
<1>2. \A y \in S : <<y, x>> \notin OpToRel(<, Nat)
  BY <1>1
<1>3. \A y \in S : ~(y < x)
  BY <1>2, Zenon DEF OpToRel
<1> QED
  BY <1>3

LEMMA TheVariables ==
  /\ "RUNTIME_MODE" \in Variable
  /\ "REPOSITORY_FORMAT" \in Variable
  /\ "PROVIDER" \in Variable
  /\ "DESTINATION_PATH" \in Variable
  /\ "ENDPOINT_URL" \in Variable
  /\ "ENDPOINT_CA_FILE" \in Variable
  /\ "LISTEN_ADDR" \in Variable
  /\ "TRUSTED_USER_HEADER" \in Variable
  /\ "ALLOW_DOWNLOAD" \in Variable
  /\ "CATALOG_REFRESH_INTERVAL" \in Variable
  /\ "STORE_REQUEST_TIMEOUT" \in Variable
  /\ "SCAN_CONCURRENCY" \in Variable
  /\ "MAX_OBJECTS_PER_SCAN" \in Variable
  /\ "WAL_PAGE_SIZE" \in Variable
  /\ "EXPECTED_RETENTION_POLICY" \in Variable
  /\ "EXPECTED_MINIMUM_REDUNDANCY" \in Variable
  /\ "BARMAN_SERVER_NAMES" \in Variable
  /\ "PGBACKREST_STANZAS" \in Variable
  /\ "PGBACKREST_CIPHER_PASS_FILE" \in Variable
  /\ "EVIDENCE_TOKEN_FILE" \in Variable
  /\ "CNPG_CLUSTER_NAMESPACE" \in Variable
  /\ "CNPG_CLUSTER_UID" \in Variable
  /\ "CNPG_CLUSTER_NAME" \in Variable
  /\ "STORE_CREDENTIAL_MODE" \in Variable
  /\ "AWS_ACCESS_KEY_ID" \in Variable
  /\ "AWS_SECRET_ACCESS_KEY" \in Variable
  /\ "AWS_SESSION_TOKEN" \in Variable
  /\ "AWS_ACCESS_KEY_ID_FILE" \in Variable
  /\ "AWS_SECRET_ACCESS_KEY_FILE" \in Variable
  /\ "AWS_SESSION_TOKEN_FILE" \in Variable
  /\ "AWS_WEB_IDENTITY_TOKEN_FILE" \in Variable
  /\ "AWS_ROLE_ARN" \in Variable
  /\ "AWS_REGION" \in Variable
  /\ "AZURE_STORAGE_CONNECTION_STRING_FILE" \in Variable
  /\ "AZURE_STORAGE_ACCOUNT" \in Variable
  /\ "AZURE_STORAGE_ACCOUNT_KEY_FILE" \in Variable
  /\ "AZURE_STORAGE_SAS_TOKEN_FILE" \in Variable
  /\ "GOOGLE_APPLICATION_CREDENTIALS" \in Variable
BY DEF Variable, Values

LEMMA CheckIsOutcome ==
  ASSUME NEW v \in Variable, NEW p \in BOOLEAN
  PROVE  Check(v, p) \in Outcome /\ (Check(v, p).refused <=> p)
BY DEF Check, Outcome

LEMMA ParseIsOutcome ==
  ASSUME NEW e, NEW v \in Variable, NEW bad
  PROVE  parse(e, v, bad) \in Outcome /\ (parse(e, v, bad).refused <=> e[v] \in bad)
<1>1. CASE e[v] \in bad
  <2>1. parse(e, v, bad) = Check(v, TRUE)
    BY <1>1, Zenon DEF parse, Check
  <2> QED
    BY <1>1, <2>1, CheckIsOutcome
<1>2. CASE e[v] \notin bad
  <2>1. (e[v] \in bad) = FALSE
    BY <1>2
  <2>2. parse(e, v, bad) = Check(v, FALSE)
    BY <2>1 DEF parse
  <2> QED
    BY <1>2, <2>2, CheckIsOutcome
<1> QED
  BY <1>1, <1>2

LEMMA ConcatPasses ==
  ASSUME NEW s \in Seq(Outcome), NEW t \in Seq(Outcome)
  PROVE  /\ s \o t \in Seq(Outcome)
         /\ Passes(s \o t) <=> Passes(s) /\ Passes(t)
<1>1. s \o t \in Seq(Outcome)
  OBVIOUS
<1> DEFINE both == s \o t
<1>2. \A i \in 1..Len(s) : i \in DOMAIN both /\ both[i] = s[i]
  OBVIOUS
<1>3. \A i \in 1..Len(t) : i + Len(s) \in DOMAIN both /\ both[i + Len(s)] = t[i]
  OBVIOUS
<1>4. DOMAIN s = 1..Len(s) /\ DOMAIN t = 1..Len(t)
  OBVIOUS
<1>5. \A k \in DOMAIN both : \/ k \in 1..Len(s)
                             \/ k - Len(s) \in 1..Len(t) /\ k = (k - Len(s)) + Len(s)
  OBVIOUS
<1> HIDE DEF both
<1>6. ASSUME Passes(both) PROVE Passes(s) /\ Passes(t)
  <2>1. \A i \in DOMAIN both : ~both[i].refused
    BY <1>6 DEF Passes
  <2>2. Passes(s)
    BY ONLY <1>2, <1>4, <2>1 DEF Passes
  <2>3. Passes(t)
    BY ONLY <1>3, <1>4, <2>1 DEF Passes
  <2> QED
    BY <2>2, <2>3
<1>7. ASSUME Passes(s), Passes(t) PROVE Passes(both)
  <2>1. /\ \A i \in 1..Len(s) : ~s[i].refused
        /\ \A i \in 1..Len(t) : ~t[i].refused
    BY <1>4, <1>7 DEF Passes
  <2>2. ASSUME NEW k \in DOMAIN both PROVE ~both[k].refused
    BY ONLY <1>2, <1>3, <1>5, <2>1, <2>2
  <2> QED
    BY <2>2 DEF Passes
<1> QED
  BY <1>1, <1>6, <1>7 DEF both

(* Load accepts exactly when no check refuses. *)
LEMMA AcceptedPasses ==
  ASSUME NEW e, LoadChecks(e) \in Seq(Outcome)
  PROVE  Accepted(e) <=> Passes(LoadChecks(e))
<1> DEFINE checks == LoadChecks(e)
           refused == {i \in DOMAIN checks : checks[i].refused}
<1> HIDE DEF checks
<1>1. checks \in Seq(Outcome)
  BY DEF checks
<1>2. Accepted(e) <=> (refused # {} => checks[Min(refused)].named = {})
  BY DEF Accepted, Refusal, checks
<1>3. ASSUME refused # {} PROVE checks[Min(refused)].named # {}
  <2>1. refused \in SUBSET Nat
    BY <1>1
  <2>2. Min(refused) \in refused
    BY <1>3, <2>1, LeastNatural DEF Min
  <2>3. checks[Min(refused)] \in Outcome /\ checks[Min(refused)].refused
    BY <1>1, <2>2
  <2> QED
    BY <1>3, <2>3 DEF Outcome
<1>4. Passes(checks) <=> refused = {}
  BY DEF Passes
<1> QED
  BY <1>2, <1>3, <1>4 DEF checks

(* Each group of checks, and what it means that none of them refuses. *)

LEMMA ParserPasses ==
  ASSUME NEW e
  PROVE  /\ ParserChecks(e) \in Seq(Outcome)
         /\ Passes(ParserChecks(e)) <=>
              /\ e.RUNTIME_MODE # "other"
              /\ e.REPOSITORY_FORMAT \notin {Absent, "other"}
              /\ e.PROVIDER \notin {Absent, "other"}
<1> DEFINE c1 == parse(e, "RUNTIME_MODE", {"other"})
           c2 == parse(e, "REPOSITORY_FORMAT", {Absent, "other"})
           c3 == parse(e, "PROVIDER", {Absent, "other"})
<1>1. /\ c1 \in Outcome /\ c2 \in Outcome /\ c3 \in Outcome
  BY ParseIsOutcome, TheVariables
<1>2. c1.refused <=> e.RUNTIME_MODE \in {"other"}
  BY ParseIsOutcome, TheVariables
<1>3. c2.refused <=> e.REPOSITORY_FORMAT \in {Absent, "other"}
  BY ParseIsOutcome, TheVariables
<1>4. c3.refused <=> e.PROVIDER \in {Absent, "other"}
  BY ParseIsOutcome, TheVariables
<1>5. ParserChecks(e) = << c1, c2, c3 >>
  BY DEF ParserChecks
<1> HIDE DEF c1, c2, c3
<1>6. ParserChecks(e) \in Seq(Outcome)
  BY <1>1, <1>5
<1>7. Passes(ParserChecks(e)) <=> /\ ~c1.refused /\ ~c2.refused /\ ~c3.refused
  BY <1>5 DEF Passes
<1> QED
  BY <1>2, <1>3, <1>4, <1>6, <1>7

LEMMA DestinationPasses ==
  ASSUME NEW e
  PROVE  /\ parseDestination(e) \in Seq(Outcome)
         /\ Passes(parseDestination(e)) <=>
              /\ e.DESTINATION_PATH \notin {Absent, "not-a-URI"}
              /\ e.DESTINATION_PATH \in Scheme(e.PROVIDER)
              /\ e.DESTINATION_PATH # "s3-double-slash"
<1> DEFINE c1 == parse(e, "DESTINATION_PATH", {Absent, "not-a-URI"})
           c2 == Check("DESTINATION_PATH", e.DESTINATION_PATH \notin Scheme(e.PROVIDER))
           c3 == parse(e, "DESTINATION_PATH", {"s3-double-slash"})
<1>1. /\ c1 \in Outcome /\ c2 \in Outcome /\ c3 \in Outcome
  BY ParseIsOutcome, CheckIsOutcome, TheVariables
<1>2. c1.refused <=> e.DESTINATION_PATH \in {Absent, "not-a-URI"}
  BY ParseIsOutcome, TheVariables
<1>3. c2.refused <=> e.DESTINATION_PATH \notin Scheme(e.PROVIDER)
  BY CheckIsOutcome, TheVariables
<1>4. c3.refused <=> e.DESTINATION_PATH \in {"s3-double-slash"}
  BY ParseIsOutcome, TheVariables
<1>5. parseDestination(e) = << c1, c2, c3 >>
  BY DEF parseDestination
<1> HIDE DEF c1, c2, c3
<1>6. parseDestination(e) \in Seq(Outcome)
  BY <1>1, <1>5
<1>7. Passes(parseDestination(e)) <=> /\ ~c1.refused /\ ~c2.refused /\ ~c3.refused
  BY <1>5 DEF Passes
<1> QED
  BY <1>2, <1>3, <1>4, <1>6, <1>7

LEMMA EndpointPasses ==
  ASSUME NEW e
  PROVE  /\ parseEndpoint(e) \in Seq(Outcome)
         /\ Passes(parseEndpoint(e)) <=>
              /\ Given(e, "ENDPOINT_URL") => e.PROVIDER = "s3"
              /\ e.ENDPOINT_URL # "not-an-origin"
              /\ Given(e, "ENDPOINT_CA_FILE") => e.PROVIDER = "s3"
              /\ e.ENDPOINT_CA_FILE # "unusable"
              /\ e.ENDPOINT_CA_FILE # "not-PEM"
<1> DEFINE c1 == Check("ENDPOINT_URL", Given(e, "ENDPOINT_URL") /\ e.PROVIDER # "s3")
           c2 == parse(e, "ENDPOINT_URL", {"not-an-origin"})
           c3 == Check("ENDPOINT_CA_FILE", Given(e, "ENDPOINT_CA_FILE") /\ e.PROVIDER # "s3")
           c4 == parse(e, "ENDPOINT_CA_FILE", {"unusable"})
           c5 == parse(e, "ENDPOINT_CA_FILE", {"not-PEM"})
<1>1. /\ c1 \in Outcome /\ c2 \in Outcome /\ c3 \in Outcome /\ c4 \in Outcome /\ c5 \in Outcome
  BY ParseIsOutcome, CheckIsOutcome, TheVariables DEF Given
<1>2. c1.refused <=> Given(e, "ENDPOINT_URL") /\ e.PROVIDER # "s3"
  BY CheckIsOutcome, TheVariables DEF Given
<1>3. c2.refused <=> e.ENDPOINT_URL \in {"not-an-origin"}
  BY ParseIsOutcome, TheVariables
<1>4. c3.refused <=> Given(e, "ENDPOINT_CA_FILE") /\ e.PROVIDER # "s3"
  BY CheckIsOutcome, TheVariables DEF Given
<1>5. c4.refused <=> e.ENDPOINT_CA_FILE \in {"unusable"}
  BY ParseIsOutcome, TheVariables
<1>6. c5.refused <=> e.ENDPOINT_CA_FILE \in {"not-PEM"}
  BY ParseIsOutcome, TheVariables
<1>7. parseEndpoint(e) = << c1, c2, c3, c4, c5 >>
  BY DEF parseEndpoint, readBoundedFile
<1> HIDE DEF c1, c2, c3, c4, c5
<1>8. parseEndpoint(e) \in Seq(Outcome)
  BY <1>1, <1>7
<1>9. Passes(parseEndpoint(e)) <=> /\ ~c1.refused /\ ~c2.refused /\ ~c3.refused /\ ~c4.refused
                                   /\ ~c5.refused
  BY <1>7 DEF Passes
<1> QED
  BY <1>2, <1>3, <1>4, <1>5, <1>6, <1>8, <1>9

LEMMA WebPasses ==
  ASSUME NEW e
  PROVE  /\ WebChecks(e) \in Seq(Outcome)
         /\ Passes(WebChecks(e)) <=>
              /\ Sidecar(e) => e.LISTEN_ADDR = Absent
              /\ Sidecar(e) => e.TRUSTED_USER_HEADER = Absent
              /\ e.LISTEN_ADDR # "invalid"
              /\ e.TRUSTED_USER_HEADER # "invalid"
              /\ e.ALLOW_DOWNLOAD # "invalid"
              /\ Sidecar(e) => e.ALLOW_DOWNLOAD # "true"
<1> DEFINE c1 == Check("LISTEN_ADDR", Sidecar(e) /\ e.LISTEN_ADDR # Absent)
           c2 == Check("TRUSTED_USER_HEADER", Sidecar(e) /\ e.TRUSTED_USER_HEADER # Absent)
           c3 == parse(e, "LISTEN_ADDR", {"invalid"})
           c4 == parse(e, "TRUSTED_USER_HEADER", {"invalid"})
           c5 == parse(e, "ALLOW_DOWNLOAD", {"invalid"})
           c6 == Check("ALLOW_DOWNLOAD", Sidecar(e) /\ e.ALLOW_DOWNLOAD = "true")
<1>1. /\ c1 \in Outcome /\ c2 \in Outcome /\ c3 \in Outcome /\ c4 \in Outcome /\ c5 \in Outcome
      /\ c6 \in Outcome
  BY ParseIsOutcome, CheckIsOutcome, TheVariables DEF Sidecar
<1>2. c1.refused <=> Sidecar(e) /\ e.LISTEN_ADDR # Absent
  BY CheckIsOutcome, TheVariables DEF Sidecar
<1>3. c2.refused <=> Sidecar(e) /\ e.TRUSTED_USER_HEADER # Absent
  BY CheckIsOutcome, TheVariables DEF Sidecar
<1>4. c3.refused <=> e.LISTEN_ADDR \in {"invalid"}
  BY ParseIsOutcome, TheVariables
<1>5. c4.refused <=> e.TRUSTED_USER_HEADER \in {"invalid"}
  BY ParseIsOutcome, TheVariables
<1>6. c5.refused <=> e.ALLOW_DOWNLOAD \in {"invalid"}
  BY ParseIsOutcome, TheVariables
<1>7. c6.refused <=> Sidecar(e) /\ e.ALLOW_DOWNLOAD = "true"
  BY CheckIsOutcome, TheVariables DEF Sidecar
<1>8. WebChecks(e) = << c1, c2, c3, c4, c5, c6 >>
  BY DEF WebChecks
<1> HIDE DEF c1, c2, c3, c4, c5, c6
<1>9. WebChecks(e) \in Seq(Outcome)
  BY <1>1, <1>8
<1>10. Passes(WebChecks(e)) <=> /\ ~c1.refused /\ ~c2.refused /\ ~c3.refused /\ ~c4.refused
                                /\ ~c5.refused /\ ~c6.refused
  BY <1>8 DEF Passes
<1> QED
  BY <1>2, <1>3, <1>4, <1>5, <1>6, <1>7, <1>9, <1>10

LEMMA NumbersPass ==
  ASSUME NEW e
  PROVE  /\ NumberChecks(e) \in Seq(Outcome)
         /\ Passes(NumberChecks(e)) <=>
              /\ e.CATALOG_REFRESH_INTERVAL # "outside"
              /\ e.STORE_REQUEST_TIMEOUT # "outside"
              /\ e.SCAN_CONCURRENCY # "outside"
              /\ e.MAX_OBJECTS_PER_SCAN # "outside"
              /\ e.WAL_PAGE_SIZE # "outside"
              /\ e.EXPECTED_RETENTION_POLICY # "invalid"
              /\ e.EXPECTED_MINIMUM_REDUNDANCY # "outside"
<1> DEFINE c1 == parse(e, "CATALOG_REFRESH_INTERVAL", {"outside"})
           c2 == parse(e, "STORE_REQUEST_TIMEOUT", {"outside"})
           c3 == parse(e, "SCAN_CONCURRENCY", {"outside"})
           c4 == parse(e, "MAX_OBJECTS_PER_SCAN", {"outside"})
           c5 == parse(e, "WAL_PAGE_SIZE", {"outside"})
           c6 == parse(e, "EXPECTED_RETENTION_POLICY", {"invalid"})
           c7 == parse(e, "EXPECTED_MINIMUM_REDUNDANCY", {"outside"})
<1>1. /\ c1 \in Outcome /\ c2 \in Outcome /\ c3 \in Outcome /\ c4 \in Outcome /\ c5 \in Outcome
      /\ c6 \in Outcome /\ c7 \in Outcome
  BY ParseIsOutcome, TheVariables
<1>2. c1.refused <=> e.CATALOG_REFRESH_INTERVAL \in {"outside"}
  BY ParseIsOutcome, TheVariables
<1>3. c2.refused <=> e.STORE_REQUEST_TIMEOUT \in {"outside"}
  BY ParseIsOutcome, TheVariables
<1>4. c3.refused <=> e.SCAN_CONCURRENCY \in {"outside"}
  BY ParseIsOutcome, TheVariables
<1>5. c4.refused <=> e.MAX_OBJECTS_PER_SCAN \in {"outside"}
  BY ParseIsOutcome, TheVariables
<1>6. c5.refused <=> e.WAL_PAGE_SIZE \in {"outside"}
  BY ParseIsOutcome, TheVariables
<1>7. c6.refused <=> e.EXPECTED_RETENTION_POLICY \in {"invalid"}
  BY ParseIsOutcome, TheVariables
<1>8. c7.refused <=> e.EXPECTED_MINIMUM_REDUNDANCY \in {"outside"}
  BY ParseIsOutcome, TheVariables
<1>9. NumberChecks(e) = << c1, c2, c3, c4, c5, c6, c7 >>
  BY DEF NumberChecks
<1> HIDE DEF c1, c2, c3, c4, c5, c6, c7
<1>10. NumberChecks(e) \in Seq(Outcome)
  BY <1>1, <1>9
<1>11. Passes(NumberChecks(e)) <=> /\ ~c1.refused /\ ~c2.refused /\ ~c3.refused /\ ~c4.refused
                                   /\ ~c5.refused /\ ~c6.refused /\ ~c7.refused
  BY <1>9 DEF Passes
<1> QED
  BY <1>2, <1>3, <1>4, <1>5, <1>6, <1>7, <1>8, <1>10, <1>11

LEMMA FormatPasses ==
  ASSUME NEW e
  PROVE  /\ loadFormatConfig(e) \in Seq(Outcome)
         /\ Passes(loadFormatConfig(e)) <=>
              /\ e.BARMAN_SERVER_NAMES \notin {"too-many", "invalid"}
              /\ e.PGBACKREST_STANZAS \notin {"too-many", "invalid"}
              /\ e.REPOSITORY_FORMAT = "barman-cloud" => ~Given(e, "PGBACKREST_STANZAS")
              /\ e.REPOSITORY_FORMAT = "barman-cloud" => ~Given(e, "PGBACKREST_CIPHER_PASS_FILE")
              /\ Given(e, "BARMAN_SERVER_NAMES") => e.REPOSITORY_FORMAT = "barman-cloud"
              /\ e.PGBACKREST_CIPHER_PASS_FILE # "unusable"
<1> DEFINE barman == e.REPOSITORY_FORMAT = "barman-cloud"
           c1 == parse(e, "BARMAN_SERVER_NAMES", {"too-many", "invalid"})
           c2 == parse(e, "PGBACKREST_STANZAS", {"too-many", "invalid"})
           c3 == Check("PGBACKREST_STANZAS", barman /\ Given(e, "PGBACKREST_STANZAS"))
           c4 == Check("PGBACKREST_CIPHER_PASS_FILE", barman /\ Given(e, "PGBACKREST_CIPHER_PASS_FILE"))
           c5 == Check("BARMAN_SERVER_NAMES", ~barman /\ Given(e, "BARMAN_SERVER_NAMES"))
           c6 == parse(e, "PGBACKREST_CIPHER_PASS_FILE", {"unusable"})
<1>1. /\ c1 \in Outcome /\ c2 \in Outcome /\ c3 \in Outcome /\ c4 \in Outcome /\ c5 \in Outcome
      /\ c6 \in Outcome
  BY ParseIsOutcome, CheckIsOutcome, TheVariables DEF Given
<1>2. c1.refused <=> e.BARMAN_SERVER_NAMES \in {"too-many", "invalid"}
  BY ParseIsOutcome, TheVariables
<1>3. c2.refused <=> e.PGBACKREST_STANZAS \in {"too-many", "invalid"}
  BY ParseIsOutcome, TheVariables
<1>4. c3.refused <=> barman /\ Given(e, "PGBACKREST_STANZAS")
  BY CheckIsOutcome, TheVariables DEF Given
<1>5. c4.refused <=> barman /\ Given(e, "PGBACKREST_CIPHER_PASS_FILE")
  BY CheckIsOutcome, TheVariables DEF Given
<1>6. c5.refused <=> ~barman /\ Given(e, "BARMAN_SERVER_NAMES")
  BY CheckIsOutcome, TheVariables DEF Given
<1>7. c6.refused <=> e.PGBACKREST_CIPHER_PASS_FILE \in {"unusable"}
  BY ParseIsOutcome, TheVariables
<1>8. loadFormatConfig(e) = << c1, c2, c3, c4, c5, c6 >>
  BY DEF loadFormatConfig, parseNames, readBoundedFile
<1> HIDE DEF c1, c2, c3, c4, c5, c6
<1>9. loadFormatConfig(e) \in Seq(Outcome)
  BY <1>1, <1>8
<1>10. Passes(loadFormatConfig(e)) <=> /\ ~c1.refused /\ ~c2.refused /\ ~c3.refused
                                       /\ ~c4.refused /\ ~c5.refused /\ ~c6.refused
  BY <1>8 DEF Passes
<1> QED
  BY <1>2, <1>3, <1>4, <1>5, <1>6, <1>7, <1>9, <1>10

LEMMA SidecarPasses ==
  ASSUME NEW e, Sidecar(e)
  PROVE  /\ loadRuntimeConfig(e) \in Seq(Outcome)
         /\ Passes(loadRuntimeConfig(e)) <=>
              /\ e.REPOSITORY_FORMAT = "barman-cloud"
              /\ e.PROVIDER = "s3"
              /\ e.BARMAN_SERVER_NAMES \in {"one", "one-twice", "not-UTF-8"}
              /\ validAbsolutePath(e.EVIDENCE_TOKEN_FILE)
              /\ ~invalidIdentity(e.CNPG_CLUSTER_NAMESPACE, TRUE)
              /\ ~invalidIdentity(e.CNPG_CLUSTER_UID, TRUE)
              /\ ~invalidIdentity(e.CNPG_CLUSTER_NAME, FALSE)
<1> DEFINE c1 == Check("REPOSITORY_FORMAT", e.REPOSITORY_FORMAT # "barman-cloud")
           c2 == Check("PROVIDER", e.PROVIDER # "s3")
           c3 == Check("BARMAN_SERVER_NAMES", e.BARMAN_SERVER_NAMES \notin {"one", "one-twice", "not-UTF-8"})
           c4 == Check("EVIDENCE_TOKEN_FILE", ~validAbsolutePath(e.EVIDENCE_TOKEN_FILE))
           c5 == Check("CNPG_CLUSTER_NAMESPACE", invalidIdentity(e.CNPG_CLUSTER_NAMESPACE, TRUE))
           c6 == Check("CNPG_CLUSTER_UID", invalidIdentity(e.CNPG_CLUSTER_UID, TRUE))
           c7 == Check("CNPG_CLUSTER_NAME", invalidIdentity(e.CNPG_CLUSTER_NAME, FALSE))
<1>1. /\ c1 \in Outcome /\ c2 \in Outcome /\ c3 \in Outcome /\ c4 \in Outcome /\ c5 \in Outcome
      /\ c6 \in Outcome /\ c7 \in Outcome
  BY CheckIsOutcome, TheVariables DEF invalidIdentity, validAbsolutePath
<1>2. c1.refused <=> e.REPOSITORY_FORMAT # "barman-cloud"
  BY CheckIsOutcome, TheVariables
<1>3. c2.refused <=> e.PROVIDER # "s3"
  BY CheckIsOutcome, TheVariables
<1>4. c3.refused <=> e.BARMAN_SERVER_NAMES \notin {"one", "one-twice", "not-UTF-8"}
  BY CheckIsOutcome, TheVariables
<1>5. c4.refused <=> ~validAbsolutePath(e.EVIDENCE_TOKEN_FILE)
  BY CheckIsOutcome, TheVariables DEF validAbsolutePath
<1>6. c5.refused <=> invalidIdentity(e.CNPG_CLUSTER_NAMESPACE, TRUE)
  BY CheckIsOutcome, TheVariables DEF invalidIdentity
<1>7. c6.refused <=> invalidIdentity(e.CNPG_CLUSTER_UID, TRUE)
  BY CheckIsOutcome, TheVariables DEF invalidIdentity
<1>8. c7.refused <=> invalidIdentity(e.CNPG_CLUSTER_NAME, FALSE)
  BY CheckIsOutcome, TheVariables DEF invalidIdentity
<1>9. loadRuntimeConfig(e) = << c1, c2, c3, c4, c5, c6, c7 >>
  BY DEF loadRuntimeConfig
<1> HIDE DEF c1, c2, c3, c4, c5, c6, c7
<1>10. loadRuntimeConfig(e) \in Seq(Outcome)
  BY <1>1, <1>9
<1>11. Passes(loadRuntimeConfig(e)) <=> /\ ~c1.refused /\ ~c2.refused /\ ~c3.refused
                                        /\ ~c4.refused /\ ~c5.refused /\ ~c6.refused
                                        /\ ~c7.refused
  BY <1>9 DEF Passes
<1> QED
  BY <1>2, <1>3, <1>4, <1>5, <1>6, <1>7, <1>8, <1>10, <1>11

LEMMA StandalonePasses ==
  ASSUME NEW e, ~Sidecar(e)
  PROVE  /\ loadRuntimeConfig(e) \in Seq(Outcome)
         /\ Passes(loadRuntimeConfig(e)) <=>
              /\ ~Given(e, "EVIDENCE_TOKEN_FILE")
              /\ ~Given(e, "CNPG_CLUSTER_NAMESPACE")
              /\ ~Given(e, "CNPG_CLUSTER_UID")
              /\ ~Given(e, "CNPG_CLUSTER_NAME")
              /\ ~Given(e, "STORE_CREDENTIAL_MODE")
<1> DEFINE c1 == Check("EVIDENCE_TOKEN_FILE", Given(e, "EVIDENCE_TOKEN_FILE"))
           c2 == Check("CNPG_CLUSTER_NAMESPACE", Given(e, "CNPG_CLUSTER_NAMESPACE"))
           c3 == Check("CNPG_CLUSTER_UID", Given(e, "CNPG_CLUSTER_UID"))
           c4 == Check("CNPG_CLUSTER_NAME", Given(e, "CNPG_CLUSTER_NAME"))
           c5 == Check("STORE_CREDENTIAL_MODE", Given(e, "STORE_CREDENTIAL_MODE"))
<1>1. /\ c1 \in Outcome /\ c2 \in Outcome /\ c3 \in Outcome /\ c4 \in Outcome /\ c5 \in Outcome
  BY CheckIsOutcome, TheVariables DEF Given
<1>2. c1.refused <=> Given(e, "EVIDENCE_TOKEN_FILE")
  BY CheckIsOutcome, TheVariables DEF Given
<1>3. c2.refused <=> Given(e, "CNPG_CLUSTER_NAMESPACE")
  BY CheckIsOutcome, TheVariables DEF Given
<1>4. c3.refused <=> Given(e, "CNPG_CLUSTER_UID")
  BY CheckIsOutcome, TheVariables DEF Given
<1>5. c4.refused <=> Given(e, "CNPG_CLUSTER_NAME")
  BY CheckIsOutcome, TheVariables DEF Given
<1>6. c5.refused <=> Given(e, "STORE_CREDENTIAL_MODE")
  BY CheckIsOutcome, TheVariables DEF Given
<1>7. loadRuntimeConfig(e) = << c1, c2, c3, c4, c5 >>
  BY DEF loadRuntimeConfig, SidecarOnly
<1> HIDE DEF c1, c2, c3, c4, c5
<1>8. loadRuntimeConfig(e) \in Seq(Outcome)
  BY <1>1, <1>7
<1>9. Passes(loadRuntimeConfig(e)) <=> /\ ~c1.refused /\ ~c2.refused /\ ~c3.refused
                                       /\ ~c4.refused /\ ~c5.refused
  BY <1>7 DEF Passes
<1> QED
  BY <1>2, <1>3, <1>4, <1>5, <1>6, <1>8, <1>9

LEMMA S3Passes ==
  ASSUME NEW e, Valued(e)
  PROVE  /\ loadS3Credentials(e) \in Seq(Outcome)
         /\ Passes(loadS3Credentials(e)) <=>
              /\ Given(e, "AWS_ACCESS_KEY_ID_FILE") <=> Given(e, "AWS_SECRET_ACCESS_KEY_FILE")
              /\ Given(e, "AWS_SESSION_TOKEN_FILE") => Given(e, "AWS_ACCESS_KEY_ID_FILE")
              /\ e.AWS_REGION # "invalid"
              /\ Sidecar(e) => e.STORE_CREDENTIAL_MODE \in {"static-files", "aws-web-identity"}
              /\ Sidecar(e) /\ e.STORE_CREDENTIAL_MODE = "static-files" =>
                   Given(e, "AWS_ACCESS_KEY_ID_FILE") /\ ~GivenAny(e, WebIdentity)
              /\ Sidecar(e) /\ e.STORE_CREDENTIAL_MODE = "aws-web-identity" =>
                   /\ ~GivenAny(e, StaticFiles)
                   /\ validAbsolutePath(e.AWS_WEB_IDENTITY_TOKEN_FILE)
                   /\ e.AWS_ROLE_ARN = "role"
                   /\ Given(e, "AWS_REGION")
              /\ e.AWS_ACCESS_KEY_ID_FILE # "unusable"
              /\ e.AWS_SECRET_ACCESS_KEY_FILE # "unusable"
              /\ e.AWS_SESSION_TOKEN_FILE # "unusable"
<1> DEFINE access == Given(e, "AWS_ACCESS_KEY_ID_FILE")
           mode == IF Sidecar(e) THEN e.STORE_CREDENTIAL_MODE ELSE "by-file"
           web == mode = "aws-web-identity"
           c1 == Check("AWS_ACCESS_KEY_ID_FILE", access # Given(e, "AWS_SECRET_ACCESS_KEY_FILE"))
           c2 == Check("AWS_SESSION_TOKEN_FILE", Given(e, "AWS_SESSION_TOKEN_FILE") /\ ~access)
           c3 == parse(e, "AWS_REGION", {"invalid"})
           c4 == Check("STORE_CREDENTIAL_MODE", mode = "static-files" /\ (~access \/ GivenAny(e, WebIdentity)))
           c5 == Check("STORE_CREDENTIAL_MODE", web /\ GivenAny(e, StaticFiles))
           c6 == Check("AWS_WEB_IDENTITY_TOKEN_FILE", web /\ ~validAbsolutePath(e.AWS_WEB_IDENTITY_TOKEN_FILE))
           c7 == Check("AWS_ROLE_ARN", web /\ e.AWS_ROLE_ARN # "role")
           c8 == Check("AWS_REGION", web /\ ~Given(e, "AWS_REGION"))
           c9 == Check("STORE_CREDENTIAL_MODE", mode \notin {"by-file", "static-files", "aws-web-identity"})
           c10 == parse(e, "AWS_ACCESS_KEY_ID_FILE", {"unusable"})
           c11 == parse(e, "AWS_SECRET_ACCESS_KEY_FILE", {"unusable"})
           c12 == parse(e, "AWS_SESSION_TOKEN_FILE", {"unusable"})
<1>1. /\ c1 \in Outcome /\ c2 \in Outcome /\ c3 \in Outcome /\ c4 \in Outcome /\ c5 \in Outcome
      /\ c6 \in Outcome /\ c7 \in Outcome /\ c8 \in Outcome /\ c9 \in Outcome /\ c10 \in Outcome
      /\ c11 \in Outcome /\ c12 \in Outcome
  BY ParseIsOutcome, CheckIsOutcome, TheVariables DEF Given, GivenAny, validAbsolutePath
<1>2. c1.refused <=> access # Given(e, "AWS_SECRET_ACCESS_KEY_FILE")
  BY CheckIsOutcome, TheVariables DEF Given
<1>3. c2.refused <=> Given(e, "AWS_SESSION_TOKEN_FILE") /\ ~access
  BY CheckIsOutcome, TheVariables DEF Given
<1>4. c3.refused <=> e.AWS_REGION \in {"invalid"}
  BY ParseIsOutcome, TheVariables
<1>5. c4.refused <=> mode = "static-files" /\ (~access \/ GivenAny(e, WebIdentity))
  BY CheckIsOutcome, TheVariables DEF Given, GivenAny
<1>6. c5.refused <=> web /\ GivenAny(e, StaticFiles)
  BY CheckIsOutcome, TheVariables DEF GivenAny
<1>7. c6.refused <=> web /\ ~validAbsolutePath(e.AWS_WEB_IDENTITY_TOKEN_FILE)
  BY CheckIsOutcome, TheVariables DEF validAbsolutePath
<1>8. c7.refused <=> web /\ e.AWS_ROLE_ARN # "role"
  BY CheckIsOutcome, TheVariables
<1>9. c8.refused <=> web /\ ~Given(e, "AWS_REGION")
  BY CheckIsOutcome, TheVariables DEF Given
<1>10. c9.refused <=> mode \notin {"by-file", "static-files", "aws-web-identity"}
  BY CheckIsOutcome, TheVariables
<1>11. c10.refused <=> e.AWS_ACCESS_KEY_ID_FILE \in {"unusable"}
  BY ParseIsOutcome, TheVariables
<1>12. c11.refused <=> e.AWS_SECRET_ACCESS_KEY_FILE \in {"unusable"}
  BY ParseIsOutcome, TheVariables
<1>13. c12.refused <=> e.AWS_SESSION_TOKEN_FILE \in {"unusable"}
  BY ParseIsOutcome, TheVariables
<1>14. loadS3Credentials(e) = << c1, c2, c3, c4, c5, c6, c7, c8, c9, c10, c11, c12 >>
  BY DEF loadS3Credentials, readBoundedFile
<1> HIDE DEF c1, c2, c3, c4, c5, c6, c7, c8, c9, c10, c11, c12
<1>15. loadS3Credentials(e) \in Seq(Outcome)
  BY <1>1, <1>14
<1>16. Passes(loadS3Credentials(e)) <=> /\ ~c1.refused /\ ~c2.refused /\ ~c3.refused
                                        /\ ~c4.refused /\ ~c5.refused /\ ~c6.refused
                                        /\ ~c7.refused /\ ~c8.refused /\ ~c9.refused
                                        /\ ~c10.refused /\ ~c11.refused /\ ~c12.refused
  BY <1>14 DEF Passes
<1>17. e.STORE_CREDENTIAL_MODE # "by-file"
  BY DEF Valued, Variable, Values, Absent
<1> QED
  BY <1>2, <1>3, <1>4, <1>5, <1>6, <1>7, <1>8, <1>9, <1>10, <1>11, <1>12, <1>13, <1>15, <1>16, <1>17 DEF Given

LEMMA AzurePasses ==
  ASSUME NEW e
  PROVE  /\ loadAzureCredentials(e) \in Seq(Outcome)
         /\ Passes(loadAzureCredentials(e)) <=>
              /\ e.AZURE_STORAGE_ACCOUNT # "invalid"
              /\ Given(e, "AZURE_STORAGE_CONNECTION_STRING_FILE") =>
                   /\ ~Given(e, "AZURE_STORAGE_ACCOUNT")
                   /\ \A v \in AccountFiles : ~Given(e, v)
              /\ e.AZURE_STORAGE_CONNECTION_STRING_FILE # "unusable"
              /\ ~(Given(e, "AZURE_STORAGE_ACCOUNT_KEY_FILE") /\ Given(e, "AZURE_STORAGE_SAS_TOKEN_FILE"))
              /\ (\E v \in AccountFiles : Given(e, v)) => Given(e, "AZURE_STORAGE_ACCOUNT")
              /\ e.AZURE_STORAGE_ACCOUNT_KEY_FILE # "unusable"
              /\ e.AZURE_STORAGE_SAS_TOKEN_FILE # "unusable"
<1> DEFINE connection == Given(e, "AZURE_STORAGE_CONNECTION_STRING_FILE")
           account == Given(e, "AZURE_STORAGE_ACCOUNT")
           files == {v \in AccountFiles : Given(e, v)}
           c1 == parse(e, "AZURE_STORAGE_ACCOUNT", {"invalid"})
           c2 == Check("AZURE_STORAGE_CONNECTION_STRING_FILE", connection /\ (account \/ files # {}))
           c3 == parse(e, "AZURE_STORAGE_CONNECTION_STRING_FILE", {"unusable"})
           c4 == Check("AZURE_STORAGE_ACCOUNT_KEY_FILE", files = AccountFiles)
           c5 == Check("AZURE_STORAGE_ACCOUNT", files # {} /\ ~account)
           c6 == parse(e, "AZURE_STORAGE_ACCOUNT_KEY_FILE", {"unusable"})
           c7 == parse(e, "AZURE_STORAGE_SAS_TOKEN_FILE", {"unusable"})
<1>1. /\ c1 \in Outcome /\ c2 \in Outcome /\ c3 \in Outcome /\ c4 \in Outcome /\ c5 \in Outcome
      /\ c6 \in Outcome /\ c7 \in Outcome
  BY ParseIsOutcome, CheckIsOutcome, TheVariables DEF Given
<1>2. c1.refused <=> e.AZURE_STORAGE_ACCOUNT \in {"invalid"}
  BY ParseIsOutcome, TheVariables
<1>3. c2.refused <=> connection /\ (account \/ files # {})
  BY CheckIsOutcome, TheVariables DEF Given
<1>4. c3.refused <=> e.AZURE_STORAGE_CONNECTION_STRING_FILE \in {"unusable"}
  BY ParseIsOutcome, TheVariables
<1>5. c4.refused <=> files = AccountFiles
  BY CheckIsOutcome, TheVariables
<1>6. c5.refused <=> files # {} /\ ~account
  BY CheckIsOutcome, TheVariables DEF Given
<1>7. c6.refused <=> e.AZURE_STORAGE_ACCOUNT_KEY_FILE \in {"unusable"}
  BY ParseIsOutcome, TheVariables
<1>8. c7.refused <=> e.AZURE_STORAGE_SAS_TOKEN_FILE \in {"unusable"}
  BY ParseIsOutcome, TheVariables
<1>9. loadAzureCredentials(e) = << c1, c2, c3, c4, c5, c6, c7 >>
  BY DEF loadAzureCredentials, readBoundedFile
<1> HIDE DEF c1, c2, c3, c4, c5, c6, c7
<1>10. loadAzureCredentials(e) \in Seq(Outcome)
  BY <1>1, <1>9
<1>11. Passes(loadAzureCredentials(e)) <=> /\ ~c1.refused /\ ~c2.refused /\ ~c3.refused
                                           /\ ~c4.refused /\ ~c5.refused /\ ~c6.refused
                                           /\ ~c7.refused
  BY <1>9 DEF Passes
<1>12. files = AccountFiles <=> /\ Given(e, "AZURE_STORAGE_ACCOUNT_KEY_FILE")
                                   /\ Given(e, "AZURE_STORAGE_SAS_TOKEN_FILE")
  BY DEF AccountFiles
<1> QED
  BY <1>2, <1>3, <1>4, <1>5, <1>6, <1>7, <1>8, <1>10, <1>11, <1>12

LEMMA GCSPasses ==
  ASSUME NEW e
  PROVE  /\ loadGCSCredentials(e) \in Seq(Outcome)
         /\ Passes(loadGCSCredentials(e)) <=>
              /\ e.GOOGLE_APPLICATION_CREDENTIALS # "unusable"
              /\ e.GOOGLE_APPLICATION_CREDENTIALS # "not-JSON"
<1> DEFINE c1 == parse(e, "GOOGLE_APPLICATION_CREDENTIALS", {"unusable"})
           c2 == parse(e, "GOOGLE_APPLICATION_CREDENTIALS", {"not-JSON"})
<1>1. /\ c1 \in Outcome /\ c2 \in Outcome
  BY ParseIsOutcome, TheVariables
<1>2. c1.refused <=> e.GOOGLE_APPLICATION_CREDENTIALS \in {"unusable"}
  BY ParseIsOutcome, TheVariables
<1>3. c2.refused <=> e.GOOGLE_APPLICATION_CREDENTIALS \in {"not-JSON"}
  BY ParseIsOutcome, TheVariables
<1>4. loadGCSCredentials(e) = << c1, c2 >>
  BY DEF loadGCSCredentials, readBoundedFile
<1> HIDE DEF c1, c2
<1>5. loadGCSCredentials(e) \in Seq(Outcome)
  BY <1>1, <1>4
<1>6. Passes(loadGCSCredentials(e)) <=> /\ ~c1.refused /\ ~c2.refused
  BY <1>4 DEF Passes
<1> QED
  BY <1>2, <1>3, <1>5, <1>6

(* No variable of another provider is given. *)
LEMMA ForeignPasses ==
  ASSUME NEW e
  PROVE  /\ ForeignCredentials(e) \in Outcome
         /\ ~ForeignCredentials(e).refused <=>
              \A p \in {"s3", "azure", "gcs"} \ {e.PROVIDER} :
                \A v \in providerFiles[p] : ~Given(e, v)
<1> DEFINE all == UNION {providerFiles[p] : p \in DOMAIN providerFiles \ {e.PROVIDER}}
           foreign == {v \in all : Given(e, v)}
<1>1. DOMAIN providerFiles = {"s3", "azure", "gcs"}
  BY DEF providerFiles
<1>2. \A p \in {"s3", "azure", "gcs"} : providerFiles[p] \in SUBSET Variable
  BY TheVariables DEF providerFiles, StaticFiles, WebIdentity, AccountFiles
<1>3. foreign \in SUBSET Variable
  BY <1>1, <1>2
<1>4. ForeignCredentials(e) = [named |-> foreign, refused |-> foreign # {}]
  BY DEF ForeignCredentials
<1>5. foreign = {} <=> \A p \in {"s3", "azure", "gcs"} \ {e.PROVIDER} :
                         \A v \in providerFiles[p] : ~Given(e, v)
  BY <1>1
<1> HIDE DEF foreign
<1>6. ForeignCredentials(e) \in Outcome /\ (ForeignCredentials(e).refused <=> foreign # {})
  <2>1. CASE foreign = {}
    <3>1. (foreign # {}) = FALSE
      BY <2>1
    <3>2. ForeignCredentials(e) = [named |-> foreign, refused |-> FALSE]
      BY <1>4, <3>1
    <3> QED
      BY <1>3, <2>1, <3>2 DEF Outcome
  <2>2. CASE foreign # {}
    <3>1. (foreign # {}) = TRUE
      BY <2>2
    <3>2. ForeignCredentials(e) = [named |-> foreign, refused |-> TRUE]
      BY <1>4, <3>1
    <3> QED
      BY <1>3, <2>2, <3>2 DEF Outcome
  <2> QED
    BY <2>1, <2>2
<1> QED
  BY <1>5, <1>6

(* What the environment holds exactly when Load accepts it. *)
Sane(e) ==
  /\ e.RUNTIME_MODE # "other"
  /\ e.REPOSITORY_FORMAT \notin {Absent, "other"}
  /\ e.PROVIDER \notin {Absent, "other"}
  /\ e.DESTINATION_PATH \notin {Absent, "not-a-URI"}
  /\ e.DESTINATION_PATH \in Scheme(e.PROVIDER)
  /\ e.DESTINATION_PATH # "s3-double-slash"
  /\ Given(e, "ENDPOINT_URL") => e.PROVIDER = "s3"
  /\ e.ENDPOINT_URL # "not-an-origin"
  /\ Given(e, "ENDPOINT_CA_FILE") => e.PROVIDER = "s3"
  /\ e.ENDPOINT_CA_FILE \notin {"unusable", "not-PEM"}
  /\ Sidecar(e) => /\ e.LISTEN_ADDR = Absent
                   /\ e.TRUSTED_USER_HEADER = Absent
                   /\ e.ALLOW_DOWNLOAD # "true"
  /\ e.LISTEN_ADDR # "invalid"
  /\ e.TRUSTED_USER_HEADER # "invalid"
  /\ e.ALLOW_DOWNLOAD # "invalid"
  /\ e.CATALOG_REFRESH_INTERVAL # "outside"
  /\ e.STORE_REQUEST_TIMEOUT # "outside"
  /\ e.SCAN_CONCURRENCY # "outside"
  /\ e.MAX_OBJECTS_PER_SCAN # "outside"
  /\ e.WAL_PAGE_SIZE # "outside"
  /\ e.EXPECTED_RETENTION_POLICY # "invalid"
  /\ e.EXPECTED_MINIMUM_REDUNDANCY # "outside"
  /\ e.BARMAN_SERVER_NAMES \notin {"too-many", "invalid"}
  /\ e.PGBACKREST_STANZAS \notin {"too-many", "invalid"}
  /\ e.REPOSITORY_FORMAT = "barman-cloud" => /\ ~Given(e, "PGBACKREST_STANZAS")
                                             /\ ~Given(e, "PGBACKREST_CIPHER_PASS_FILE")
  /\ Given(e, "BARMAN_SERVER_NAMES") => e.REPOSITORY_FORMAT = "barman-cloud"
  /\ e.PGBACKREST_CIPHER_PASS_FILE # "unusable"
  /\ Passes(loadRuntimeConfig(e))
  /\ ~GivenAny(e, DirectCredentials)
  /\ \A p \in {"s3", "azure", "gcs"} \ {e.PROVIDER} : \A v \in providerFiles[p] : ~Given(e, v)
  /\ e.PROVIDER = "s3" => Passes(loadS3Credentials(e))
  /\ e.PROVIDER = "azure" => Passes(loadAzureCredentials(e))
  /\ e.PROVIDER \notin {"s3", "azure"} => Passes(loadGCSCredentials(e))

LEMMA AcceptedIsSane ==
  ASSUME NEW e, Valued(e)
  PROVE  Accepted(e) <=> Sane(e)
<1> DEFINE last == CASE e.PROVIDER = "s3"    -> loadS3Credentials(e)
                     [] e.PROVIDER = "azure" -> loadAzureCredentials(e)
                     [] OTHER                -> loadGCSCredentials(e)
           direct == Check("AWS_ACCESS_KEY_ID", GivenAny(e, DirectCredentials))
           foreign == ForeignCredentials(e)
           first == << direct, foreign >>
           s1 == ParserChecks(e) \o parseDestination(e)
           s2 == s1 \o parseEndpoint(e)
           s3 == s2 \o WebChecks(e)
           s4 == s3 \o NumberChecks(e)
           s5 == s4 \o loadFormatConfig(e)
           s6 == s5 \o loadRuntimeConfig(e)
<1>1. /\ ParserChecks(e) \in Seq(Outcome) /\ parseDestination(e) \in Seq(Outcome)
      /\ parseEndpoint(e) \in Seq(Outcome) /\ WebChecks(e) \in Seq(Outcome)
      /\ NumberChecks(e) \in Seq(Outcome) /\ loadFormatConfig(e) \in Seq(Outcome)
  BY ParserPasses, DestinationPasses, EndpointPasses, WebPasses, NumbersPass, FormatPasses
<1>2. loadRuntimeConfig(e) \in Seq(Outcome)
  BY SidecarPasses, StandalonePasses
<1>3. last \in Seq(Outcome)
  <2>1. /\ loadS3Credentials(e) \in Seq(Outcome) /\ loadAzureCredentials(e) \in Seq(Outcome)
        /\ loadGCSCredentials(e) \in Seq(Outcome)
    BY S3Passes, AzurePasses, GCSPasses
  <2> QED
    BY <2>1
<1>4. /\ direct \in Outcome /\ foreign \in Outcome
      /\ direct.refused <=> GivenAny(e, DirectCredentials)
      /\ ~foreign.refused <=> \A p \in {"s3", "azure", "gcs"} \ {e.PROVIDER} :
                                \A v \in providerFiles[p] : ~Given(e, v)
  BY CheckIsOutcome, ForeignPasses, TheVariables DEF GivenAny
<1>5. /\ Passes(last) <=> /\ e.PROVIDER = "s3" => Passes(loadS3Credentials(e))
                          /\ e.PROVIDER = "azure" => Passes(loadAzureCredentials(e))
                          /\ e.PROVIDER \notin {"s3", "azure"} => Passes(loadGCSCredentials(e))
  OBVIOUS
<1>6. LoadChecks(e) = s6 \o (first \o last)
  BY DEF LoadChecks, loadCredentials
<1> HIDE DEF last, direct, foreign
<1>7. first \in Seq(Outcome) /\ (Passes(first) <=> ~direct.refused /\ ~foreign.refused)
  BY <1>4 DEF Passes
<1> HIDE DEF first
<1>8. first \o last \in Seq(Outcome) /\ (Passes(first \o last) <=> Passes(first) /\ Passes(last))
  BY <1>3, <1>7, ConcatPasses
<1>9. s1 \in Seq(Outcome) /\ (Passes(s1) <=> Passes(ParserChecks(e)) /\ Passes(parseDestination(e)))
  BY <1>1, ConcatPasses
<1> HIDE DEF s1
<1>10. s2 \in Seq(Outcome) /\ (Passes(s2) <=> Passes(s1) /\ Passes(parseEndpoint(e)))
  BY <1>1, <1>9, ConcatPasses
<1> HIDE DEF s2
<1>11. s3 \in Seq(Outcome) /\ (Passes(s3) <=> Passes(s2) /\ Passes(WebChecks(e)))
  BY <1>1, <1>10, ConcatPasses
<1> HIDE DEF s3
<1>12. s4 \in Seq(Outcome) /\ (Passes(s4) <=> Passes(s3) /\ Passes(NumberChecks(e)))
  BY <1>1, <1>11, ConcatPasses
<1> HIDE DEF s4
<1>13. s5 \in Seq(Outcome) /\ (Passes(s5) <=> Passes(s4) /\ Passes(loadFormatConfig(e)))
  BY <1>1, <1>12, ConcatPasses
<1> HIDE DEF s5
<1>14. s6 \in Seq(Outcome) /\ (Passes(s6) <=> Passes(s5) /\ Passes(loadRuntimeConfig(e)))
  BY <1>2, <1>13, ConcatPasses
<1> HIDE DEF s6
<1>15. Accepted(e) <=> Passes(s6) /\ Passes(first \o last)
  <2>1. LoadChecks(e) \in Seq(Outcome) /\ (Passes(LoadChecks(e)) <=> Passes(s6) /\ Passes(first \o last))
    BY ONLY <1>6, <1>8, <1>14, ConcatPasses
  <2> QED
    BY <2>1, AcceptedPasses
<1>16. Accepted(e) <=>
         /\ Passes(ParserChecks(e)) /\ Passes(parseDestination(e)) /\ Passes(parseEndpoint(e))
         /\ Passes(WebChecks(e)) /\ Passes(NumberChecks(e)) /\ Passes(loadFormatConfig(e))
         /\ Passes(loadRuntimeConfig(e))
         /\ ~direct.refused /\ ~foreign.refused /\ Passes(last)
  BY ONLY <1>7, <1>8, <1>9, <1>10, <1>11, <1>12, <1>13, <1>14, <1>15
<1>17. /\ Passes(ParserChecks(e)) <=> /\ e.RUNTIME_MODE # "other"
                                      /\ e.REPOSITORY_FORMAT \notin {Absent, "other"}
                                      /\ e.PROVIDER \notin {Absent, "other"}
       /\ Passes(parseDestination(e)) <=> /\ e.DESTINATION_PATH \notin {Absent, "not-a-URI"}
                                          /\ e.DESTINATION_PATH \in Scheme(e.PROVIDER)
                                          /\ e.DESTINATION_PATH # "s3-double-slash"
       /\ Passes(parseEndpoint(e)) <=> /\ Given(e, "ENDPOINT_URL") => e.PROVIDER = "s3"
                                       /\ e.ENDPOINT_URL # "not-an-origin"
                                       /\ Given(e, "ENDPOINT_CA_FILE") => e.PROVIDER = "s3"
                                       /\ e.ENDPOINT_CA_FILE \notin {"unusable", "not-PEM"}
  BY ParserPasses, DestinationPasses, EndpointPasses
<1>18. Passes(WebChecks(e)) <=>
         /\ Sidecar(e) => /\ e.LISTEN_ADDR = Absent
                          /\ e.TRUSTED_USER_HEADER = Absent
                          /\ e.ALLOW_DOWNLOAD # "true"
         /\ e.LISTEN_ADDR # "invalid"
         /\ e.TRUSTED_USER_HEADER # "invalid"
         /\ e.ALLOW_DOWNLOAD # "invalid"
  BY WebPasses
<1>19. Passes(loadFormatConfig(e)) <=>
         /\ e.BARMAN_SERVER_NAMES \notin {"too-many", "invalid"}
         /\ e.PGBACKREST_STANZAS \notin {"too-many", "invalid"}
         /\ e.REPOSITORY_FORMAT = "barman-cloud" => /\ ~Given(e, "PGBACKREST_STANZAS")
                                                    /\ ~Given(e, "PGBACKREST_CIPHER_PASS_FILE")
         /\ Given(e, "BARMAN_SERVER_NAMES") => e.REPOSITORY_FORMAT = "barman-cloud"
         /\ e.PGBACKREST_CIPHER_PASS_FILE # "unusable"
  BY FormatPasses
<1> QED
  BY ONLY <1>4, <1>5, <1>16, <1>17, <1>18, <1>19, NumbersPass, Zenon DEF Sane

-----------------------------------------------------------------------------
(* What the constructors do with a sane environment *)

LEMMA LoadFields ==
  ASSUME NEW e
  PROVE  LET cfg == Load(e)
         IN  /\ cfg.sidecar = Sidecar(e) /\ cfg.format = e.REPOSITORY_FORMAT
             /\ cfg.provider = e.PROVIDER /\ cfg.destination = e.DESTINATION_PATH
             /\ cfg.endpoint = e.ENDPOINT_URL /\ cfg.caBundle = e.ENDPOINT_CA_FILE
             /\ cfg.servers = OneName(e.BARMAN_SERVER_NAMES)
             /\ cfg.stanzas = OneName(e.PGBACKREST_STANZAS)
             /\ cfg.tokenFile = e.EVIDENCE_TOKEN_FILE
             /\ cfg.cluster = <<e.CNPG_CLUSTER_NAMESPACE, e.CNPG_CLUSTER_UID, e.CNPG_CLUSTER_NAME>>
             /\ cfg.interval = e.CATALOG_REFRESH_INTERVAL /\ cfg.timeout = e.STORE_REQUEST_TIMEOUT
             /\ cfg.maxObjects = e.MAX_OBJECTS_PER_SCAN /\ cfg.walPageSize = e.WAL_PAGE_SIZE
             /\ e.PROVIDER = "s3" => cfg.region = e.AWS_REGION
             /\ cfg.credentials = Credentials(e)
BY DEF Load

LEMMA ValueFacts ==
  ASSUME NEW e, Valued(e)
  PROVE  /\ e.PROVIDER \in {"s3", "azure", "gcs", "other", Absent}
         /\ e.REPOSITORY_FORMAT \in {"barman-cloud", "pgbackrest", "other", Absent}
         /\ e.EVIDENCE_TOKEN_FILE \in {"token", "not-a-token", "relative", Absent}
         /\ e.CNPG_CLUSTER_NAMESPACE \in Text \cup {Absent}
         /\ e.CNPG_CLUSTER_UID \in Text \cup {Absent}
         /\ e.CNPG_CLUSTER_NAME \in Text \cup {Absent}
         /\ e.AWS_REGION \in Text \cup {Absent}
         /\ e.AWS_ACCESS_KEY_ID_FILE \in File \cup {Absent}
         /\ e.AWS_SECRET_ACCESS_KEY_FILE \in File \cup {Absent}
         /\ e.AWS_SESSION_TOKEN_FILE \in File \cup {Absent}
         /\ e.AWS_WEB_IDENTITY_TOKEN_FILE \in {"absolute", "absolute-and-long", "relative", Absent}
         /\ e.AZURE_STORAGE_ACCOUNT \in {"text", "invalid", Absent}
         /\ e.AZURE_STORAGE_SAS_TOKEN_FILE \in File \cup {Absent}
BY TheVariables DEF Valued, Values

(* Only three variables can hold what an SDK refuses, and five what is     *)
(* not UTF-8.                                                              *)
LEMMA SDKFacts ==
  ASSUME NEW e, Valued(e)
  PROVE  (\E v \in Variable : e[v] = "refused-by-the-SDK") <=>
           "refused-by-the-SDK" \in {e.AZURE_STORAGE_CONNECTION_STRING_FILE,
                                     e.AZURE_STORAGE_ACCOUNT_KEY_FILE,
                                     e.GOOGLE_APPLICATION_CREDENTIALS}
<1>1. ASSUME NEW v \in Variable, "refused-by-the-SDK" \in Values[v]
      PROVE  v \in {"AZURE_STORAGE_CONNECTION_STRING_FILE", "AZURE_STORAGE_ACCOUNT_KEY_FILE",
                    "GOOGLE_APPLICATION_CREDENTIALS"}
  BY <1>1 DEF Variable, Values, Number, File, Names, Text, Empty
<1> QED
  BY <1>1, TheVariables DEF Valued, Absent

LEMMA UTF8Facts ==
  ASSUME NEW e, Valued(e)
  PROVE  (\E v \in Variable : e[v] = "not-UTF-8") <=>
           "not-UTF-8" \in {e.BARMAN_SERVER_NAMES, e.CNPG_CLUSTER_NAMESPACE, e.CNPG_CLUSTER_UID,
                            e.CNPG_CLUSTER_NAME, e.AWS_REGION}
<1>1. ASSUME NEW v \in Variable, "not-UTF-8" \in Values[v]
      PROVE  v \in {"BARMAN_SERVER_NAMES", "CNPG_CLUSTER_NAMESPACE", "CNPG_CLUSTER_UID",
                    "CNPG_CLUSTER_NAME", "AWS_REGION"}
  BY <1>1 DEF Variable, Values, Number, File, Names, Text, Empty
<1> QED
  BY <1>1, TheVariables DEF Valued, Absent

LEMMA S3Refused ==
  ASSUME NEW e, Valued(e), Sane(e), e.PROVIDER = "s3", NEW host \in BOOLEAN
  PROVE  s3Refuses(Load(e), e, host) <=>
           \/ ~host
           \/ /\ LeftToTheSDK(e)
              /\ Given(e, "AWS_WEB_IDENTITY_TOKEN_FILE") /\ ~Given(e, "AWS_ROLE_ARN")
           \/ e.DESTINATION_PATH \in {"s3-long-bucket", "s3-huge-prefix"}
           \/ Sidecar(e) /\ e.AWS_WEB_IDENTITY_TOKEN_FILE = "absolute-and-long"
<1> DEFINE cfg == Load(e)
           access == Given(e, "AWS_ACCESS_KEY_ID_FILE")
           web == Sidecar(e) /\ e.STORE_CREDENTIAL_MODE = "aws-web-identity"
           bad == {"unusable", "absolute-and-long", "invalid"}
           alone == Given(e, "AWS_WEB_IDENTITY_TOKEN_FILE") /\ ~Given(e, "AWS_ROLE_ARN")
           sdk == ~host \/ (cfg.credentials.mode = "ambient" /\ alone)
<1>1. /\ cfg.destination = e.DESTINATION_PATH /\ cfg.timeout # "outside"
      /\ cfg.region # "invalid" /\ cfg.caBundle \notin {"unusable", "not-PEM"}
      /\ cfg.endpoint # "not-an-origin" /\ cfg.credentials = Credentials(e)
  BY LoadFields, S3Passes DEF Sane
<1>2. /\ access <=> Given(e, "AWS_SECRET_ACCESS_KEY_FILE")
      /\ Given(e, "AWS_SESSION_TOKEN_FILE") => access
      /\ Sidecar(e) => e.STORE_CREDENTIAL_MODE \in {"static-files", "aws-web-identity"}
      /\ Sidecar(e) /\ e.STORE_CREDENTIAL_MODE = "static-files" =>
           access /\ ~GivenAny(e, WebIdentity)
      /\ web => validAbsolutePath(e.AWS_WEB_IDENTITY_TOKEN_FILE) /\ e.AWS_ROLE_ARN = "role"
      /\ e.AWS_ACCESS_KEY_ID_FILE # "unusable" /\ e.AWS_SECRET_ACCESS_KEY_FILE # "unusable"
      /\ e.AWS_SESSION_TOKEN_FILE # "unusable"
  BY S3Passes DEF Sane
<1>3. /\ e.AWS_ACCESS_KEY_ID_FILE \in {"file", Absent} /\ e.AWS_SECRET_ACCESS_KEY_FILE \in {"file", Absent}
      /\ e.AWS_SESSION_TOKEN_FILE \in {"file", Absent}
      /\ web => e.AWS_WEB_IDENTITY_TOKEN_FILE \in {"absolute", "absolute-and-long"}
  BY <1>2, ValueFacts DEF File, validAbsolutePath
<1>4. Sidecar(e) /\ ~web => e.AWS_WEB_IDENTITY_TOKEN_FILE # "absolute-and-long"
  BY <1>2 DEF GivenAny, WebIdentity, Given, Absent, Empty
<1>9. LeftToTheSDK(e) <=> ~web /\ ~access
  BY <1>2, S3Passes DEF LeftToTheSDK, Sane
<1>5. s3Refuses(cfg, e, host) <=>
        \/ sdk
        \/ e.DESTINATION_PATH \in {"s3-long-bucket", "s3-huge-prefix"}
        \/ Contents(cfg) \cap bad # {}
        \/ ~(Holds(cfg, "AWS_ACCESS_KEY_ID_FILE") <=> Holds(cfg, "AWS_SECRET_ACCESS_KEY_FILE"))
        \/ Holds(cfg, "AWS_SESSION_TOKEN_FILE") /\ ~Holds(cfg, "AWS_ACCESS_KEY_ID_FILE")
        \/ ~(Holds(cfg, "AWS_WEB_IDENTITY_TOKEN_FILE") <=> Holds(cfg, "AWS_ROLE_ARN"))
        \/ Holds(cfg, "AWS_ACCESS_KEY_ID_FILE") /\ Holds(cfg, "AWS_WEB_IDENTITY_TOKEN_FILE")
  <2> HIDE DEF cfg
  <2>1. \A v : Holds(cfg, v) \in BOOLEAN
    BY DEF Holds
  <2> QED
    BY <1>1, <2>1 DEF s3Refuses, LoadDefaultConfigRefuses
<1> HIDE DEF cfg
<1>6. CASE web
  <2>1. cfg.credentials = [mode |-> "aws-web-identity",
                           from |-> Restrict(e, {v \in WebIdentity : Given(e, v)})]
    BY <1>1, <1>6 DEF Credentials
  <2>2. /\ \A v : Holds(cfg, v) <=> v \in WebIdentity /\ Given(e, v)
        /\ \A x : x \in Contents(cfg) <=> \E v \in WebIdentity : Given(e, v) /\ x = e[v]
    BY <2>1 DEF Holds, Contents, Restrict
  <2>3. Given(e, "AWS_WEB_IDENTITY_TOKEN_FILE") /\ Given(e, "AWS_ROLE_ARN")
    BY <1>2, <1>3, <1>6 DEF Given, Absent, Empty
  <2>4. Contents(cfg) \cap bad # {} <=> e.AWS_WEB_IDENTITY_TOKEN_FILE = "absolute-and-long"
    BY <1>2, <1>3, <1>6, <2>2, <2>3 DEF WebIdentity
  <2>5. /\ ~Holds(cfg, "AWS_ACCESS_KEY_ID_FILE") /\ ~Holds(cfg, "AWS_SECRET_ACCESS_KEY_FILE")
        /\ ~Holds(cfg, "AWS_SESSION_TOKEN_FILE") /\ Holds(cfg, "AWS_WEB_IDENTITY_TOKEN_FILE")
        /\ Holds(cfg, "AWS_ROLE_ARN")
    BY <2>2, <2>3 DEF WebIdentity
  <2>6. sdk <=> ~host
    BY <2>1
  <2> QED
    BY <1>5, <1>6, <1>9, <2>4, <2>5, <2>6 DEF cfg
<1>7. CASE ~web /\ access
  <2>1. cfg.credentials = [mode |-> "static-files",
                           from |-> Restrict(e, {v \in StaticFiles : Given(e, v)})]
    BY <1>1, <1>7 DEF Credentials
  <2>2. /\ \A v : Holds(cfg, v) <=> v \in StaticFiles /\ Given(e, v)
        /\ \A x : x \in Contents(cfg) <=> \E v \in StaticFiles : Given(e, v) /\ x = e[v]
    BY <2>1 DEF Holds, Contents, Restrict
  <2>3. Contents(cfg) \cap bad = {}
    BY <1>3, <2>2 DEF StaticFiles, Given, Absent
  <2>4. /\ Holds(cfg, "AWS_ACCESS_KEY_ID_FILE") /\ Holds(cfg, "AWS_SECRET_ACCESS_KEY_FILE")
        /\ ~Holds(cfg, "AWS_WEB_IDENTITY_TOKEN_FILE") /\ ~Holds(cfg, "AWS_ROLE_ARN")
    BY <1>2, <1>7, <2>2 DEF StaticFiles
  <2>5. sdk <=> ~host
    BY <2>1
  <2> QED
    BY <1>4, <1>5, <1>7, <1>9, <2>3, <2>4, <2>5 DEF cfg
<1>8. CASE ~web /\ ~access
  <2>1. cfg.credentials = [mode |-> "ambient", from |-> Restrict(e, {v \in {} : Given(e, v)})]
    BY <1>1, <1>8 DEF Credentials
  <2>2. /\ \A v : ~Holds(cfg, v)
        /\ \A x : x \notin Contents(cfg)
    BY <2>1 DEF Holds, Contents, Restrict
  <2>3. sdk <=> ~host \/ alone
    BY <2>1
  <2> QED
    BY <1>4, <1>5, <1>8, <1>9, <2>2, <2>3 DEF cfg
<1> QED
  BY <1>6, <1>7, <1>8

LEMMA AzureRefused ==
  ASSUME NEW e, Valued(e), Sane(e), e.PROVIDER = "azure", NEW host \in BOOLEAN
  PROVE  azureRefuses(Load(e), host) <=>
           \/ ~host /\ LeftToTheSDK(e)
           \/ ~GivenAny(e, {"AZURE_STORAGE_ACCOUNT", "AZURE_STORAGE_CONNECTION_STRING_FILE"})
           \/ "refused-by-the-SDK" \in {e.AZURE_STORAGE_CONNECTION_STRING_FILE,
                                        e.AZURE_STORAGE_ACCOUNT_KEY_FILE}
<1> DEFINE cfg == Load(e)
           account == Given(e, "AZURE_STORAGE_ACCOUNT")
           connection == Given(e, "AZURE_STORAGE_CONNECTION_STRING_FILE")
           key == Given(e, "AZURE_STORAGE_ACCOUNT_KEY_FILE")
           sas == Given(e, "AZURE_STORAGE_SAS_TOKEN_FILE")
<1>1. cfg.timeout # "outside" /\ cfg.credentials = Credentials(e)
  BY LoadFields DEF Sane
<1>2. connection => ~account /\ ~key /\ ~sas
  BY AzurePasses DEF Sane, AccountFiles
<1>3. key \/ sas => account
  BY AzurePasses DEF Sane, AccountFiles
<1>4. /\ e.AZURE_STORAGE_ACCOUNT # "refused-by-the-SDK"
      /\ e.AZURE_STORAGE_SAS_TOKEN_FILE # "refused-by-the-SDK"
  BY ValueFacts DEF File, Absent
<1>5. /\ e.AZURE_STORAGE_CONNECTION_STRING_FILE = "refused-by-the-SDK" => connection
      /\ e.AZURE_STORAGE_ACCOUNT_KEY_FILE = "refused-by-the-SDK" => key
  BY DEF Given, Absent, Empty
<1>6. ~GivenAny(e, {"AZURE_STORAGE_ACCOUNT", "AZURE_STORAGE_CONNECTION_STRING_FILE"})
        <=> ~account /\ ~connection
  BY DEF GivenAny
<1>12. LeftToTheSDK(e) <=> ~connection /\ ~key /\ ~sas
  BY DEF LeftToTheSDK, GivenAny, providerFiles, AccountFiles
<1>7. azureRefuses(cfg, host) <=>
        \/ cfg.credentials.mode = "ambient" /\ ~host
        \/ "refused-by-the-SDK" \in Contents(cfg)
        \/ cfg.credentials.mode # "connection-string-file" /\ ~Holds(cfg, "AZURE_STORAGE_ACCOUNT")
  <2> HIDE DEF cfg
  <2> QED
    BY <1>1 DEF azureRefuses
<1> HIDE DEF cfg
<1>8. CASE connection
  <2>1. cfg.credentials =
          [mode |-> "connection-string-file",
           from |-> Restrict(e, {v \in {"AZURE_STORAGE_CONNECTION_STRING_FILE"} : Given(e, v)})]
    BY <1>1, <1>8 DEF Credentials
  <2>2. /\ cfg.credentials.mode = "connection-string-file"
        /\ \A x : x \in Contents(cfg) <=> x = e.AZURE_STORAGE_CONNECTION_STRING_FILE
    BY <1>8, <2>1 DEF Contents, Restrict
  <2> QED
    BY <1>2, <1>5, <1>6, <1>7, <1>8, <1>12, <2>2 DEF cfg
<1>9. CASE ~connection /\ key
  <2>1. cfg.credentials =
          [mode |-> "account-key-file",
           from |-> Restrict(e, {v \in {"AZURE_STORAGE_ACCOUNT_KEY_FILE"}
                                         \cup {"AZURE_STORAGE_ACCOUNT"} : Given(e, v)})]
    BY <1>1, <1>9 DEF Credentials
  <2>2. /\ cfg.credentials.mode = "account-key-file"
        /\ Holds(cfg, "AZURE_STORAGE_ACCOUNT")
        /\ \A x : x \in Contents(cfg) <=>
                    x \in {e.AZURE_STORAGE_ACCOUNT_KEY_FILE, e.AZURE_STORAGE_ACCOUNT}
    BY <1>3, <1>9, <2>1 DEF Holds, Contents, Restrict
  <2> QED
    BY <1>3, <1>4, <1>5, <1>6, <1>7, <1>9, <1>12, <2>2 DEF cfg
<1>10. CASE ~connection /\ ~key /\ sas
  <2>1. cfg.credentials =
          [mode |-> "sas-token-file",
           from |-> Restrict(e, {v \in {"AZURE_STORAGE_SAS_TOKEN_FILE"}
                                         \cup {"AZURE_STORAGE_ACCOUNT"} : Given(e, v)})]
    BY <1>1, <1>10 DEF Credentials
  <2>2. /\ cfg.credentials.mode = "sas-token-file"
        /\ Holds(cfg, "AZURE_STORAGE_ACCOUNT")
        /\ \A x : x \in Contents(cfg) <=>
                    x \in {e.AZURE_STORAGE_SAS_TOKEN_FILE, e.AZURE_STORAGE_ACCOUNT}
    BY <1>3, <1>10, <2>1 DEF Holds, Contents, Restrict
  <2> QED
    BY <1>3, <1>4, <1>5, <1>6, <1>7, <1>10, <1>12, <2>2 DEF cfg
<1>11. CASE ~connection /\ ~key /\ ~sas
  <2>1. cfg.credentials =
          [mode |-> "ambient",
           from |-> Restrict(e, {v \in {} \cup {"AZURE_STORAGE_ACCOUNT"} : Given(e, v)})]
    BY <1>1, <1>11 DEF Credentials
  <2>2. /\ cfg.credentials.mode = "ambient"
        /\ Holds(cfg, "AZURE_STORAGE_ACCOUNT") <=> account
        /\ \A x : x \in Contents(cfg) => x = e.AZURE_STORAGE_ACCOUNT
    BY <2>1 DEF Holds, Contents, Restrict
  <2> QED
    BY <1>4, <1>5, <1>6, <1>7, <1>11, <1>12, <2>2 DEF cfg
<1> QED
  BY <1>8, <1>9, <1>10, <1>11

LEMMA GCSRefused ==
  ASSUME NEW e, Valued(e), Sane(e), e.PROVIDER = "gcs", NEW host \in BOOLEAN
  PROVE  gcsRefuses(Load(e), host) <=>
           \/ ~host /\ LeftToTheSDK(e)
           \/ e.GOOGLE_APPLICATION_CREDENTIALS = "refused-by-the-SDK"
<1> DEFINE cfg == Load(e)
           given == Given(e, "GOOGLE_APPLICATION_CREDENTIALS")
<1>1. cfg.timeout # "outside" /\ cfg.credentials = Credentials(e)
  BY LoadFields DEF Sane
<1>2. e.GOOGLE_APPLICATION_CREDENTIALS = "refused-by-the-SDK" => given
  BY DEF Given, Absent, Empty
<1>6. LeftToTheSDK(e) <=> ~given
  BY DEF LeftToTheSDK, GivenAny, providerFiles
<1>3. gcsRefuses(cfg, host) <=>
        \/ "refused-by-the-SDK" \in Contents(cfg)
        \/ cfg.credentials.mode = "ambient" /\ ~host
  <2> HIDE DEF cfg
  <2> QED
    BY <1>1 DEF gcsRefuses
<1> HIDE DEF cfg
<1>4. CASE given
  <2>1. cfg.credentials =
          [mode |-> "json-file",
           from |-> Restrict(e, {v \in {"GOOGLE_APPLICATION_CREDENTIALS"} : Given(e, v)})]
    BY <1>1, <1>4 DEF Credentials
  <2>2. /\ cfg.credentials.mode = "json-file"
        /\ \A x : x \in Contents(cfg) <=> x = e.GOOGLE_APPLICATION_CREDENTIALS
    BY <1>4, <2>1 DEF Contents, Restrict
  <2> QED
    BY <1>2, <1>3, <1>4, <1>6, <2>2 DEF cfg
<1>5. CASE ~given
  <2>1. cfg.credentials = [mode |-> "ambient", from |-> Restrict(e, {v \in {} : Given(e, v)})]
    BY <1>1, <1>5 DEF Credentials
  <2>2. cfg.credentials.mode = "ambient" /\ \A x : x \notin Contents(cfg)
    BY <2>1 DEF Contents, Restrict
  <2> QED
    BY <1>2, <1>3, <1>5, <1>6, <2>2 DEF cfg
<1> QED
  BY <1>4, <1>5

(* The sidecar's own constructors: the fingerprint, the identity and the   *)
(* token.                                                                  *)
LEMMA SidecarRefused ==
  ASSUME NEW e, Valued(e), Sane(e), Sidecar(e)
  PROVE  LET cfg == Load(e)
         IN  \/ cfg.servers \in {Absent, "two"}
             \/ newEvidenceEngineRefuses(cfg)
             \/ cfg.tokenFile # "token"
         <=>
             \/ \E v \in Variable : e[v] = "not-UTF-8"
             \/ e.DESTINATION_PATH \in {"s3-long-bucket", "s3-huge-prefix", "s3-long-prefix",
                                        "s3-escaped-control"}
             \/ e.ENDPOINT_URL = "port-only"
             \/ e.EVIDENCE_TOKEN_FILE = "not-a-token"
<1> DEFINE cfg == Load(e)
<1>1. /\ e.REPOSITORY_FORMAT = "barman-cloud" /\ e.PROVIDER = "s3"
      /\ e.BARMAN_SERVER_NAMES \in {"one", "one-twice", "not-UTF-8"}
      /\ validAbsolutePath(e.EVIDENCE_TOKEN_FILE)
      /\ ~invalidIdentity(e.CNPG_CLUSTER_NAMESPACE, TRUE)
      /\ ~invalidIdentity(e.CNPG_CLUSTER_UID, TRUE)
      /\ ~invalidIdentity(e.CNPG_CLUSTER_NAME, FALSE)
  BY SidecarPasses DEF Sane
<1>2. /\ e.EVIDENCE_TOKEN_FILE \in {"token", "not-a-token"}
      /\ e.CNPG_CLUSTER_NAMESPACE \in {"text", "not-UTF-8"}
      /\ e.CNPG_CLUSTER_UID \in {"text", "not-UTF-8"}
      /\ e.CNPG_CLUSTER_NAME \in {"text", "not-UTF-8", Absent}
  BY <1>1, ValueFacts DEF validAbsolutePath, invalidIdentity, Text
<1>3. /\ cfg.format = "barman-cloud" /\ cfg.destination = e.DESTINATION_PATH
      /\ cfg.endpoint = e.ENDPOINT_URL /\ e.ENDPOINT_URL # "not-an-origin"
      /\ cfg.servers = OneName(e.BARMAN_SERVER_NAMES) /\ cfg.tokenFile = e.EVIDENCE_TOKEN_FILE
      /\ cfg.cluster = <<e.CNPG_CLUSTER_NAMESPACE, e.CNPG_CLUSTER_UID, e.CNPG_CLUSTER_NAME>>
      /\ cfg.region = e.AWS_REGION /\ e.AWS_REGION # "invalid"
  BY <1>1, LoadFields, S3Passes DEF Sane
<1> HIDE DEF cfg
<1>4. /\ cfg.servers # "one" <=> e.BARMAN_SERVER_NAMES = "not-UTF-8"
      /\ cfg.servers \notin {Absent, "two"}
  BY <1>1, <1>3 DEF OneName, Absent
<1>5. identityRefuses(cfg) <=>
        "not-UTF-8" \in {e.CNPG_CLUSTER_NAMESPACE, e.CNPG_CLUSTER_UID, e.CNPG_CLUSTER_NAME}
  <2>1. /\ DOMAIN cfg.cluster = {1, 2, 3} /\ cfg.cluster[1] = e.CNPG_CLUSTER_NAMESPACE
        /\ cfg.cluster[2] = e.CNPG_CLUSTER_UID /\ cfg.cluster[3] = e.CNPG_CLUSTER_NAME
    BY <1>3
  <2> QED
    BY <1>2, <2>1 DEF identityRefuses, Absent
<1>6. canonicalS3Refuses(cfg) <=>
        \/ e.ENDPOINT_URL = "port-only"
        \/ e.AWS_REGION = "not-UTF-8"
        \/ e.DESTINATION_PATH \in {"s3-long-bucket", "s3-long-prefix", "s3-huge-prefix",
                                   "s3-escaped-control"}
        \/ e.BARMAN_SERVER_NAMES = "not-UTF-8"
  BY <1>3, <1>4 DEF canonicalS3Refuses
<1>7. (\E v \in Variable : e[v] = "not-UTF-8") <=>
           "not-UTF-8" \in {e.BARMAN_SERVER_NAMES, e.CNPG_CLUSTER_NAMESPACE, e.CNPG_CLUSTER_UID,
                            e.CNPG_CLUSTER_NAME, e.AWS_REGION}
  BY UTF8Facts
<1>8. cfg.tokenFile # "token" <=> e.EVIDENCE_TOKEN_FILE = "not-a-token"
  BY <1>2, <1>3
<1> QED
  BY <1>4, <1>5, <1>6, <1>7, <1>8 DEF newEvidenceEngineRefuses, cfg

LEMMA RefusedExactly ==
  ASSUME NEW e, Valued(e), Accepted(e), NEW host \in BOOLEAN
  PROVE  NewRefuses(Load(e), e, host) <=> RefusedLate(e, host)
<1> DEFINE cfg == Load(e)
           longBucket == e.DESTINATION_PATH \in {"s3-long-bucket", "s3-huge-prefix"}
           noAccount == ~GivenAny(e, {"AZURE_STORAGE_ACCOUNT", "AZURE_STORAGE_CONNECTION_STRING_FILE"})
           sdk == \E v \in Variable : e[v] = "refused-by-the-SDK"
           notUTF8 == \E v \in Variable : e[v] = "not-UTF-8"
           longToken == e.AWS_WEB_IDENTITY_TOKEN_FILE = "absolute-and-long"
           noRole == Given(e, "AWS_WEB_IDENTITY_TOKEN_FILE") /\ ~Given(e, "AWS_ROLE_ARN")
           left == LeftToTheSDK(e)
           alone == \/ cfg.servers \in {Absent, "two"}
                    \/ newEvidenceEngineRefuses(cfg)
                    \/ cfg.tokenFile # "token"
<1>1. Sane(e)
  BY AcceptedIsSane
<1>2. e.PROVIDER \in {"s3", "azure", "gcs"} /\ e.REPOSITORY_FORMAT \in {"barman-cloud", "pgbackrest"}
  BY <1>1, ValueFacts DEF Sane
<1>3. /\ (cfg.sidecar <=> Sidecar(e)) /\ cfg.format = e.REPOSITORY_FORMAT
      /\ cfg.provider = e.PROVIDER /\ cfg.walPageSize = e.WAL_PAGE_SIZE
      /\ "outside" \notin {cfg.interval, cfg.maxObjects, cfg.walPageSize}
  BY <1>1, LoadFields DEF Sane
<1>4. "too-many" \notin {cfg.servers, cfg.stanzas}
  BY <1>1, LoadFields DEF Sane, OneName
<1>5. NewRefuses(cfg, e, host) <=>
        defaultReaderFactoryRefuses(cfg, e, host) \/ (Sidecar(e) /\ alone)
  <2> HIDE DEF cfg
  <2> QED
    BY <1>2, <1>3, <1>4 DEF NewRefuses, NewScannerRefuses
<1>6. Sidecar(e) => (alone <=> \/ notUTF8 \/ longBucket
                               \/ e.DESTINATION_PATH \in {"s3-long-prefix", "s3-escaped-control"}
                               \/ e.ENDPOINT_URL = "port-only"
                               \/ e.EVIDENCE_TOKEN_FILE = "not-a-token")
  BY <1>1, SidecarRefused
<1>7. RefusedLate(e, host) <=>
        \/ ~host /\ (e.PROVIDER = "s3" \/ left)
        \/ sdk
        \/ e.PROVIDER = "s3" /\ left /\ noRole
        \/ e.PROVIDER = "azure" /\ noAccount
        \/ longBucket
        \/ Sidecar(e) /\ \/ notUTF8
                         \/ e.DESTINATION_PATH \in {"s3-long-prefix", "s3-escaped-control"}
                         \/ e.ENDPOINT_URL = "port-only"
                         \/ e.EVIDENCE_TOKEN_FILE = "not-a-token"
                         \/ longToken
  BY DEF RefusedLate
<1>8. Sidecar(e) => e.PROVIDER = "s3"
  BY <1>1, SidecarPasses DEF Sane
<1>9. sdk <=> "refused-by-the-SDK" \in {e.AZURE_STORAGE_CONNECTION_STRING_FILE,
                                        e.AZURE_STORAGE_ACCOUNT_KEY_FILE,
                                        e.GOOGLE_APPLICATION_CREDENTIALS}
  BY SDKFacts
<1>10. /\ e.PROVIDER # "azure" => /\ e.AZURE_STORAGE_CONNECTION_STRING_FILE # "refused-by-the-SDK"
                                  /\ e.AZURE_STORAGE_ACCOUNT_KEY_FILE # "refused-by-the-SDK"
       /\ e.PROVIDER # "gcs" => e.GOOGLE_APPLICATION_CREDENTIALS # "refused-by-the-SDK"
  <2>1. /\ "GOOGLE_APPLICATION_CREDENTIALS" \in providerFiles["gcs"]
        /\ "AZURE_STORAGE_CONNECTION_STRING_FILE" \in providerFiles["azure"]
        /\ "AZURE_STORAGE_ACCOUNT_KEY_FILE" \in providerFiles["azure"]
    BY DEF providerFiles, AccountFiles
  <2> QED
    BY <1>1, <2>1 DEF Sane, Given, Absent, Empty
<1>11. e.PROVIDER # "s3" => ~longBucket
  <2>1. e.PROVIDER # "s3" => e.DESTINATION_PATH \in {"azure", "gs"}
    BY <1>1, <1>2 DEF Sane, Scheme
  <2> QED
    BY <2>1
<1>12. CASE e.PROVIDER = "s3"
  <2>1. defaultReaderFactoryRefuses(cfg, e, host) <=> s3Refuses(cfg, e, host)
    BY <1>3, <1>12 DEF defaultReaderFactoryRefuses
  <2>2. s3Refuses(cfg, e, host) <=>
          ~host \/ (left /\ noRole) \/ longBucket \/ (Sidecar(e) /\ longToken)
    BY <1>1, <1>12, S3Refused
  <2>3. ~sdk
    BY <1>9, <1>10, <1>12
  <2> HIDE DEF cfg, longBucket, sdk, notUTF8, longToken, alone, noAccount, noRole, left
  <2>4. NewRefuses(cfg, e, host) <=> RefusedLate(e, host)
    BY <1>5, <1>6, <1>7, <1>12, <2>1, <2>2, <2>3
  <2> QED
    BY <2>4 DEF cfg
<1>13. CASE e.PROVIDER = "azure"
  <2>1. defaultReaderFactoryRefuses(cfg, e, host) <=> azureRefuses(cfg, host)
    BY <1>3, <1>13 DEF defaultReaderFactoryRefuses
  <2>2. azureRefuses(cfg, host) <=> (~host /\ left) \/ noAccount \/ sdk
    BY <1>1, <1>9, <1>10, <1>13, AzureRefused
  <2>3. ~Sidecar(e) /\ ~longBucket
    BY <1>8, <1>11, <1>13
  <2> HIDE DEF cfg, longBucket, sdk, notUTF8, longToken, alone, noAccount, noRole, left
  <2>4. NewRefuses(cfg, e, host) <=> RefusedLate(e, host)
    BY <1>5, <1>7, <1>13, <2>1, <2>2, <2>3
  <2> QED
    BY <2>4 DEF cfg
<1>14. CASE e.PROVIDER = "gcs"
  <2>1. defaultReaderFactoryRefuses(cfg, e, host) <=> gcsRefuses(cfg, host)
    BY <1>3, <1>14 DEF defaultReaderFactoryRefuses
  <2>2. gcsRefuses(cfg, host) <=> (~host /\ left) \/ sdk
    BY <1>1, <1>9, <1>10, <1>14, GCSRefused
  <2>3. ~Sidecar(e) /\ ~longBucket
    BY <1>8, <1>11, <1>14
  <2> HIDE DEF cfg, longBucket, sdk, notUTF8, longToken, alone, noAccount, noRole, left
  <2>4. NewRefuses(cfg, e, host) <=> RefusedLate(e, host)
    BY <1>5, <1>7, <1>14, <2>1, <2>2, <2>3
  <2> QED
    BY <2>4 DEF cfg
<1> QED
  BY <1>2, <1>12, <1>13, <1>14

(* For every environment, of all the combinations of the values of the 38  *)
(* variables: once Load accepts it, the constructors of the store, the     *)
(* engine and the scanner refuse it in exactly the cases RefusedLate       *)
(* names.                                                                  *)
THEOREM AcceptedStarts == Spec => []AcceptedConfigurationStarts
<1> DEFINE Inv == /\ pc \in {"loading", "building"} => Valued(env)
                  /\ pc = "building" => Accepted(env)
<1>1. Init => Inv
  BY StartupConstants DEF Init, Valued
<1>2. Inv /\ [Next]_vars => Inv'
  <2> SUFFICES ASSUME Inv, [Next]_vars PROVE Inv'
    OBVIOUS
  <2>1. CASE LoadOS
    <3>1. pc = "loading" /\ env' = env /\ (pc' = "building" => Accepted(env))
      BY <2>1 DEF LoadOS, Exit
    <3> QED
      BY <3>1
  <2>2. CASE New \/ ListenFails \/ Serve
    BY <2>2 DEF New, ListenFails, Serve, Exit
  <2>3. CASE Run \/ UNCHANGED vars
    <3>1. pc' = pc /\ env' = env
      BY <2>3 DEF Run, startupVars, vars
    <3> QED
      BY <3>1
  <2> QED
    BY <2>1, <2>2, <2>3 DEF Next
<1>3. Inv => AcceptedConfigurationStarts
  BY RefusedExactly DEF AcceptedConfigurationStarts
<1> QED
  BY <1>1, <1>2, <1>3, PTL DEF Spec

-----------------------------------------------------------------------------
(* Which settings take effect *)

(* e and w are environments, w is e without the setting v. *)
Without(e, v, w) ==
  /\ Valued(e) /\ Valued(w) /\ v \in Variable
  /\ w[v] = Absent
  /\ \A u \in Variable \ {v} : w[u] = e[u]

LEMMA WithoutIt ==
  ASSUME NEW e, DOMAIN e = Variable, Valued(e), NEW v \in Variable
  PROVE  Without(e, v, [e EXCEPT ![v] = Absent])
BY DEF Without, Valued

LEMMA GivenWithout ==
  ASSUME NEW e, NEW w, NEW v, Without(e, v, w)
  PROVE  /\ ~Given(w, v)
         /\ \A u \in Variable \ {v} : Given(w, u) <=> Given(e, u)
         /\ \A u \in Variable : Given(w, u) => Given(e, u)
BY DEF Without, Given

LEMMA TheVariablesOnly ==
  ASSUME NEW v \in Variable
  PROVE  v \in {"RUNTIME_MODE", "REPOSITORY_FORMAT", "PROVIDER", "DESTINATION_PATH",
                "ENDPOINT_URL", "ENDPOINT_CA_FILE", "LISTEN_ADDR", "TRUSTED_USER_HEADER",
                "ALLOW_DOWNLOAD", "CATALOG_REFRESH_INTERVAL", "STORE_REQUEST_TIMEOUT",
                "SCAN_CONCURRENCY", "MAX_OBJECTS_PER_SCAN", "WAL_PAGE_SIZE",
                "EXPECTED_RETENTION_POLICY", "EXPECTED_MINIMUM_REDUNDANCY",
                "BARMAN_SERVER_NAMES", "PGBACKREST_STANZAS", "PGBACKREST_CIPHER_PASS_FILE",
                "EVIDENCE_TOKEN_FILE", "CNPG_CLUSTER_NAMESPACE", "CNPG_CLUSTER_UID",
                "CNPG_CLUSTER_NAME", "STORE_CREDENTIAL_MODE"}
               \cup DirectCredentials \cup StaticFiles \cup WebIdentity \cup AccountFiles
               \cup {"AWS_REGION", "AZURE_STORAGE_CONNECTION_STRING_FILE",
                     "AZURE_STORAGE_ACCOUNT", "GOOGLE_APPLICATION_CREDENTIALS"}
BY DEF Variable, Values, DirectCredentials, StaticFiles, WebIdentity, AccountFiles

(* The parts of the wiring a setting can reach. *)
LEMMA WiringTells ==
  ASSUME NEW e, NEW w, Wiring(w) = Wiring(e)
  PROVE  /\ w.STORE_REQUEST_TIMEOUT = e.STORE_REQUEST_TIMEOUT
         /\ w.ENDPOINT_URL = e.ENDPOINT_URL
         /\ w.ENDPOINT_CA_FILE = e.ENDPOINT_CA_FILE
         /\ w.PROVIDER = "s3" /\ e.PROVIDER = "s3" => w.AWS_REGION = e.AWS_REGION
         /\ Credentials(w) = Credentials(e)
         /\ w.CATALOG_REFRESH_INTERVAL = e.CATALOG_REFRESH_INTERVAL
         /\ w.MAX_OBJECTS_PER_SCAN = e.MAX_OBJECTS_PER_SCAN
         /\ w.REPOSITORY_FORMAT = "pgbackrest" /\ e.REPOSITORY_FORMAT = "pgbackrest" =>
              OneName(w.PGBACKREST_STANZAS) = OneName(e.PGBACKREST_STANZAS)
         /\ w.REPOSITORY_FORMAT = "barman-cloud" /\ e.REPOSITORY_FORMAT = "barman-cloud" =>
              /\ OneName(w.BARMAN_SERVER_NAMES) = OneName(e.BARMAN_SERVER_NAMES)
              /\ w.EXPECTED_RETENTION_POLICY = e.EXPECTED_RETENTION_POLICY
              /\ w.EXPECTED_MINIMUM_REDUNDANCY = e.EXPECTED_MINIMUM_REDUNDANCY
         /\ w.WAL_PAGE_SIZE = "least" <=> e.WAL_PAGE_SIZE = "least"
         /\ Sidecar(w) /\ Sidecar(e) => w.CNPG_CLUSTER_NAME = e.CNPG_CLUSTER_NAME
         /\ ~Sidecar(w) /\ ~Sidecar(e) =>
              /\ Load(w).listenAddr = Load(e).listenAddr
              /\ w.TRUSTED_USER_HEADER = e.TRUSTED_USER_HEADER
              /\ w.WAL_PAGE_SIZE = e.WAL_PAGE_SIZE
         /\ /\ w.PROVIDER = "s3" /\ Credentials(w).mode = "ambient"
            /\ e.PROVIDER = "s3" /\ Credentials(e).mode = "ambient"
            => Restrict(w, WebIdentity) = Restrict(e, WebIdentity)
<1> DEFINE a == Load(w)
           b == Load(e)
<1>1. /\ a.timeout = w.STORE_REQUEST_TIMEOUT /\ a.endpoint = w.ENDPOINT_URL
      /\ a.caBundle = w.ENDPOINT_CA_FILE
      /\ w.PROVIDER = "s3" => a.region = w.AWS_REGION
      /\ a.credentials = Credentials(w) /\ a.interval = w.CATALOG_REFRESH_INTERVAL
      /\ a.maxObjects = w.MAX_OBJECTS_PER_SCAN /\ a.stanzas = OneName(w.PGBACKREST_STANZAS)
      /\ a.servers = OneName(w.BARMAN_SERVER_NAMES) /\ a.walPageSize = w.WAL_PAGE_SIZE
      /\ a.retention = <<w.EXPECTED_RETENTION_POLICY, w.EXPECTED_MINIMUM_REDUNDANCY>>
      /\ a.cluster = <<w.CNPG_CLUSTER_NAMESPACE, w.CNPG_CLUSTER_UID, w.CNPG_CLUSTER_NAME>>
      /\ a.userHeader = w.TRUSTED_USER_HEADER /\ a.format = w.REPOSITORY_FORMAT
      /\ a.provider = w.PROVIDER /\ a.sidecar = Sidecar(w)
  BY DEF Load
<1>2. /\ b.timeout = e.STORE_REQUEST_TIMEOUT /\ b.endpoint = e.ENDPOINT_URL
      /\ b.caBundle = e.ENDPOINT_CA_FILE
      /\ e.PROVIDER = "s3" => b.region = e.AWS_REGION
      /\ b.credentials = Credentials(e) /\ b.interval = e.CATALOG_REFRESH_INTERVAL
      /\ b.maxObjects = e.MAX_OBJECTS_PER_SCAN /\ b.stanzas = OneName(e.PGBACKREST_STANZAS)
      /\ b.servers = OneName(e.BARMAN_SERVER_NAMES) /\ b.walPageSize = e.WAL_PAGE_SIZE
      /\ b.retention = <<e.EXPECTED_RETENTION_POLICY, e.EXPECTED_MINIMUM_REDUNDANCY>>
      /\ b.cluster = <<e.CNPG_CLUSTER_NAMESPACE, e.CNPG_CLUSTER_UID, e.CNPG_CLUSTER_NAME>>
      /\ b.userHeader = e.TRUSTED_USER_HEADER /\ b.format = e.REPOSITORY_FORMAT
      /\ b.provider = e.PROVIDER /\ b.sidecar = Sidecar(e)
  BY DEF Load
<1> HIDE DEF a, b
<1>3. /\ Wiring(w).reader = Wiring(e).reader /\ Wiring(w).sdk = Wiring(e).sdk
      /\ Wiring(w).ready = Wiring(e).ready /\ Wiring(w).scanner = Wiring(e).scanner
      /\ Wiring(w).evidence = Wiring(e).evidence /\ Wiring(w).web = Wiring(e).web
  OBVIOUS
<1>4. /\ Wiring(w).reader = <<a.provider, a.destination, a.timeout, a.endpoint, a.caBundle,
                              a.region, a.credentials>>
      /\ Wiring(e).reader = <<b.provider, b.destination, b.timeout, b.endpoint, b.caBundle,
                              b.region, b.credentials>>
  BY DEF Wiring, a, b
<1>5. /\ Wiring(w).ready = <<a.interval, a.timeout>>
      /\ Wiring(e).ready = <<b.interval, b.timeout>>
  BY DEF Wiring, a, b
<1>6. /\ Wiring(w).scanner =
           <<a.format, IF a.format = "pgbackrest" THEN a.stanzas ELSE a.servers, a.interval,
             a.maxObjects, IF a.walPageSize = "least" THEN "least" ELSE "MaxRecentObjects",
             IF a.format = "barman-cloud" THEN a.retention ELSE <<>> >>
      /\ Wiring(e).scanner =
           <<b.format, IF b.format = "pgbackrest" THEN b.stanzas ELSE b.servers, b.interval,
             b.maxObjects, IF b.walPageSize = "least" THEN "least" ELSE "MaxRecentObjects",
             IF b.format = "barman-cloud" THEN b.retention ELSE <<>> >>
  BY DEF Wiring, a, b
<1>7. /\ a.sidecar => Wiring(w).evidence = <<a.endpoint, a.region, a.destination, a.servers,
                                             a.cluster, a.tokenFile>>
      /\ b.sidecar => Wiring(e).evidence = <<b.endpoint, b.region, b.destination, b.servers,
                                             b.cluster, b.tokenFile>>
  BY DEF Wiring, a, b
<1>8. /\ ~a.sidecar => Wiring(w).web = <<a.listenAddr, a.userHeader, a.walPageSize>>
      /\ ~b.sidecar => Wiring(e).web = <<b.listenAddr, b.userHeader, b.walPageSize>>
  BY DEF Wiring, a, b
<1>9. /\ a.provider = "s3" /\ a.credentials.mode = "ambient" =>
           Wiring(w).sdk = Restrict(w, WebIdentity)
      /\ b.provider = "s3" /\ b.credentials.mode = "ambient" =>
           Wiring(e).sdk = Restrict(e, WebIdentity)
  BY DEF Wiring, a, b
<1>10. /\ a.timeout = b.timeout /\ a.endpoint = b.endpoint /\ a.caBundle = b.caBundle
       /\ a.region = b.region /\ a.credentials = b.credentials
  BY <1>3, <1>4
<1>11. a.interval = b.interval
  BY <1>3, <1>5
<1>12. /\ a.maxObjects = b.maxObjects
       /\ a.format = "pgbackrest" /\ b.format = "pgbackrest" => a.stanzas = b.stanzas
       /\ a.format = "barman-cloud" /\ b.format = "barman-cloud" =>
            a.servers = b.servers /\ a.retention = b.retention
       /\ a.walPageSize = "least" <=> b.walPageSize = "least"
  BY <1>3, <1>6
<1>13. a.sidecar /\ b.sidecar => a.cluster = b.cluster
  BY <1>3, <1>7
<1>14. ~a.sidecar /\ ~b.sidecar =>
         a.listenAddr = b.listenAddr /\ a.userHeader = b.userHeader /\ a.walPageSize = b.walPageSize
  BY <1>3, <1>8
<1>15. /\ w.STORE_REQUEST_TIMEOUT = e.STORE_REQUEST_TIMEOUT
       /\ w.ENDPOINT_URL = e.ENDPOINT_URL
       /\ w.ENDPOINT_CA_FILE = e.ENDPOINT_CA_FILE
       /\ Credentials(w) = Credentials(e)
       /\ w.CATALOG_REFRESH_INTERVAL = e.CATALOG_REFRESH_INTERVAL
       /\ w.MAX_OBJECTS_PER_SCAN = e.MAX_OBJECTS_PER_SCAN
  BY <1>1, <1>2, <1>10, <1>11, <1>12
<1>20. w.PROVIDER = "s3" /\ e.PROVIDER = "s3" => w.AWS_REGION = e.AWS_REGION
  BY <1>1, <1>2, <1>10
<1>21. w.WAL_PAGE_SIZE = "least" <=> e.WAL_PAGE_SIZE = "least"
  BY <1>1, <1>2, <1>12
<1>16. /\ w.REPOSITORY_FORMAT = "pgbackrest" /\ e.REPOSITORY_FORMAT = "pgbackrest" =>
              OneName(w.PGBACKREST_STANZAS) = OneName(e.PGBACKREST_STANZAS)
       /\ w.REPOSITORY_FORMAT = "barman-cloud" /\ e.REPOSITORY_FORMAT = "barman-cloud" =>
              /\ OneName(w.BARMAN_SERVER_NAMES) = OneName(e.BARMAN_SERVER_NAMES)
              /\ w.EXPECTED_RETENTION_POLICY = e.EXPECTED_RETENTION_POLICY
              /\ w.EXPECTED_MINIMUM_REDUNDANCY = e.EXPECTED_MINIMUM_REDUNDANCY
  BY <1>1, <1>2, <1>12
<1>17. Sidecar(w) /\ Sidecar(e) => w.CNPG_CLUSTER_NAME = e.CNPG_CLUSTER_NAME
  BY <1>1, <1>2, <1>13
<1>18. ~Sidecar(w) /\ ~Sidecar(e) =>
         /\ a.listenAddr = b.listenAddr
         /\ w.TRUSTED_USER_HEADER = e.TRUSTED_USER_HEADER
         /\ w.WAL_PAGE_SIZE = e.WAL_PAGE_SIZE
  BY <1>1, <1>2, <1>14
<1>19. /\ w.PROVIDER = "s3" /\ Credentials(w).mode = "ambient"
       /\ e.PROVIDER = "s3" /\ Credentials(e).mode = "ambient"
       => Restrict(w, WebIdentity) = Restrict(e, WebIdentity)
  BY <1>1, <1>2, <1>3, <1>9
<1> QED
  BY <1>15, <1>16, <1>17, <1>18, <1>19, <1>20, <1>21 DEF a, b

-----------------------------------------------------------------------------
(* Settings the program cannot do without *)

LEMMA Required ==
  ASSUME NEW e, NEW w, NEW v, Without(e, v, w), Sane(e), Given(e, v),
         v \in {"RUNTIME_MODE", "REPOSITORY_FORMAT", "PROVIDER", "DESTINATION_PATH",
                "EVIDENCE_TOKEN_FILE", "CNPG_CLUSTER_NAMESPACE", "CNPG_CLUSTER_UID",
                "STORE_CREDENTIAL_MODE", "AWS_ACCESS_KEY_ID_FILE", "AWS_SECRET_ACCESS_KEY_FILE"}
  PROVE  ~Sane(w)
<1>1. /\ w[v] = Absent /\ \A u \in Variable \ {v} : w[u] = e[u]
      /\ \A u \in Variable \ {v} : Given(w, u) <=> Given(e, u)
      /\ ~Given(w, v)
  BY GivenWithout DEF Without
<1>2. SUFFICES ASSUME Sane(w) PROVE FALSE
  OBVIOUS
<1>3. Valued(e) /\ Valued(w)
  BY DEF Without
<1>4. v \notin {"REPOSITORY_FORMAT", "PROVIDER", "DESTINATION_PATH"}
  BY <1>1, <1>2 DEF Sane
<1>5. ASSUME v # "RUNTIME_MODE" PROVE Sidecar(w) <=> Sidecar(e)
  BY <1>1, <1>5, TheVariables DEF Sidecar
<1>6. v # "RUNTIME_MODE"
  <2>1. SUFFICES ASSUME v = "RUNTIME_MODE" PROVE FALSE
    OBVIOUS
  <2>2. e.RUNTIME_MODE \in {"pgconsole-sidecar", "other", Absent}
    BY <1>3, TheVariables DEF Valued, Values
  <2>3. Sidecar(e)
    BY <2>1, <2>2 DEF Sane, Sidecar, Given
  <2>4. ~Sidecar(w)
    BY <1>1, <2>1 DEF Sidecar, Absent
  <2>5. validAbsolutePath(e.EVIDENCE_TOKEN_FILE)
    BY <2>3, SidecarPasses DEF Sane
  <2>6. ~Given(w, "EVIDENCE_TOKEN_FILE")
    BY <1>2, <2>4, StandalonePasses DEF Sane
  <2> QED
    BY <1>1, <2>1, <2>5, <2>6, TheVariables DEF Given, validAbsolutePath
<1>7. v \notin {"EVIDENCE_TOKEN_FILE", "CNPG_CLUSTER_NAMESPACE", "CNPG_CLUSTER_UID"}
  <2>1. SUFFICES ASSUME v \in {"EVIDENCE_TOKEN_FILE", "CNPG_CLUSTER_NAMESPACE", "CNPG_CLUSTER_UID"}
                 PROVE  FALSE
    OBVIOUS
  <2>2. Sidecar(e) /\ Sidecar(w)
    BY <1>5, <2>1, StandalonePasses DEF Sane
  <2>3. /\ validAbsolutePath(w.EVIDENCE_TOKEN_FILE)
        /\ ~invalidIdentity(w.CNPG_CLUSTER_NAMESPACE, TRUE)
        /\ ~invalidIdentity(w.CNPG_CLUSTER_UID, TRUE)
    BY <1>2, <2>2, SidecarPasses DEF Sane
  <2> QED
    BY <1>1, <2>1, <2>3 DEF validAbsolutePath, invalidIdentity
<1>8. v # "STORE_CREDENTIAL_MODE"
  <2>1. SUFFICES ASSUME v = "STORE_CREDENTIAL_MODE" PROVE FALSE
    OBVIOUS
  <2>2. Sidecar(e) /\ Sidecar(w)
    BY <1>5, <2>1, StandalonePasses DEF Sane
  <2>3. w.PROVIDER = "s3"
    BY <1>2, <2>2, SidecarPasses DEF Sane
  <2>4. w.STORE_CREDENTIAL_MODE \in {"static-files", "aws-web-identity"}
    BY <1>2, <1>3, <2>2, <2>3, S3Passes DEF Sane
  <2> QED
    BY <1>1, <2>1, <2>4 DEF Absent
<1>9. v \in {"AWS_ACCESS_KEY_ID_FILE", "AWS_SECRET_ACCESS_KEY_FILE"}
  BY <1>4, <1>6, <1>7, <1>8
<1>10. v \in providerFiles["s3"]
  BY <1>9 DEF providerFiles, StaticFiles
<1>11. e.PROVIDER = "s3"
  BY <1>10 DEF Sane
<1>12. w.PROVIDER = "s3"
  BY <1>1, <1>9, <1>11, TheVariables
<1>13. Given(e, "AWS_ACCESS_KEY_ID_FILE") <=> Given(e, "AWS_SECRET_ACCESS_KEY_FILE")
  BY <1>3, <1>11, S3Passes DEF Sane
<1>14. Given(w, "AWS_ACCESS_KEY_ID_FILE") <=> Given(w, "AWS_SECRET_ACCESS_KEY_FILE")
  BY <1>2, <1>3, <1>12, S3Passes DEF Sane
<1> QED
  BY <1>1, <1>9, <1>13, <1>14, TheVariables

-----------------------------------------------------------------------------
(* Settings that reach the program by themselves *)

LEMMA Wired ==
  ASSUME NEW e, NEW w, NEW v, Without(e, v, w), Sane(e), v \in SetBy(e),
         v \in {"ENDPOINT_URL", "ENDPOINT_CA_FILE", "LISTEN_ADDR", "TRUSTED_USER_HEADER",
                "CATALOG_REFRESH_INTERVAL", "STORE_REQUEST_TIMEOUT", "MAX_OBJECTS_PER_SCAN",
                "BARMAN_SERVER_NAMES", "PGBACKREST_STANZAS", "CNPG_CLUSTER_NAME"}
  PROVE  Wiring(w) # Wiring(e)
<1>1. /\ w[v] = Absent /\ \A u \in Variable \ {v} : w[u] = e[u]
      /\ e[v] # Absent
      /\ v # "TRUSTED_USER_HEADER" => e[v] # Empty
  BY DEF Without, SetBy, Given, Absent, Empty
<1>2. Valued(e)
  BY DEF Without
<1>3. (Sidecar(w) <=> Sidecar(e)) /\ w.REPOSITORY_FORMAT = e.REPOSITORY_FORMAT
  BY <1>1, TheVariables DEF Sidecar
<1>4. SUFFICES ASSUME Wiring(w) = Wiring(e) PROVE FALSE
  OBVIOUS
<1>5. v \notin {"ENDPOINT_URL", "ENDPOINT_CA_FILE", "CATALOG_REFRESH_INTERVAL",
                "STORE_REQUEST_TIMEOUT", "MAX_OBJECTS_PER_SCAN"}
  BY <1>1, <1>4, WiringTells
<1>6. v \notin {"LISTEN_ADDR", "TRUSTED_USER_HEADER"}
  <2>1. SUFFICES ASSUME v \in {"LISTEN_ADDR", "TRUSTED_USER_HEADER"} PROVE FALSE
    OBVIOUS
  <2>2. ~Sidecar(e)
    BY <1>1, <2>1 DEF Sane
  <2>3. Load(w).listenAddr = Load(e).listenAddr /\ w.TRUSTED_USER_HEADER = e.TRUSTED_USER_HEADER
    BY <1>3, <1>4, <2>2, WiringTells
  <2>4. v = "LISTEN_ADDR" => Load(w).listenAddr = w[v] /\ Load(e).listenAddr = e[v]
    BY <1>1 DEF Load, Absent, Empty
  <2> QED
    BY <1>1, <2>1, <2>3, <2>4
<1>7. v # "BARMAN_SERVER_NAMES"
  <2>1. SUFFICES ASSUME v = "BARMAN_SERVER_NAMES" PROVE FALSE
    OBVIOUS
  <2>2. e.REPOSITORY_FORMAT = "barman-cloud"
    BY <1>1, <2>1 DEF Sane, Given
  <2>3. OneName(w.BARMAN_SERVER_NAMES) = OneName(e.BARMAN_SERVER_NAMES)
    BY <1>3, <1>4, <2>2, WiringTells
  <2> QED
    BY <1>1, <2>1, <2>3 DEF OneName, Absent
<1>8. v # "PGBACKREST_STANZAS"
  <2>1. SUFFICES ASSUME v = "PGBACKREST_STANZAS" PROVE FALSE
    OBVIOUS
  <2>2. e.REPOSITORY_FORMAT \in {"barman-cloud", "pgbackrest", "other", Absent}
    BY <1>2, ValueFacts
  <2>3. e.REPOSITORY_FORMAT = "pgbackrest"
    BY <1>1, <2>1, <2>2 DEF Sane, Given
  <2>4. OneName(w.PGBACKREST_STANZAS) = OneName(e.PGBACKREST_STANZAS)
    BY <1>3, <1>4, <2>3, WiringTells
  <2> QED
    BY <1>1, <2>1, <2>4 DEF OneName, Absent
<1>9. v # "CNPG_CLUSTER_NAME"
  <2>1. SUFFICES ASSUME v = "CNPG_CLUSTER_NAME" PROVE FALSE
    OBVIOUS
  <2>2. Sidecar(e)
    <3>1. Given(e, "CNPG_CLUSTER_NAME")
      BY <1>1, <2>1 DEF Given
    <3> QED
      BY <3>1, StandalonePasses DEF Sane
  <2>3. w.CNPG_CLUSTER_NAME = e.CNPG_CLUSTER_NAME
    BY <1>3, <1>4, <2>2, WiringTells
  <2> QED
    BY <1>1, <2>1, <2>3
<1> QED
  BY <1>5, <1>6, <1>7, <1>8, <1>9

-----------------------------------------------------------------------------
(* Credential variables say which provider they belong to. *)
LEMMA ProviderOf ==
  ASSUME NEW e, Valued(e), Sane(e), NEW v, Given(e, v)
  PROVE  /\ v \in StaticFiles \cup WebIdentity => e.PROVIDER = "s3"
         /\ v \in AccountFiles \cup {"AZURE_STORAGE_CONNECTION_STRING_FILE"} => e.PROVIDER = "azure"
         /\ v = "GOOGLE_APPLICATION_CREDENTIALS" => e.PROVIDER = "gcs"
<1>1. /\ v \in StaticFiles \cup WebIdentity => v \in providerFiles["s3"]
      /\ v \in AccountFiles \cup {"AZURE_STORAGE_CONNECTION_STRING_FILE"} =>
           v \in providerFiles["azure"]
      /\ v = "GOOGLE_APPLICATION_CREDENTIALS" => v \in providerFiles["gcs"]
  BY DEF providerFiles
<1> QED
  BY <1>1 DEF Sane

(* What the credentials of each provider are made of. *)
Uses(e, mode, V) ==
  Credentials(e).mode = mode /\ DOMAIN Credentials(e).from = {v \in V : Given(e, v)}

WebMode(e) == Sidecar(e) /\ e.STORE_CREDENTIAL_MODE = "aws-web-identity"

LEMMA S3Credentials ==
  ASSUME NEW e, e.PROVIDER = "s3"
  PROVE  /\ WebMode(e) =>
              Uses(e, "aws-web-identity", WebIdentity)
         /\ ~WebMode(e) /\ Given(e, "AWS_ACCESS_KEY_ID_FILE") =>
              Uses(e, "static-files", StaticFiles)
         /\ ~WebMode(e) /\ ~Given(e, "AWS_ACCESS_KEY_ID_FILE") =>
              Uses(e, "ambient", {})
<1>1. ASSUME WebMode(e)
      PROVE  Uses(e, "aws-web-identity", WebIdentity)
  <2>1. Credentials(e) = [mode |-> "aws-web-identity",
                          from |-> Restrict(e, {v \in WebIdentity :
                                                  Given(e, v)})]
    BY <1>1 DEF Credentials, WebMode
  <2> QED
    BY <2>1 DEF Uses, Restrict
<1>2. ASSUME ~WebMode(e) /\ Given(e, "AWS_ACCESS_KEY_ID_FILE")
      PROVE  Uses(e, "static-files", StaticFiles)
  <2>1. Credentials(e) = [mode |-> "static-files",
                          from |-> Restrict(e, {v \in StaticFiles :
                                                  Given(e, v)})]
    BY <1>2 DEF Credentials, WebMode
  <2> QED
    BY <2>1 DEF Uses, Restrict
<1>3. ASSUME ~WebMode(e) /\ ~Given(e, "AWS_ACCESS_KEY_ID_FILE")
      PROVE  Uses(e, "ambient", {})
  <2>1. Credentials(e) = [mode |-> "ambient",
                          from |-> Restrict(e, {v \in {} :
                                                  Given(e, v)})]
    BY <1>3 DEF Credentials, WebMode
  <2> QED
    BY <2>1 DEF Uses, Restrict
<1> QED
  BY <1>1, <1>2, <1>3

LEMMA AzureCredentials ==
  ASSUME NEW e, e.PROVIDER = "azure"
  PROVE  /\ Given(e, "AZURE_STORAGE_CONNECTION_STRING_FILE") =>
              Uses(e, "connection-string-file", {"AZURE_STORAGE_CONNECTION_STRING_FILE"})
         /\ ~Given(e, "AZURE_STORAGE_CONNECTION_STRING_FILE")
            /\ Given(e, "AZURE_STORAGE_ACCOUNT_KEY_FILE") =>
              Uses(e, "account-key-file", {"AZURE_STORAGE_ACCOUNT_KEY_FILE"} \cup {"AZURE_STORAGE_ACCOUNT"})
         /\ ~Given(e, "AZURE_STORAGE_CONNECTION_STRING_FILE")
            /\ ~Given(e, "AZURE_STORAGE_ACCOUNT_KEY_FILE")
            /\ Given(e, "AZURE_STORAGE_SAS_TOKEN_FILE") =>
              Uses(e, "sas-token-file", {"AZURE_STORAGE_SAS_TOKEN_FILE"} \cup {"AZURE_STORAGE_ACCOUNT"})
         /\ ~Given(e, "AZURE_STORAGE_CONNECTION_STRING_FILE")
            /\ ~Given(e, "AZURE_STORAGE_ACCOUNT_KEY_FILE")
            /\ ~Given(e, "AZURE_STORAGE_SAS_TOKEN_FILE") =>
              Uses(e, "ambient", {} \cup {"AZURE_STORAGE_ACCOUNT"})
<1>1. ASSUME Given(e, "AZURE_STORAGE_CONNECTION_STRING_FILE")
      PROVE  Uses(e, "connection-string-file", {"AZURE_STORAGE_CONNECTION_STRING_FILE"})
  <2>1. Credentials(e) = [mode |-> "connection-string-file",
                          from |-> Restrict(e, {v \in {"AZURE_STORAGE_CONNECTION_STRING_FILE"} :
                                                  Given(e, v)})]
    BY <1>1 DEF Credentials, WebMode
  <2> QED
    BY <2>1 DEF Uses, Restrict
<1>2. ASSUME ~Given(e, "AZURE_STORAGE_CONNECTION_STRING_FILE")
             /\ Given(e, "AZURE_STORAGE_ACCOUNT_KEY_FILE")
      PROVE  Uses(e, "account-key-file", {"AZURE_STORAGE_ACCOUNT_KEY_FILE"} \cup {"AZURE_STORAGE_ACCOUNT"})
  <2>1. Credentials(e) = [mode |-> "account-key-file",
                          from |-> Restrict(e, {v \in {"AZURE_STORAGE_ACCOUNT_KEY_FILE"} \cup {"AZURE_STORAGE_ACCOUNT"} :
                                                  Given(e, v)})]
    BY <1>2 DEF Credentials, WebMode
  <2> QED
    BY <2>1 DEF Uses, Restrict
<1>3. ASSUME ~Given(e, "AZURE_STORAGE_CONNECTION_STRING_FILE")
             /\ ~Given(e, "AZURE_STORAGE_ACCOUNT_KEY_FILE")
             /\ Given(e, "AZURE_STORAGE_SAS_TOKEN_FILE")
      PROVE  Uses(e, "sas-token-file", {"AZURE_STORAGE_SAS_TOKEN_FILE"} \cup {"AZURE_STORAGE_ACCOUNT"})
  <2>1. Credentials(e) = [mode |-> "sas-token-file",
                          from |-> Restrict(e, {v \in {"AZURE_STORAGE_SAS_TOKEN_FILE"} \cup {"AZURE_STORAGE_ACCOUNT"} :
                                                  Given(e, v)})]
    BY <1>3 DEF Credentials, WebMode
  <2> QED
    BY <2>1 DEF Uses, Restrict
<1>4. ASSUME ~Given(e, "AZURE_STORAGE_CONNECTION_STRING_FILE")
             /\ ~Given(e, "AZURE_STORAGE_ACCOUNT_KEY_FILE")
             /\ ~Given(e, "AZURE_STORAGE_SAS_TOKEN_FILE")
      PROVE  Uses(e, "ambient", {} \cup {"AZURE_STORAGE_ACCOUNT"})
  <2>1. Credentials(e) = [mode |-> "ambient",
                          from |-> Restrict(e, {v \in {} \cup {"AZURE_STORAGE_ACCOUNT"} :
                                                  Given(e, v)})]
    BY <1>4 DEF Credentials, WebMode
  <2> QED
    BY <2>1 DEF Uses, Restrict
<1> QED
  BY <1>1, <1>2, <1>3, <1>4

LEMMA GCSCredentials ==
  ASSUME NEW e, e.PROVIDER \notin {"s3", "azure"}
  PROVE  /\ Given(e, "GOOGLE_APPLICATION_CREDENTIALS") =>
              Uses(e, "json-file", {"GOOGLE_APPLICATION_CREDENTIALS"})
         /\ ~Given(e, "GOOGLE_APPLICATION_CREDENTIALS") =>
              Uses(e, "ambient", {})
<1>1. ASSUME Given(e, "GOOGLE_APPLICATION_CREDENTIALS")
      PROVE  Uses(e, "json-file", {"GOOGLE_APPLICATION_CREDENTIALS"})
  <2>1. Credentials(e) = [mode |-> "json-file",
                          from |-> Restrict(e, {v \in {"GOOGLE_APPLICATION_CREDENTIALS"} :
                                                  Given(e, v)})]
    BY <1>1 DEF Credentials, WebMode
  <2> QED
    BY <2>1 DEF Uses, Restrict
<1>2. ASSUME ~Given(e, "GOOGLE_APPLICATION_CREDENTIALS")
      PROVE  Uses(e, "ambient", {})
  <2>1. Credentials(e) = [mode |-> "ambient",
                          from |-> Restrict(e, {v \in {} :
                                                  Given(e, v)})]
    BY <1>2 DEF Credentials, WebMode
  <2> QED
    BY <2>1 DEF Uses, Restrict
<1> QED
  BY <1>1, <1>2

(* Settings the credentials or the region show. *)
LEMMA CredentialTold ==
  ASSUME NEW e, NEW w, NEW v, Without(e, v, w), Sane(e), Given(e, v),
         v \in {"AWS_SESSION_TOKEN_FILE", "AZURE_STORAGE_CONNECTION_STRING_FILE",
                "GOOGLE_APPLICATION_CREDENTIALS"} \cup AccountFiles
  PROVE  Wiring(w) # Wiring(e)
<1>1. /\ ~Given(w, v) /\ v \in Variable
      /\ \A u \in Variable \ {v} : w[u] = e[u]
      /\ \A u \in Variable \ {v} : Given(w, u) <=> Given(e, u)
  BY GivenWithout DEF Without
<1>2. Valued(e)
  BY DEF Without
<1>3. w.PROVIDER = e.PROVIDER
  BY <1>1, TheVariables DEF AccountFiles
<1>4. SUFFICES ASSUME Credentials(w) = Credentials(e) PROVE FALSE
  BY WiringTells
<1>5. v # "AWS_SESSION_TOKEN_FILE"
  <2>1. SUFFICES ASSUME v = "AWS_SESSION_TOKEN_FILE" PROVE FALSE
    OBVIOUS
  <2>2. e.PROVIDER = "s3"
    BY <1>2, <2>1, ProviderOf DEF StaticFiles
  <2>3. /\ Given(e, "AWS_ACCESS_KEY_ID_FILE")
        /\ ~WebMode(e)
    BY <1>2, <2>1, <2>2, S3Passes DEF Sane, GivenAny, StaticFiles, WebMode
  <2>4. /\ Given(w, "AWS_ACCESS_KEY_ID_FILE")
        /\ ~WebMode(w)
    BY <1>1, <2>1, <2>3, TheVariables DEF Sidecar, WebMode
  <2>5. DOMAIN Credentials(e).from = {u \in StaticFiles : Given(e, u)}
    BY <2>2, <2>3, S3Credentials DEF Uses
  <2>6. DOMAIN Credentials(w).from = {u \in StaticFiles : Given(w, u)}
    BY <1>3, <2>2, <2>4, S3Credentials DEF Uses
  <2> QED
    BY <1>1, <1>4, <2>1, <2>5, <2>6 DEF StaticFiles
<1>6. v # "GOOGLE_APPLICATION_CREDENTIALS"
  <2>1. SUFFICES ASSUME v = "GOOGLE_APPLICATION_CREDENTIALS" PROVE FALSE
    OBVIOUS
  <2>2. e.PROVIDER = "gcs"
    BY <1>2, <2>1, ProviderOf
  <2>3. Credentials(e).mode = "json-file"
    BY <2>1, <2>2, GCSCredentials DEF Uses
  <2>4. Credentials(w).mode = "ambient"
    BY <1>1, <1>3, <2>1, <2>2, GCSCredentials DEF Uses
  <2> QED
    BY <1>4, <2>3, <2>4
<1>7. v \in AccountFiles \cup {"AZURE_STORAGE_CONNECTION_STRING_FILE"}
  BY <1>5, <1>6
<1>8. e.PROVIDER = "azure"
  BY <1>2, <1>7, ProviderOf
<1>9. /\ Given(e, "AZURE_STORAGE_CONNECTION_STRING_FILE") =>
           /\ ~Given(e, "AZURE_STORAGE_ACCOUNT_KEY_FILE")
           /\ ~Given(e, "AZURE_STORAGE_SAS_TOKEN_FILE")
      /\ ~(Given(e, "AZURE_STORAGE_ACCOUNT_KEY_FILE") /\ Given(e, "AZURE_STORAGE_SAS_TOKEN_FILE"))
  BY <1>8, AzurePasses DEF Sane, AccountFiles
<1>10. v # "AZURE_STORAGE_CONNECTION_STRING_FILE"
  <2>1. SUFFICES ASSUME v = "AZURE_STORAGE_CONNECTION_STRING_FILE" PROVE FALSE
    OBVIOUS
  <2>2. Credentials(e).mode = "connection-string-file"
    BY <1>8, <2>1, AzureCredentials DEF Uses
  <2>3. Credentials(w).mode # "connection-string-file"
    BY <1>1, <1>3, <1>8, <2>1, AzureCredentials DEF Uses
  <2> QED
    BY <1>4, <2>2, <2>3
<1>11. v # "AZURE_STORAGE_ACCOUNT_KEY_FILE"
  <2>1. SUFFICES ASSUME v = "AZURE_STORAGE_ACCOUNT_KEY_FILE" PROVE FALSE
    OBVIOUS
  <2>2. Credentials(e).mode = "account-key-file"
    BY <1>8, <1>9, <2>1, AzureCredentials DEF Uses
  <2>3. Credentials(w).mode # "account-key-file"
    BY <1>1, <1>3, <1>8, <2>1, AzureCredentials DEF Uses
  <2> QED
    BY <1>4, <2>2, <2>3
<1>12. v = "AZURE_STORAGE_SAS_TOKEN_FILE"
  BY <1>7, <1>10, <1>11 DEF AccountFiles
<1>13. Credentials(e).mode = "sas-token-file"
  BY <1>8, <1>9, <1>12, AzureCredentials DEF Uses
<1>14. Credentials(w).mode # "sas-token-file"
  BY <1>1, <1>3, <1>8, <1>12, AzureCredentials DEF Uses
<1> QED
  BY <1>4, <1>13, <1>14

(* An Azure account is used where the provider is Azure, a region where it *)
(* is S3.                                                                  *)
LEMMA AccountTold ==
  ASSUME NEW e, NEW w, NEW v, Without(e, v, w), Sane(e), Given(e, v),
         v = "AZURE_STORAGE_ACCOUNT", e.PROVIDER = "azure"
  PROVE  ~(Sane(w) /\ Wiring(w) = Wiring(e))
<1>1. /\ ~Given(w, v) /\ v \in Variable
      /\ \A u \in Variable \ {v} : w[u] = e[u]
      /\ \A u \in Variable \ {v} : Given(w, u) <=> Given(e, u)
  BY GivenWithout DEF Without
<1>2. SUFFICES ASSUME Sane(w), Credentials(w) = Credentials(e) PROVE FALSE
  BY WiringTells
<1>3. w.PROVIDER = "azure"
  BY <1>1, TheVariables
<1>4. ~Given(e, "AZURE_STORAGE_CONNECTION_STRING_FILE")
  BY AzurePasses DEF Sane
<1>5. \A u \in AccountFiles : ~Given(w, u)
  BY <1>1, <1>2, <1>3, AzurePasses DEF Sane
<1>6. /\ ~Given(w, "AZURE_STORAGE_ACCOUNT_KEY_FILE") /\ ~Given(w, "AZURE_STORAGE_SAS_TOKEN_FILE")
      /\ ~Given(e, "AZURE_STORAGE_ACCOUNT_KEY_FILE") /\ ~Given(e, "AZURE_STORAGE_SAS_TOKEN_FILE")
      /\ ~Given(w, "AZURE_STORAGE_CONNECTION_STRING_FILE")
  BY <1>1, <1>4, <1>5, TheVariables DEF AccountFiles
<1>7. DOMAIN Credentials(e).from = {u \in {} \cup {"AZURE_STORAGE_ACCOUNT"} : Given(e, u)}
  BY <1>4, <1>6, AzureCredentials DEF Uses
<1>8. DOMAIN Credentials(w).from = {u \in {} \cup {"AZURE_STORAGE_ACCOUNT"} : Given(w, u)}
  BY <1>3, <1>6, AzureCredentials DEF Uses
<1> QED
  BY <1>1, <1>2, <1>7, <1>8

(* The web identity is used unless an access key is given. *)
LEMMA WebIdentityTold ==
  ASSUME NEW e, NEW w, NEW v, Without(e, v, w), Sane(e), Given(e, v),
         v \in WebIdentity, ~Given(e, "AWS_ACCESS_KEY_ID_FILE")
  PROVE  ~(Sane(w) /\ Wiring(w) = Wiring(e))
<1>1. /\ ~Given(w, v) /\ v \in Variable /\ w[v] = Absent
      /\ \A u \in Variable \ {v} : w[u] = e[u]
      /\ \A u \in Variable \ {v} : Given(w, u) <=> Given(e, u)
  BY GivenWithout DEF Without
<1>2. Valued(e) /\ Valued(w)
  BY DEF Without
<1>3. SUFFICES ASSUME Sane(w), Wiring(w) = Wiring(e) PROVE FALSE
  OBVIOUS
<1>4. e.PROVIDER = "s3"
  BY <1>2, ProviderOf
<1>5. /\ w.PROVIDER = "s3" /\ (Sidecar(w) <=> Sidecar(e))
      /\ w.STORE_CREDENTIAL_MODE = e.STORE_CREDENTIAL_MODE
      /\ ~Given(w, "AWS_ACCESS_KEY_ID_FILE")
  BY <1>1, <1>4, TheVariables DEF WebIdentity, Sidecar
<1>6. ~Sidecar(e)
  <2>1. SUFFICES ASSUME Sidecar(e) PROVE FALSE
    OBVIOUS
  <2>2. e.STORE_CREDENTIAL_MODE = "aws-web-identity"
    BY <1>2, <1>4, <2>1, S3Passes DEF Sane
  <2>3. validAbsolutePath(w.AWS_WEB_IDENTITY_TOKEN_FILE) /\ w.AWS_ROLE_ARN = "role"
    BY <1>2, <1>3, <1>5, <2>1, <2>2, S3Passes DEF Sane
  <2> QED
    BY <1>1, <2>3 DEF WebIdentity, validAbsolutePath, Absent
<1>7. Credentials(e).mode = "ambient" /\ Credentials(w).mode = "ambient"
  BY <1>4, <1>5, <1>6, S3Credentials DEF Uses, WebMode
<1>8. Restrict(w, WebIdentity) = Restrict(e, WebIdentity)
  BY <1>3, <1>4, <1>5, <1>7, WiringTells
<1>9. w[v] = e[v]
  <2>1. Restrict(w, WebIdentity)[v] = w[v] /\ Restrict(e, WebIdentity)[v] = e[v]
    BY DEF Restrict
  <2> QED
    BY <1>8, <2>1
<1> QED
  BY <1>1, <1>9 DEF Given

-----------------------------------------------------------------------------
(* Settings nothing reads *)

LEMMA IdleUnused ==
  ASSUME NEW e, NEW w, NEW v, Without(e, v, w), Sane(e), Given(e, v), v \in Idle(e)
  PROVE  Sane(w) /\ Wiring(w) = Wiring(e)
<1> DEFINE Optional == {"SCAN_CONCURRENCY", "ALLOW_DOWNLOAD", "PGBACKREST_CIPHER_PASS_FILE",
                        "EXPECTED_RETENTION_POLICY", "EXPECTED_MINIMUM_REDUNDANCY",
                        "WAL_PAGE_SIZE", "AZURE_STORAGE_ACCOUNT", "AWS_REGION",
                        "AWS_WEB_IDENTITY_TOKEN_FILE", "AWS_ROLE_ARN"}
<1>1. /\ ~Given(w, v) /\ v \in Variable /\ w[v] = Absent
      /\ \A u \in Variable \ {v} : w[u] = e[u]
      /\ \A u \in Variable \ {v} : Given(w, u) <=> Given(e, u)
      /\ \A u \in Variable : Given(w, u) => Given(e, u)
  BY GivenWithout DEF Without
<1>2. Valued(e) /\ Valued(w)
  BY DEF Without
<1>3. /\ v \in Optional
      /\ v \in {"EXPECTED_RETENTION_POLICY", "EXPECTED_MINIMUM_REDUNDANCY"} =>
           e.REPOSITORY_FORMAT = "pgbackrest"
      /\ v = "WAL_PAGE_SIZE" => Sidecar(e) /\ e.WAL_PAGE_SIZE = "most"
      /\ v = "AZURE_STORAGE_ACCOUNT" => e.PROVIDER # "azure"
      /\ v = "AWS_REGION" => e.PROVIDER # "s3"
      /\ v \in WebIdentity => Given(e, "AWS_ACCESS_KEY_ID_FILE")
  BY DEF Idle, Unread, Ignored, WebIdentity
<1>4. v \in WebIdentity => e.PROVIDER = "s3" /\ ~WebMode(e) /\ ~Sidecar(e)
  <2>1. SUFFICES ASSUME v \in WebIdentity PROVE e.PROVIDER = "s3" /\ ~WebMode(e) /\ ~Sidecar(e)
    OBVIOUS
  <2>2. e.PROVIDER = "s3"
    BY <1>2, <2>1, ProviderOf
  <2>3. ~WebMode(e)
    BY <1>2, <1>3, <2>1, <2>2, S3Passes DEF Sane, GivenAny, StaticFiles, WebMode
  <2>4. ~Sidecar(e)
    BY <1>2, <2>1, <2>2, <2>3, S3Passes DEF Sane, GivenAny, WebMode
  <2> QED
    BY <2>2, <2>3, <2>4
<1>5. \A u \in Variable \ Optional : w[u] = e[u] /\ (Given(w, u) <=> Given(e, u))
  BY <1>1, <1>3
<1>6. /\ w.PROVIDER = e.PROVIDER /\ w.REPOSITORY_FORMAT = e.REPOSITORY_FORMAT
      /\ w.RUNTIME_MODE = e.RUNTIME_MODE /\ (Sidecar(w) <=> Sidecar(e))
      /\ w.STORE_CREDENTIAL_MODE = e.STORE_CREDENTIAL_MODE
  BY <1>5, TheVariables DEF Sidecar
<1>7. Passes(loadRuntimeConfig(w))
  <2>1. /\ w.BARMAN_SERVER_NAMES = e.BARMAN_SERVER_NAMES
        /\ w.EVIDENCE_TOKEN_FILE = e.EVIDENCE_TOKEN_FILE
        /\ w.CNPG_CLUSTER_NAMESPACE = e.CNPG_CLUSTER_NAMESPACE
        /\ w.CNPG_CLUSTER_UID = e.CNPG_CLUSTER_UID
        /\ w.CNPG_CLUSTER_NAME = e.CNPG_CLUSTER_NAME
    BY <1>5, TheVariables
  <2>2. Passes(loadRuntimeConfig(e))
    BY DEF Sane
  <2>3. CASE Sidecar(e)
    BY <1>6, <2>1, <2>2, <2>3, SidecarPasses
  <2>4. CASE ~Sidecar(e)
    BY <1>6, <2>1, <2>2, <2>4, StandalonePasses DEF Given
  <2> QED
    BY <2>3, <2>4
<1>8. /\ ~GivenAny(w, DirectCredentials)
      /\ \A p \in {"s3", "azure", "gcs"} \ {w.PROVIDER} :
           \A u \in providerFiles[p] : ~Given(w, u)
  <2>1. ~GivenAny(w, DirectCredentials)
    BY <1>5, TheVariables DEF Sane, GivenAny, DirectCredentials
  <2>2. \A p \in {"s3", "azure", "gcs"} : providerFiles[p] \in SUBSET Variable
    BY TheVariables DEF providerFiles, StaticFiles, WebIdentity, AccountFiles
  <2>3. \A p \in {"s3", "azure", "gcs"} \ {e.PROVIDER} : \A u \in providerFiles[p] : ~Given(e, u)
    BY DEF Sane
  <2>4. \A p \in {"s3", "azure", "gcs"} \ {w.PROVIDER} : \A u \in providerFiles[p] : ~Given(w, u)
    BY <1>1, <1>6, <2>2, <2>3
  <2> QED
    BY <2>1, <2>4
<1>9. e.PROVIDER = "s3" => Passes(loadS3Credentials(w))
  <2>1. SUFFICES ASSUME e.PROVIDER = "s3" PROVE Passes(loadS3Credentials(w))
    OBVIOUS
  <2>2. Passes(loadS3Credentials(e))
    BY <2>1 DEF Sane
  <2>3. /\ w.AWS_ACCESS_KEY_ID_FILE = e.AWS_ACCESS_KEY_ID_FILE
        /\ w.AWS_SECRET_ACCESS_KEY_FILE = e.AWS_SECRET_ACCESS_KEY_FILE
        /\ w.AWS_SESSION_TOKEN_FILE = e.AWS_SESSION_TOKEN_FILE
        /\ w.AWS_REGION = e.AWS_REGION
    BY <1>1, <1>3, <1>5, <2>1, TheVariables
  <2>4. \A u \in StaticFiles \cup {"AWS_REGION"} : Given(w, u) <=> Given(e, u)
    BY <2>3 DEF Given, StaticFiles
  <2>5. ~GivenAny(e, WebIdentity) => ~GivenAny(w, WebIdentity)
    BY <1>1, TheVariables DEF GivenAny, WebIdentity
  <2>6. ~GivenAny(e, StaticFiles) => ~GivenAny(w, StaticFiles)
    BY <2>4 DEF GivenAny
  <2>7. WebMode(e) => /\ w.AWS_WEB_IDENTITY_TOKEN_FILE = e.AWS_WEB_IDENTITY_TOKEN_FILE
                      /\ w.AWS_ROLE_ARN = e.AWS_ROLE_ARN
    BY <1>1, <1>4, TheVariables DEF WebIdentity
  <2>8. /\ Given(w, "AWS_ACCESS_KEY_ID_FILE") <=> Given(e, "AWS_ACCESS_KEY_ID_FILE")
        /\ Given(w, "AWS_SECRET_ACCESS_KEY_FILE") <=> Given(e, "AWS_SECRET_ACCESS_KEY_FILE")
        /\ Given(w, "AWS_SESSION_TOKEN_FILE") <=> Given(e, "AWS_SESSION_TOKEN_FILE")
        /\ Given(w, "AWS_REGION") <=> Given(e, "AWS_REGION")
    BY <2>4 DEF StaticFiles
  <2> QED
    BY <1>2, <1>6, <2>2, <2>3, <2>5, <2>6, <2>7, <2>8, S3Passes DEF WebMode
<1>10. e.PROVIDER = "azure" => Passes(loadAzureCredentials(w))
  <2>1. SUFFICES ASSUME e.PROVIDER = "azure" PROVE Passes(loadAzureCredentials(w))
    OBVIOUS
  <2>2. Passes(loadAzureCredentials(e))
    BY <2>1 DEF Sane
  <2>3. /\ w.AZURE_STORAGE_ACCOUNT = e.AZURE_STORAGE_ACCOUNT
        /\ w.AZURE_STORAGE_CONNECTION_STRING_FILE = e.AZURE_STORAGE_CONNECTION_STRING_FILE
        /\ w.AZURE_STORAGE_ACCOUNT_KEY_FILE = e.AZURE_STORAGE_ACCOUNT_KEY_FILE
        /\ w.AZURE_STORAGE_SAS_TOKEN_FILE = e.AZURE_STORAGE_SAS_TOKEN_FILE
    BY <1>1, <1>3, <1>5, <2>1, TheVariables
  <2>4. /\ \A u \in AccountFiles : Given(w, u) <=> Given(e, u)
        /\ Given(w, "AZURE_STORAGE_ACCOUNT") <=> Given(e, "AZURE_STORAGE_ACCOUNT")
        /\ Given(w, "AZURE_STORAGE_CONNECTION_STRING_FILE")
             <=> Given(e, "AZURE_STORAGE_CONNECTION_STRING_FILE")
        /\ Given(w, "AZURE_STORAGE_ACCOUNT_KEY_FILE") <=> Given(e, "AZURE_STORAGE_ACCOUNT_KEY_FILE")
        /\ Given(w, "AZURE_STORAGE_SAS_TOKEN_FILE") <=> Given(e, "AZURE_STORAGE_SAS_TOKEN_FILE")
    BY <2>3 DEF Given, AccountFiles
  <2> QED
    BY <2>2, <2>3, <2>4, AzurePasses
<1>11. e.PROVIDER \notin {"s3", "azure"} => Passes(loadGCSCredentials(w))
  <2>1. w.GOOGLE_APPLICATION_CREDENTIALS = e.GOOGLE_APPLICATION_CREDENTIALS
    BY <1>5, TheVariables
  <2>2. e.PROVIDER \notin {"s3", "azure"} => Passes(loadGCSCredentials(e))
    BY DEF Sane
  <2> QED
    BY <2>1, <2>2, GCSPasses
<1>12. /\ w.DESTINATION_PATH = e.DESTINATION_PATH /\ w.ENDPOINT_URL = e.ENDPOINT_URL
       /\ w.ENDPOINT_CA_FILE = e.ENDPOINT_CA_FILE /\ w.LISTEN_ADDR = e.LISTEN_ADDR
       /\ w.TRUSTED_USER_HEADER = e.TRUSTED_USER_HEADER
       /\ w.CATALOG_REFRESH_INTERVAL = e.CATALOG_REFRESH_INTERVAL
       /\ w.STORE_REQUEST_TIMEOUT = e.STORE_REQUEST_TIMEOUT
       /\ w.MAX_OBJECTS_PER_SCAN = e.MAX_OBJECTS_PER_SCAN
       /\ w.BARMAN_SERVER_NAMES = e.BARMAN_SERVER_NAMES
       /\ w.PGBACKREST_STANZAS = e.PGBACKREST_STANZAS
       /\ w.EVIDENCE_TOKEN_FILE = e.EVIDENCE_TOKEN_FILE
       /\ w.CNPG_CLUSTER_NAMESPACE = e.CNPG_CLUSTER_NAMESPACE
       /\ w.CNPG_CLUSTER_UID = e.CNPG_CLUSTER_UID
       /\ w.CNPG_CLUSTER_NAME = e.CNPG_CLUSTER_NAME
  BY <1>5, TheVariables
<1>13. \A u \in {"SCAN_CONCURRENCY", "ALLOW_DOWNLOAD", "PGBACKREST_CIPHER_PASS_FILE",
                 "EXPECTED_RETENTION_POLICY", "EXPECTED_MINIMUM_REDUNDANCY", "WAL_PAGE_SIZE"} :
         w[u] \in {e[u], Absent}
  BY <1>1, TheVariables
<1>14. /\ Given(w, "ENDPOINT_URL") <=> Given(e, "ENDPOINT_URL")
       /\ Given(w, "ENDPOINT_CA_FILE") <=> Given(e, "ENDPOINT_CA_FILE")
       /\ Given(w, "PGBACKREST_STANZAS") <=> Given(e, "PGBACKREST_STANZAS")
       /\ Given(w, "BARMAN_SERVER_NAMES") <=> Given(e, "BARMAN_SERVER_NAMES")
       /\ Given(w, "PGBACKREST_CIPHER_PASS_FILE") => Given(e, "PGBACKREST_CIPHER_PASS_FILE")
  BY <1>1, <1>5, TheVariables
<1>15. Sane(w)
  <2>1. /\ w.SCAN_CONCURRENCY # "outside" /\ w.ALLOW_DOWNLOAD \notin {"invalid"}
        /\ Sidecar(e) => w.ALLOW_DOWNLOAD # "true"
        /\ w.PGBACKREST_CIPHER_PASS_FILE # "unusable" /\ w.EXPECTED_RETENTION_POLICY # "invalid"
        /\ w.EXPECTED_MINIMUM_REDUNDANCY # "outside" /\ w.WAL_PAGE_SIZE # "outside"
    BY <1>13 DEF Sane, Absent
  <2> QED
    BY <1>6, <1>7, <1>8, <1>9, <1>10, <1>11, <1>12, <1>14, <2>1 DEF Sane
<1>16. Credentials(w) = Credentials(e)
  <2>1. ASSUME NEW V \in SUBSET (Variable \ {v})
        PROVE  Restrict(w, {u \in V : Given(w, u)}) = Restrict(e, {u \in V : Given(e, u)})
    <3>1. {u \in V : Given(w, u)} = {u \in V : Given(e, u)}
      BY <1>1
    <3>2. \A u \in {u \in V : Given(e, u)} : w[u] = e[u]
      BY <1>1
    <3> QED
      BY <3>1, <3>2 DEF Restrict
  <2>2. (WebMode(w) <=> WebMode(e))
    BY <1>6 DEF WebMode
  <2>3. CASE e.PROVIDER = "s3"
    <3>1. v \notin StaticFiles
      BY <1>3 DEF StaticFiles
    <3>2. /\ StaticFiles \in SUBSET (Variable \ {v}) /\ {} \in SUBSET (Variable \ {v})
          /\ WebMode(e) => WebIdentity \in SUBSET (Variable \ {v})
      BY <1>4, <3>1, TheVariables DEF StaticFiles, WebIdentity
    <3>3. Given(w, "AWS_ACCESS_KEY_ID_FILE") <=> Given(e, "AWS_ACCESS_KEY_ID_FILE")
      BY <1>5, TheVariables
    <3>4. /\ Restrict(w, {u \in StaticFiles : Given(w, u)})
               = Restrict(e, {u \in StaticFiles : Given(e, u)})
          /\ Restrict(w, {u \in {} : Given(w, u)}) = Restrict(e, {u \in {} : Given(e, u)})
          /\ WebMode(e) => Restrict(w, {u \in WebIdentity : Given(w, u)})
                             = Restrict(e, {u \in WebIdentity : Given(e, u)})
      BY <2>1, <3>2
    <3> QED
      BY <1>6, <2>2, <2>3, <3>3, <3>4 DEF Credentials, WebMode
  <2>4. CASE e.PROVIDER = "azure"
    <3> DEFINE C == {"AZURE_STORAGE_CONNECTION_STRING_FILE"}
               K == {"AZURE_STORAGE_ACCOUNT_KEY_FILE"} \cup {"AZURE_STORAGE_ACCOUNT"}
               S == {"AZURE_STORAGE_SAS_TOKEN_FILE"} \cup {"AZURE_STORAGE_ACCOUNT"}
               A == {} \cup {"AZURE_STORAGE_ACCOUNT"}
    <3>1. /\ C \in SUBSET (Variable \ {v}) /\ K \in SUBSET (Variable \ {v})
          /\ S \in SUBSET (Variable \ {v}) /\ A \in SUBSET (Variable \ {v})
      BY <1>3, <2>4, TheVariables
    <3>2. /\ Restrict(w, {u \in C : Given(w, u)}) = Restrict(e, {u \in C : Given(e, u)})
          /\ Restrict(w, {u \in K : Given(w, u)}) = Restrict(e, {u \in K : Given(e, u)})
          /\ Restrict(w, {u \in S : Given(w, u)}) = Restrict(e, {u \in S : Given(e, u)})
          /\ Restrict(w, {u \in A : Given(w, u)}) = Restrict(e, {u \in A : Given(e, u)})
      <4> HIDE DEF C, K, S, A
      <4> QED
        BY <2>1, <3>1
    <3>3. /\ Given(w, "AZURE_STORAGE_CONNECTION_STRING_FILE")
               <=> Given(e, "AZURE_STORAGE_CONNECTION_STRING_FILE")
          /\ Given(w, "AZURE_STORAGE_ACCOUNT_KEY_FILE")
               <=> Given(e, "AZURE_STORAGE_ACCOUNT_KEY_FILE")
          /\ Given(w, "AZURE_STORAGE_SAS_TOKEN_FILE")
               <=> Given(e, "AZURE_STORAGE_SAS_TOKEN_FILE")
      BY <1>5, TheVariables
    <3> QED
      BY <1>6, <2>4, <3>2, <3>3 DEF Credentials
  <2>5. CASE e.PROVIDER \notin {"s3", "azure"}
    <3>1. /\ {"GOOGLE_APPLICATION_CREDENTIALS"} \in SUBSET (Variable \ {v})
          /\ {} \in SUBSET (Variable \ {v})
      BY <1>3, TheVariables
    <3>2. /\ Restrict(w, {u \in {"GOOGLE_APPLICATION_CREDENTIALS"} : Given(w, u)})
               = Restrict(e, {u \in {"GOOGLE_APPLICATION_CREDENTIALS"} : Given(e, u)})
          /\ Restrict(w, {u \in {} : Given(w, u)}) = Restrict(e, {u \in {} : Given(e, u)})
      BY <2>1, <3>1
    <3>3. Given(w, "GOOGLE_APPLICATION_CREDENTIALS") <=> Given(e, "GOOGLE_APPLICATION_CREDENTIALS")
      BY <1>5, TheVariables
    <3> QED
      BY <1>6, <2>5, <3>2, <3>3 DEF Credentials
  <2> QED
    BY <2>3, <2>4, <2>5
<1>17. Wiring(w) = Wiring(e)
  <2> DEFINE a == Load(w)
             b == Load(e)
  <2>1. /\ a.timeout = b.timeout /\ a.endpoint = b.endpoint /\ a.caBundle = b.caBundle
        /\ a.destination = b.destination /\ a.provider = b.provider /\ a.interval = b.interval
        /\ a.credentials = b.credentials /\ a.format = b.format /\ a.sidecar = b.sidecar
        /\ a.stanzas = b.stanzas /\ a.servers = b.servers /\ a.maxObjects = b.maxObjects
        /\ a.cluster = b.cluster /\ a.tokenFile = b.tokenFile /\ a.listenAddr = b.listenAddr
        /\ a.userHeader = b.userHeader
    <3>1. /\ a.timeout = b.timeout /\ a.endpoint = b.endpoint /\ a.caBundle = b.caBundle
          /\ a.destination = b.destination /\ a.provider = b.provider /\ a.interval = b.interval
      BY <1>6, <1>12 DEF Load
    <3>2. /\ a.stanzas = b.stanzas /\ a.servers = b.servers /\ a.maxObjects = b.maxObjects
          /\ a.tokenFile = b.tokenFile /\ a.userHeader = b.userHeader /\ a.format = b.format
      BY <1>6, <1>12 DEF Load
    <3>3. a.credentials = b.credentials
      BY <1>16 DEF Load
    <3>4. a.sidecar = b.sidecar
      BY <1>6 DEF Load, Sidecar
    <3>5. a.cluster = b.cluster
      BY <1>12 DEF Load
    <3>6. a.listenAddr = b.listenAddr
      BY <1>12 DEF Load
    <3> HIDE DEF a, b
    <3> QED
      BY <3>1, <3>2, <3>3, <3>4, <3>5, <3>6
  <2>2. a.region = b.region
    BY <1>1, <1>3, <1>6, TheVariables DEF Load
  <2>3. a.format # "pgbackrest" => a.retention = b.retention
    <3>1. a.format # "pgbackrest" => /\ w.EXPECTED_RETENTION_POLICY = e.EXPECTED_RETENTION_POLICY
                                     /\ w.EXPECTED_MINIMUM_REDUNDANCY = e.EXPECTED_MINIMUM_REDUNDANCY
      BY <1>1, <1>3, <1>6, TheVariables DEF Load
    <3> QED
      BY <3>1 DEF Load
  <2>4. /\ a.walPageSize = "least" <=> b.walPageSize = "least"
        /\ ~a.sidecar => a.walPageSize = b.walPageSize
    <3>1. /\ a.walPageSize = w.WAL_PAGE_SIZE /\ b.walPageSize = e.WAL_PAGE_SIZE
          /\ (a.sidecar <=> Sidecar(w))
      BY DEF Load
    <3>2. v # "WAL_PAGE_SIZE" => w.WAL_PAGE_SIZE = e.WAL_PAGE_SIZE
      BY <1>1, TheVariables
    <3>3. v = "WAL_PAGE_SIZE" => Sidecar(w) /\ w.WAL_PAGE_SIZE = Absent /\ e.WAL_PAGE_SIZE = "most"
      BY <1>1, <1>3, <1>6
    <3> QED
      BY <3>1, <3>2, <3>3 DEF Absent
  <2>5. a.provider = "s3" /\ a.credentials.mode = "ambient" =>
          Restrict(w, WebIdentity) = Restrict(e, WebIdentity)
    <3>1. SUFFICES ASSUME e.PROVIDER = "s3", Credentials(e).mode = "ambient"
                   PROVE  Restrict(w, WebIdentity) = Restrict(e, WebIdentity)
      BY <1>6, <1>16 DEF Load
    <3>2. v \notin WebIdentity
      BY <1>3, <1>4, <3>1, S3Credentials DEF Uses
    <3>3. \A u \in WebIdentity : w[u] = e[u]
      BY <1>1, <3>2, TheVariables DEF WebIdentity
    <3> QED
      BY <3>3 DEF Restrict
  <2> HIDE DEF a, b
  <2> DEFINE reader(c) == <<c.provider, c.destination, c.timeout, c.endpoint, c.caBundle,
                            c.region, c.credentials>>
             sdk(c, x) == IF c.provider = "s3" /\ c.credentials.mode = "ambient"
                            THEN Restrict(x, WebIdentity) ELSE <<>>
             names(c) == IF c.format = "pgbackrest" THEN c.stanzas ELSE c.servers
             recent(c) == IF c.walPageSize = "least" THEN "least" ELSE "MaxRecentObjects"
             kept(c) == IF c.format = "barman-cloud" THEN c.retention ELSE <<>>
             evidence(c) == IF c.sidecar
                              THEN <<c.endpoint, c.region, c.destination, c.servers,
                                     c.cluster, c.tokenFile>>
                              ELSE <<>>
             web(c) == IF c.sidecar THEN <<>>
                       ELSE <<c.listenAddr, c.userHeader, c.walPageSize>>
             built(c, x) == [reader   |-> reader(c),
                             sdk      |-> sdk(c, x),
                             ready    |-> <<c.interval, c.timeout>>,
                             scanner  |-> <<c.format, names(c), c.interval, c.maxObjects,
                                            recent(c), kept(c)>>,
                             evidence |-> evidence(c),
                             web      |-> web(c)]
  <2>6. Wiring(w) = built(a, w) /\ Wiring(e) = built(b, e)
    BY DEF Wiring, a, b
  <2>7. reader(a) = reader(b) /\ names(a) = names(b) /\ recent(a) = recent(b)
    BY <2>1, <2>2, <2>4
  <2>8. kept(a) = kept(b)
    BY <2>1, <2>3
  <2>9. sdk(a, w) = sdk(b, e)
    BY <2>1, <2>5
  <2>10. evidence(a) = evidence(b)
    BY <2>1, <2>2
  <2>11. web(a) = web(b)
    <3>1. CASE a.sidecar
      BY <2>1, <3>1
    <3>2. CASE ~a.sidecar
      BY <2>1, <2>4, <3>2
    <3> QED
      BY <3>1, <3>2
  <2>12. built(a, w) = built(b, e)
    <3> HIDE DEF reader, sdk, names, recent, kept, evidence, web
    <3> QED
      BY <2>1, <2>7, <2>8, <2>9, <2>10, <2>11
  <2> QED
    BY ONLY <2>6, <2>12
<1> QED
  BY <1>15, <1>17

-----------------------------------------------------------------------------
LEMMA ForeignRefused ==
  ASSUME NEW e, Valued(e), Accepted(e), NEW v \in SetBy(e), v \in Foreign(e) \cup Ignored(e)
  PROVE  v \in PassedOver(e)
<1>1. Sane(e) /\ (Given(e, v) \/ (v = "TRUSTED_USER_HEADER" /\ e[v] = Empty))
  <2>1. Sane(e)
    BY AcceptedIsSane
  <2>2. CASE Given(e, v)
    BY <2>1, <2>2
  <2>3. CASE ~Given(e, v)
    <3>1. e.TRUSTED_USER_HEADER = Empty /\ v = "TRUSTED_USER_HEADER"
      BY <2>3 DEF SetBy
    <3> QED
      BY <2>1, <3>1
  <2> QED
    BY <2>2, <2>3
<1>2. /\ e.PROVIDER \in {"s3", "azure", "gcs"}
      /\ e.REPOSITORY_FORMAT \in {"barman-cloud", "pgbackrest"}
  BY <1>1, ValueFacts DEF Sane
<1>3. \A p \in {"s3", "azure", "gcs"} \ {e.PROVIDER} : v \notin providerFiles[p]
  <2>1. \A p \in {"s3", "azure", "gcs"} : "TRUSTED_USER_HEADER" \notin providerFiles[p]
    BY DEF providerFiles, StaticFiles, WebIdentity, AccountFiles
  <2> QED
    BY <1>1, <2>1 DEF Sane
<1>4. /\ v \in {"ENDPOINT_URL", "ENDPOINT_CA_FILE"} => e.PROVIDER = "s3"
      /\ e.REPOSITORY_FORMAT = "barman-cloud" =>
           v \notin {"PGBACKREST_STANZAS", "PGBACKREST_CIPHER_PASS_FILE"}
      /\ v = "BARMAN_SERVER_NAMES" => e.REPOSITORY_FORMAT = "barman-cloud"
  BY <1>1 DEF Sane
<1>5. Sidecar(e) => /\ e.PROVIDER = "s3"
                    /\ v \notin {"LISTEN_ADDR", "TRUSTED_USER_HEADER"}
  BY <1>1, SidecarPasses DEF Sane, Given, Absent, Empty
<1>6. ~Sidecar(e) => v \notin {"EVIDENCE_TOKEN_FILE", "CNPG_CLUSTER_NAMESPACE", "CNPG_CLUSTER_UID",
                               "CNPG_CLUSTER_NAME", "STORE_CREDENTIAL_MODE"}
  BY <1>1, StandalonePasses DEF Sane
<1>7. v \in WebIdentity => e.PROVIDER = "s3"
  BY <1>2, <1>3 DEF providerFiles
<1>8. Given(e, "AWS_ACCESS_KEY_ID_FILE") /\ v \in WebIdentity => ~Sidecar(e)
  <2>1. v \in WebIdentity => Given(e, v)
    BY <1>1 DEF WebIdentity
  <2> QED
    BY <1>1, <1>7, <2>1, S3Passes DEF Sane, GivenAny, StaticFiles
<1>9. CASE v \in Ignored(e)
  BY <1>7, <1>8, <1>9 DEF Ignored, PassedOver
<1>10. CASE v \in Foreign(e)
  BY <1>2, <1>3, <1>4, <1>5, <1>6, <1>7, <1>10 DEF Foreign, PassedOver
<1> QED
  BY <1>9, <1>10

LEMMA EffectExactly ==
  ASSUME NEW e, DOMAIN e = Variable, Valued(e), Accepted(e), NEW v \in SetBy(e)
  PROVE  LET without == [e EXCEPT ![v] = Absent]
         IN  (Accepted(without) /\ Wiring(without) = Wiring(e)) <=> v \in Idle(e)
<1> DEFINE w == [e EXCEPT ![v] = Absent]
<1>1. v \in Variable /\ (Given(e, v) \/ v = "TRUSTED_USER_HEADER")
  BY TheVariables DEF SetBy
<1>2. Without(e, v, w)
  BY <1>1, WithoutIt
<1> HIDE DEF w
<1>3. Valued(w) /\ w[v] = Absent /\ \A u \in Variable \ {v} : w[u] = e[u]
  BY <1>2 DEF Without
<1>4. Sane(e) /\ (Accepted(w) <=> Sane(w))
  BY <1>3, AcceptedIsSane
<1>5. SUFFICES (Sane(w) /\ Wiring(w) = Wiring(e)) <=> v \in Idle(e)
  BY <1>4 DEF w
<1>6. ASSUME v \in Idle(e) PROVE Sane(w) /\ Wiring(w) = Wiring(e)
  <2>1. v # "TRUSTED_USER_HEADER"
    BY <1>6 DEF Idle, Unread, Ignored, WebIdentity
  <2> QED
    BY <1>1, <1>2, <1>4, <1>6, <2>1, IdleUnused
<1>7. ASSUME v \notin Idle(e) PROVE ~(Sane(w) /\ Wiring(w) = Wiring(e))
  <2>1. /\ v \notin {"SCAN_CONCURRENCY", "ALLOW_DOWNLOAD", "PGBACKREST_CIPHER_PASS_FILE"}
        /\ v = "AZURE_STORAGE_ACCOUNT" => e.PROVIDER \notin {"s3", "gcs"}
        /\ v = "AWS_REGION" => e.PROVIDER = "s3"
        /\ v \in WebIdentity => ~Given(e, "AWS_ACCESS_KEY_ID_FILE")
        /\ v \in {"EXPECTED_RETENTION_POLICY", "EXPECTED_MINIMUM_REDUNDANCY"} =>
             e.REPOSITORY_FORMAT # "pgbackrest"
        /\ v = "WAL_PAGE_SIZE" => ~(Sidecar(e) /\ e.WAL_PAGE_SIZE = "most")
    BY <1>7 DEF Idle, Unread, Ignored
  <2>2. e.PROVIDER \in {"s3", "azure", "gcs"} /\ e.REPOSITORY_FORMAT \in {"barman-cloud", "pgbackrest"}
    BY <1>4, ValueFacts DEF Sane
  <2>3. CASE v \in {"RUNTIME_MODE", "REPOSITORY_FORMAT", "PROVIDER", "DESTINATION_PATH",
                    "EVIDENCE_TOKEN_FILE", "CNPG_CLUSTER_NAMESPACE", "CNPG_CLUSTER_UID",
                    "STORE_CREDENTIAL_MODE", "AWS_ACCESS_KEY_ID_FILE",
                    "AWS_SECRET_ACCESS_KEY_FILE"}
    BY <1>1, <1>2, <1>4, <2>3, Required
  <2>4. CASE v \in {"ENDPOINT_URL", "ENDPOINT_CA_FILE", "LISTEN_ADDR", "TRUSTED_USER_HEADER",
                    "CATALOG_REFRESH_INTERVAL", "STORE_REQUEST_TIMEOUT", "MAX_OBJECTS_PER_SCAN",
                    "BARMAN_SERVER_NAMES", "PGBACKREST_STANZAS", "CNPG_CLUSTER_NAME"}
    BY <1>2, <1>4, <2>4, Wired
  <2>5. CASE v \in {"AWS_SESSION_TOKEN_FILE", "AZURE_STORAGE_CONNECTION_STRING_FILE",
                    "GOOGLE_APPLICATION_CREDENTIALS"} \cup AccountFiles
    <3>1. v # "TRUSTED_USER_HEADER"
      BY <2>5 DEF AccountFiles
    <3> QED
      BY <1>1, <1>2, <1>4, <2>5, <3>1, CredentialTold
  <2>6. CASE v = "AZURE_STORAGE_ACCOUNT"
    BY <1>1, <1>2, <1>4, <2>1, <2>2, <2>6, AccountTold
  <2>7. CASE v \in WebIdentity
    <3>1. v # "TRUSTED_USER_HEADER"
      BY <2>7 DEF WebIdentity
    <3> QED
      BY <1>1, <1>2, <1>4, <2>1, <2>7, <3>1, WebIdentityTold
  <2>8. CASE v = "AWS_REGION"
    <3>1. w.PROVIDER = "s3" /\ e.PROVIDER = "s3"
      BY <1>3, <2>1, <2>8, TheVariables
    <3>2. w.AWS_REGION # e.AWS_REGION
      BY <1>1, <1>3, <2>8 DEF Given
    <3> QED
      BY <3>1, <3>2, WiringTells
  <2>9. CASE v \in {"EXPECTED_RETENTION_POLICY", "EXPECTED_MINIMUM_REDUNDANCY"}
    <3>1. w.REPOSITORY_FORMAT = "barman-cloud" /\ e.REPOSITORY_FORMAT = "barman-cloud"
      BY <1>3, <2>1, <2>2, <2>9, TheVariables
    <3>2. w[v] # e[v]
      BY <1>1, <1>3, <2>9 DEF Given
    <3> QED
      BY <2>9, <3>1, <3>2, WiringTells
  <2>10. CASE v = "WAL_PAGE_SIZE"
    <3>1. e.WAL_PAGE_SIZE \in {"least", "most"}
      <4>1. e.WAL_PAGE_SIZE \in {"least", "most", "outside", Absent}
        BY TheVariables DEF Valued, Values, Number
      <4> QED
        BY <1>1, <1>4, <2>10, <4>1 DEF Sane, Given
    <3>2. w.WAL_PAGE_SIZE = Absent
      BY <1>3, <2>10
    <3>3. CASE e.WAL_PAGE_SIZE = "least"
      BY <3>2, <3>3, WiringTells DEF Absent
    <3>4. CASE e.WAL_PAGE_SIZE = "most"
      <4>1. ~Sidecar(e) /\ ~Sidecar(w)
        BY <1>3, <2>1, <2>10, <3>4, TheVariables DEF Sidecar
      <4> QED
        BY <3>2, <3>4, <4>1, WiringTells DEF Absent
    <3> QED
      BY <3>1, <3>3, <3>4
  <2>11. v \notin DirectCredentials
    <3>1. v \in DirectCredentials => v # "TRUSTED_USER_HEADER"
      BY DEF DirectCredentials
    <3> QED
      BY <1>1, <1>4, <3>1 DEF Sane, GivenAny
  <2> QED
    BY <1>1, <2>1, <2>3, <2>4, <2>5, <2>6, <2>7, <2>8, <2>9, <2>10, <2>11, TheVariablesOnly
       DEF StaticFiles
<1> QED
  BY <1>6, <1>7

(* For every environment, of all the combinations of the values of the 38  *)
(* variables: an accepted setting takes effect (without it Load refuses,   *)
(* or some part of the program is built from something else) unless it is  *)
(* one of the idle ones, and those never do; and no setting foreign to the *)
(* provider, the format or the mode is accepted that is not passed over.   *)
THEOREM SettingsAreUsed == Spec => []SettingsTakeEffect
<1> DEFINE Inv == /\ pc \in {"loading", "building"} => DOMAIN env = Variable /\ Valued(env)
                  /\ pc = "building" => Accepted(env)
<1>1. Init => Inv
  BY StartupConstants DEF Init, Valued
<1>2. Inv /\ [Next]_vars => Inv'
  <2> SUFFICES ASSUME Inv, [Next]_vars PROVE Inv'
    OBVIOUS
  <2>1. CASE LoadOS
    <3>1. pc = "loading" /\ env' = env /\ (pc' = "building" => Accepted(env))
      BY <2>1 DEF LoadOS, Exit
    <3> QED
      BY <3>1
  <2>2. CASE New \/ ListenFails \/ Serve
    BY <2>2 DEF New, ListenFails, Serve, Exit
  <2>3. CASE Run \/ UNCHANGED vars
    <3>1. pc' = pc /\ env' = env
      BY <2>3 DEF Run, startupVars, vars
    <3> QED
      BY <3>1
  <2> QED
    BY <2>1, <2>2, <2>3 DEF Next
<1>3. Inv => SettingsTakeEffect
  <2> SUFFICES ASSUME DOMAIN env = Variable, Valued(env), Accepted(env), NEW v \in SetBy(env)
               PROVE  LET without == [env EXCEPT ![v] = Absent]
                      IN  /\ (Accepted(without) /\ Wiring(without) = Wiring(env)) <=> v \in Idle(env)
                          /\ v \in Foreign(env) \cup Ignored(env) => v \in PassedOver(env)
    BY DEF SettingsTakeEffect
  <2> QED
    BY EffectExactly, ForeignRefused
<1> QED
  BY <1>1, <1>2, <1>3, PTL DEF Spec
=============================================================================
