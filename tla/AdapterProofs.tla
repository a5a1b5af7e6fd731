--------------------------- MODULE AdapterProofs ---------------------------
(* Theorems about the three adapters: Tcpc, however the driver's context    *)
(* and the work queue interleave, for any number of events; PowerPath,      *)
(* where the switches may be, for any faults and any number of failed       *)
(* transfers; and the three side by side: each behaves as it does alone,    *)
(* and the state of each keeps its type.                                    *)
EXTENDS MCAdapters, TLAPS

-----------------------------------------------------------------------------
\* AlertsTypeOK but for the history; the count awaited is bounded by InOnePlace.
Typed ==
  /\ line \in Lines /\ pull \in Pulls /\ heardCc \in Readings \cup {"none"}
  /\ misread \in BOOLEAN /\ unfetched \in BOOLEAN /\ checked \in BOOLEAN
  /\ pending \subseteq Alerts /\ bits \subseteq Alerts
  /\ calling \in BOOLEAN /\ queued \in BOOLEAN /\ listens \in BOOLEAN
  /\ rx \in Nat /\ inFlight \in Nat /\ awaited \in Int /\ raised \in 0..MaxEvents

\* A gathered alert has its work on the way, and a held message its alert,
\* unless it was left behind by a fetch that failed.
Underway ==
  /\ pending # {} => queued \/ calling
  /\ rx > 0 => unfetched \/ "message_received" \in pending \cup bits

\* Where the outcome of the one transmission awaited is.
AtDriver == inFlight = 1 /\ Outcomes \cap pending = {} /\ Outcomes \cap bits = {}
Gathered == /\ inFlight = 0 /\ Outcomes \cap bits = {}
            /\ \E o \in Outcomes : Outcomes \cap pending = {o}
Delivering == /\ inFlight = 0 /\ Outcomes \cap pending = {}
              /\ \E o \in Outcomes : Outcomes \cap bits = {o}
Nowhere == inFlight = 0 /\ Outcomes \cap pending = {} /\ Outcomes \cap bits = {}
InOnePlace ==
  ~Overlaps => \/ awaited = 0 /\ Nowhere
               \/ awaited = 1 /\ (AtDriver \/ Gathered \/ Delivering)

Kept == Typed /\ Underway /\ InOnePlace /\ CcUpToDate

-----------------------------------------------------------------------------
\* A callback with a holder of the PHY, or without.
Hears(left, cc) ==
  IF listens THEN Reacts(left, cc) ELSE Nothing(left) /\ UNCHANGED heardCc

\* What the stack may do in a callback, as far as the invariant cares.
LEMMA ReactsTyped ==
  ASSUME Typed, NEW left \in Int, NEW cc \in Readings \cup {"none"},
         Reacts(left, cc) \/ (cc = heardCc /\ Hears(left, cc))
  PROVE  /\ pull' \in Pulls /\ heardCc' \in Readings \cup {"none"}
         /\ listens' \in BOOLEAN /\ inFlight' \in Nat /\ awaited' \in Int
         /\ heardCc' = (IF pull' = pull THEN cc ELSE "none")
         /\ \/ awaited' = left /\ inFlight' = inFlight
            \/ /\ left <= (IF Overlaps THEN 1 ELSE 0)
               /\ awaited' = left + 1 /\ inFlight' = inFlight + 1
<1>1. pull' \in Pulls
  BY DEF Typed, Hears, Reacts, Presents, Holds, Transmits, Nothing
<1>2. heardCc' = (IF pull' = pull THEN cc ELSE "none")
  BY DEF Hears, Reacts, Heeds, Nothing
<1>3. listens' \in BOOLEAN
  BY Zenon DEF Typed, Hears, Reacts, Presents, Holds, Transmits, Nothing
<1>4. \/ awaited' = left /\ inFlight' = inFlight
      \/ /\ left <= (IF Overlaps THEN 1 ELSE 0)
         /\ awaited' = left + 1 /\ inFlight' = inFlight + 1
  BY Zenon DEF Hears, Reacts, Presents, Holds, Transmits, Nothing
<1>5. inFlight' \in Nat /\ awaited' \in Int
  BY <1>4 DEF Typed
<1> QED
  BY <1>1, <1>2, <1>3, <1>4, <1>5, Zenon DEF Readings

LEMMA ReadingTyped ==
  ASSUME NEW l \in Lines, NEW p \in Pulls
  PROVE  Reading(l, p) \in Readings
BY DEF Lines, Reading, Readings

-----------------------------------------------------------------------------
(* The driver's context.                                                    *)

LEMMA DriverKeeps ==
  ASSUME Kept, Driver \/ Submit
  PROVE  Kept'
<1> USE DEF Kept, Typed, Underway, CcUpToDate, Alerts, Outcomes, QueueRests
<1>1. CASE CcChanges
  <2> USE <1>1 DEF CcChanges, Counts, Alert, StackRests
  <2>1. Typed'
    BY EventsAssumption
  <2>2. Underway' /\ CcUpToDate'
    OBVIOUS
  <2>3. InOnePlace'
    BY DEF InOnePlace, AtDriver, Gathered, Delivering, Nowhere
  <2> QED
    BY <2>1, <2>2, <2>3
<1>2. CASE MessageArrives
  <2> USE <1>2 DEF MessageArrives, Counts, Alert, StackRests
  <2>1. Typed'
    BY EventsAssumption
  <2>2. Underway' /\ CcUpToDate'
    OBVIOUS
  <2>3. InOnePlace'
    BY DEF InOnePlace, AtDriver, Gathered, Delivering, Nowhere
  <2> QED
    BY <2>1, <2>2, <2>3
<1>3. CASE HardResetArrives
  <2> USE <1>3 DEF HardResetArrives, Counts, Alert, StackRests
  <2>1. Typed'
    BY EventsAssumption
  <2>2. Underway' /\ CcUpToDate'
    OBVIOUS
  <2>3. InOnePlace'
    BY DEF InOnePlace, AtDriver, Gathered, Delivering, Nowhere
  <2> QED
    BY <2>1, <2>2, <2>3
<1>4. ASSUME NEW outcome \in Outcomes, Concludes(outcome)
      PROVE  Kept'
  <2> USE <1>4 DEF Concludes, Alert, StackRests
  <2>1. Typed'
    OBVIOUS
  <2>2. Underway' /\ CcUpToDate'
    OBVIOUS
  <2>3. InOnePlace'
    <3>1. CASE Overlaps
      BY <3>1 DEF InOnePlace
    <3>2. CASE ~Overlaps
      <4>1. awaited = 1 /\ AtDriver
        BY <3>2 DEF InOnePlace, Gathered, Delivering, Nowhere
      <4>2. inFlight' = 0 /\ Outcomes \cap bits' = {} /\ Outcomes \cap pending' = {outcome}
        BY <4>1 DEF AtDriver
      <4> QED
        BY <4>1, <4>2 DEF InOnePlace, Gathered
    <3> QED
      BY <3>1, <3>2
  <2> QED
    BY <2>1, <2>2, <2>3
<1>5. CASE Submit
  <2> USE <1>5 DEF Submit, StackRests
  <2>1. Typed' /\ Underway' /\ CcUpToDate'
    OBVIOUS
  <2>2. InOnePlace'
    BY DEF InOnePlace, AtDriver, Gathered, Delivering, Nowhere
  <2> QED
    BY <2>1, <2>2
<1> QED
  BY <1>1, <1>2, <1>3, <1>4, <1>5 DEF Driver

-----------------------------------------------------------------------------
(* The work queue.                                                          *)

\* One callback, or none, on the way through `bits`: `left` transmissions are
\* awaited when the stack takes over, and `cc` is what it holds of the line.
Passes(left, cc) ==
  /\ left \in Int /\ cc \in Readings \cup {"none"}
  /\ Reacts(left, cc) \/ (cc = heardCc /\ Hears(left, cc))
  /\ UNCHANGED <<line, pending, calling, queued, raised>>
  /\ misread' \in BOOLEAN /\ unfetched' \in BOOLEAN /\ checked' \in BOOLEAN
  /\ bits' \subseteq bits /\ rx' \in Nat
  /\ rx' > 0 => \/ unfetched'
                \/ /\ rx > 0 /\ unfetched' = unfetched
                   /\ "message_received" \in bits => "message_received" \in bits'
  /\ ~misread' /\ "cc_changed" \notin pending \cup bits'
       => cc \in {"none", Reading(line, pull)}
  /\ \/ left = awaited /\ Outcomes \cap bits' = Outcomes \cap bits
     \/ /\ left = awaited - 1
        /\ \E o \in Outcomes : o \in bits /\ bits' = bits \ {o}

LEMMA ReportKeeps ==
  ASSUME Kept, NEW left, NEW cc, Passes(left, cc)
  PROVE  Kept'
<1> USE DEF Kept, Passes, Alerts, Outcomes
<1>1. /\ pull' \in Pulls /\ heardCc' \in Readings \cup {"none"}
      /\ listens' \in BOOLEAN /\ inFlight' \in Nat /\ awaited' \in Int
      /\ heardCc' = (IF pull' = pull THEN cc ELSE "none")
      /\ \/ awaited' = left /\ inFlight' = inFlight
         \/ /\ left <= (IF Overlaps THEN 1 ELSE 0)
            /\ awaited' = left + 1 /\ inFlight' = inFlight + 1
  BY ReactsTyped, Zenon
<1>2. Typed'
  BY <1>1 DEF Typed
<1>3. Underway'
  BY DEF Typed, Underway
<1>4. CcUpToDate'
  BY <1>1 DEF CcUpToDate
<1>5. InOnePlace'
  <2>1. CASE Overlaps
    BY <2>1 DEF InOnePlace
  <2>2. CASE ~Overlaps /\ left = awaited /\ Outcomes \cap bits' = Outcomes \cap bits
    BY <2>2, <1>1 DEF InOnePlace, Typed, AtDriver, Gathered, Delivering, Nowhere
  <2>3. CASE ~Overlaps /\ left = awaited - 1
             /\ \E o \in Outcomes : o \in bits /\ bits' = bits \ {o}
    <3>1. PICK o \in Outcomes : o \in bits /\ bits' = bits \ {o}
      BY <2>3
    <3>2. awaited = 1 /\ Delivering
      BY <2>3, <3>1 DEF InOnePlace, AtDriver, Gathered, Nowhere
    <3>3. Outcomes \cap bits = {o}
      BY <3>1, <3>2 DEF Delivering
    <3>4. inFlight = 0 /\ Outcomes \cap bits' = {} /\ Outcomes \cap pending' = {}
      BY <3>1, <3>2, <3>3 DEF Delivering
    <3>5. left = 0
      BY <2>3, <3>2
    <3> QED
      BY <1>1, <2>3, <3>4, <3>5 DEF InOnePlace, AtDriver, Nowhere
  <2> QED
    BY <2>1, <2>2, <2>3
<1> QED
  BY <1>2, <1>3, <1>4, <1>5

\* The queue's work, but for its beginning, is one callback or none.
LEMMA QueuePasses ==
  ASSUME Kept, StackWorks \/ Reports
  PROVE  \E left, cc : Passes(left, cc)
<1> USE DEF DriverRests, QueueRests
<1>0. /\ awaited \in Int /\ awaited - 1 \in Int /\ misread \in BOOLEAN /\ rx \in Nat
      /\ unfetched \in BOOLEAN /\ checked \in BOOLEAN
      /\ heardCc \in Readings \cup {"none"} /\ CcUpToDate
      /\ Reading(line, pull) \in Readings \cup {"none"}
  BY ReadingTyped DEF Kept, Typed
<1>1. CASE StackWorks
  <2>1. Reacts(awaited, heardCc)
    BY <1>1, Zenon DEF StackWorks, Reacts
  <2>2. UNCHANGED <<line, misread, unfetched, checked, pending, calling, queued, bits, rx, raised>>
    BY <1>1 DEF StackWorks
  <2>3. Passes(awaited, heardCc)
    BY <1>0, <2>1, <2>2 DEF CcUpToDate, Passes
  <2> QED
    BY <2>3
<1>2. CASE ReportCc
  <2>1. /\ bits' \subseteq bits /\ Outcomes \cap bits' = Outcomes \cap bits
        /\ "message_received" \in bits => "message_received" \in bits'
        /\ UNCHANGED <<line, unfetched, checked, pending, calling, queued, raised, rx>>
    BY <1>2 DEF ReportCc, Outcomes
  <2>2. CASE Reacts(awaited, Reading(line, pull)) /\ misread' = FALSE
    <3>1. Passes(awaited, Reading(line, pull))
      BY <1>0, <2>1, <2>2 DEF Passes
    <3> QED
      BY <3>1
  <2>3. CASE Nothing(awaited) /\ UNCHANGED heardCc /\ misread' = TRUE
    <3>1. Reacts(awaited, heardCc)
      BY <2>3, Zenon DEF Reacts, Nothing, Heeds
    <3>2. Passes(awaited, heardCc)
      BY <1>0, <2>1, <2>3, <3>1 DEF Passes
    <3> QED
      BY <3>2
  <2> QED
    BY <1>2, <2>2, <2>3 DEF ReportCc
<1>3. CASE ReportHardReset
  <2>1. /\ bits' \subseteq bits /\ Outcomes \cap bits' = Outcomes \cap bits
        /\ "message_received" \in bits => "message_received" \in bits'
        /\ "cc_changed" \notin bits
        /\ UNCHANGED <<line, misread, unfetched, checked, pending, calling, queued, raised, rx>>
    BY <1>3 DEF ReportHardReset, Outcomes, Turn, Ahead
  <2>2. Hears(awaited, heardCc)
    BY <1>3, Zenon DEF ReportHardReset, Hears
  <2>3. Passes(awaited, heardCc)
    BY <1>0, <2>1, <2>2 DEF Passes, CcUpToDate
  <2> QED
    BY <2>3
<1>4. ASSUME NEW outcome \in Outcomes, ReportOutcome(outcome)
      PROVE  \E left, cc : Passes(left, cc)
  <2>1. /\ outcome \in bits /\ bits' = bits \ {outcome} /\ bits' \subseteq bits
        /\ "message_received" \in bits => "message_received" \in bits'
        /\ "cc_changed" \notin bits
        /\ checked' \in BOOLEAN
        /\ UNCHANGED <<line, misread, unfetched, pending, calling, queued, raised, rx>>
    BY <1>0, <1>4 DEF ReportOutcome, Outcomes, Turn, Ahead, Alerts
  <2>2. Hears(awaited - 1, heardCc)
    BY <1>4, Zenon DEF ReportOutcome, Hears
  <2>3. Passes(awaited - 1, heardCc)
    BY <1>0, <2>1, <2>2 DEF Passes, CcUpToDate
  <2> QED
    BY <2>3
<1>5. CASE ReportMessage
  <2>1. /\ bits' = bits /\ "cc_changed" \notin bits /\ rx' \in Nat /\ rx > 0
        /\ UNCHANGED <<line, misread, unfetched, checked, pending, calling, queued, raised>>
    BY <1>0, <1>5 DEF ReportMessage, Turn, Ahead, Alerts
  <2>2. Hears(awaited, heardCc)
    BY <1>5, Zenon DEF ReportMessage, Hears
  <2>3. Passes(awaited, heardCc)
    BY <1>0, <2>1, <2>2 DEF Passes, CcUpToDate
  <2> QED
    BY <2>3
<1>6. CASE Drained
  <2>1. /\ bits' \subseteq bits /\ Outcomes \cap bits' = Outcomes \cap bits
        /\ "cc_changed" \notin bits /\ rx' = rx
        /\ UNCHANGED <<line, misread, checked, pending, calling, queued, raised>>
    BY <1>6 DEF Drained, Turn, Ahead, Alerts, Outcomes
  <2>2. Reacts(awaited, heardCc)
    BY <1>6, Zenon DEF Drained, Reacts, Nothing, Heeds
  <2>3. unfetched' \in BOOLEAN /\ (rx > 0 => unfetched')
    <3>1. unfetched' = (rx > 0)
      BY <1>6, Zenon DEF Drained
    <3>2. CASE rx > 0
      BY <3>1, <3>2, Zenon
    <3>3. CASE ~(rx > 0)
      BY <3>1, <3>3
    <3> QED BY <3>2, <3>3
  <2>4. Passes(awaited, heardCc)
    BY <1>0, <2>1, <2>2, <2>3 DEF Passes, CcUpToDate
  <2> QED
    BY <2>4
<1> QED
  BY <1>1, <1>2, <1>3, <1>4, <1>5, <1>6 DEF Reports

LEMMA QueueKeeps ==
  ASSUME Kept, StackWorks \/ Deliver \/ Reports
  PROVE  Kept'
<1>1. CASE Deliver
  <2> USE <1>1 DEF Kept, Deliver, StackRests, QueueRests
  <2>1. Typed' /\ Underway' /\ CcUpToDate'
    BY DEF Typed, Underway, CcUpToDate
  <2>2. InOnePlace'
    BY DEF InOnePlace, AtDriver, Gathered, Delivering, Nowhere
  <2> QED
    BY <2>1, <2>2
<1> QED
  BY <1>1, QueuePasses, ReportKeeps

-----------------------------------------------------------------------------
LEMMA StartsKept == AlertsInit => Kept
<1> SUFFICES ASSUME AlertsInit
             PROVE  Kept
  OBVIOUS
<1>1. Typed
  <2>1. raised \in 0..MaxEvents
    BY EventsAssumption DEF AlertsInit
  <2>2. pending \subseteq Alerts /\ bits \subseteq Alerts
    BY DEF AlertsInit
  <2>3. line \in Lines /\ pull \in Pulls
    BY DEF AlertsInit, Pulls
  <2>4. rx \in Nat /\ inFlight \in Nat /\ awaited \in Int
    BY DEF AlertsInit
  <2>5. /\ heardCc \in Readings \cup {"none"} /\ misread \in BOOLEAN
        /\ unfetched \in BOOLEAN /\ checked \in BOOLEAN
        /\ calling \in BOOLEAN /\ queued \in BOOLEAN /\ listens \in BOOLEAN
    BY Zenon DEF AlertsInit
  <2> QED
    BY <2>1, <2>2, <2>3, <2>4, <2>5, Zenon DEF Typed
<1>2. Underway /\ CcUpToDate
  BY DEF AlertsInit, Underway, CcUpToDate
<1>3. InOnePlace
  BY DEF AlertsInit, InOnePlace, Nowhere
<1> QED
  BY <1>1, <1>2, <1>3 DEF Kept

LEMMA StepKeeps == Kept /\ [AlertsNext]_alertVars => Kept'
<1>1. ASSUME Kept, UNCHANGED alertVars
      PROVE  Kept'
  BY <1>1 DEF alertVars, Kept, Typed, Underway, InOnePlace, AtDriver, Gathered, Delivering,
    Nowhere, CcUpToDate
<1> QED
  BY <1>1, DriverKeeps, QueueKeeps DEF AlertsNext

LEMMA AlwaysKept == AlertsSpec => []Kept
BY StartsKept, StepKeeps, PTL DEF AlertsSpec

\* At rest the adapter leaves nothing behind: neither an alert nor a message
\* the driver still holds and can hand over.
THEOREM NeverStranded == AlertsSpec => []NothingStranded
<1>1. Kept => NothingStranded
  BY DEF Kept, Typed, Underway, NothingStranded
<1> QED
  BY <1>1, AlwaysKept, PTL

\* A stack that waits for outcomes hears one for each transmission.
THEOREM OutcomesMatch == AlertsSpec => []OneOutcomeEach
<1>1. ASSUME Kept
      PROVE  OneOutcomeEach
  <2> USE <1>1 DEF Kept
  <2>1. CASE Overlaps
    BY <2>1 DEF OneOutcomeEach
  <2>2. CASE ~Overlaps /\ awaited = 0
    <3>1. Nowhere /\ 1..inFlight = {}
      BY <2>2 DEF InOnePlace, Nowhere
    <3> QED
      BY <2>2, <3>1 DEF OneOutcomeEach, Whereabouts, Nowhere
  <2>3. CASE ~Overlaps /\ awaited = 1 /\ AtDriver
    <3>1. 1..inFlight = {1}
      BY <2>3 DEF AtDriver
    <3>2. Whereabouts = {<<"driver", 1>>}
      BY <2>3, <3>1 DEF Whereabouts, AtDriver
    <3> QED
      BY <2>3, <3>2 DEF OneOutcomeEach
  <2>4. CASE ~Overlaps /\ awaited = 1 /\ Gathered
    <3>1. PICK o \in Outcomes : Outcomes \cap pending = {o}
      BY <2>4 DEF Gathered
    <3>2. 1..inFlight = {} /\ Outcomes \cap bits = {}
      BY <2>4 DEF Gathered
    <3>3. Whereabouts = {<<"gathered", o>>}
      BY <3>1, <3>2 DEF Whereabouts
    <3> QED
      BY <2>4, <3>3 DEF OneOutcomeEach
  <2>5. CASE ~Overlaps /\ awaited = 1 /\ Delivering
    <3>1. PICK o \in Outcomes : Outcomes \cap bits = {o}
      BY <2>5 DEF Delivering
    <3>2. 1..inFlight = {} /\ Outcomes \cap pending = {}
      BY <2>5 DEF Delivering
    <3>3. Whereabouts = {<<"delivering", o>>}
      BY <3>1, <3>2 DEF Whereabouts
    <3> QED
      BY <2>5, <3>3 DEF OneOutcomeEach
  <2> QED
    BY <2>1, <2>2, <2>3, <2>4, <2>5 DEF InOnePlace
<1> QED
  BY <1>1, AlwaysKept, PTL

\* The connection layer's reading of the line is of now, unless a change is
\* on its way or could not be read.
THEOREM ReadingIsOfNow == AlertsSpec => []CcUpToDate
<1>1. Kept => CcUpToDate
  BY DEF Kept
<1> QED
  BY <1>1, AlwaysKept, PTL

-----------------------------------------------------------------------------
(* The types in full.  Where transmissions may overlap, two outcomes of a   *)
(* kind can be one alert: what the stack awaits is at least what is still   *)
(* to come.                                                                 *)

Has(outcome, set) == IF outcome \in set THEN 1 ELSE 0
Held(set) == Has("transmit_success", set) + Has("transmit_discarded", set)
               + Has("transmit_failed", set)
Covered == awaited >= inFlight + Held(pending) + Held(bits)
Logged == log \in Seq(Alerts)

\* Of the three outcomes none to all are held.
LEMMA HeldType == \A set : Held(set) \in Nat
BY DEF Held, Has

\* One callback takes at most the outcome it delivers.
LEMMA PassesCovered ==
  ASSUME Kept, Covered, NEW left, NEW cc, Passes(left, cc)
  PROVE  Covered'
<1>1. /\ inFlight \in Nat /\ awaited \in Int /\ left \in Int
      /\ \/ awaited' = left /\ inFlight' = inFlight
         \/ awaited' = left + 1 /\ inFlight' = inFlight + 1
  BY ReactsTyped, Zenon DEF Kept, Typed, Passes
<1>2. pending' = pending
  BY DEF Passes
<1>3. CASE left = awaited /\ Outcomes \cap bits' = Outcomes \cap bits
  <2>1. Held(bits') = Held(bits)
    BY <1>3 DEF Held, Has, Outcomes
  <2> QED
    BY <1>1, <1>2, <1>3, <2>1, HeldType DEF Covered
<1>4. CASE left = awaited - 1 /\ \E o \in Outcomes : o \in bits /\ bits' = bits \ {o}
  <2>1. Held(bits) = Held(bits') + 1
    BY <1>4 DEF Held, Has, Outcomes
  <2> QED
    BY <1>1, <1>2, <1>4, <2>1, HeldType DEF Covered
<1> QED
  BY <1>3, <1>4 DEF Passes

\* What the stack awaits is never less than nothing.
LEMMA CoveredStays ==
  ASSUME Kept, Covered, [AlertsNext]_alertVars
  PROVE  Covered'
<1>1. inFlight \in Nat /\ awaited \in Int
  BY DEF Kept, Typed
<1>2. CASE CcChanges \/ MessageArrives \/ HardResetArrives
  <2>1. \E kind \in Alerts \ Outcomes : pending' = pending \cup {kind}
    BY <1>2 DEF CcChanges, MessageArrives, HardResetArrives, Alert, Alerts, Outcomes
  <2>2. Held(pending') = Held(pending)
    BY <2>1 DEF Held, Has, Outcomes
  <2> QED
    BY <1>2, <2>2 DEF CcChanges, MessageArrives, HardResetArrives, StackRests, Covered
<1>3. ASSUME NEW outcome \in Outcomes, Concludes(outcome)
      PROVE  Covered'
  <2>1. Held(pending') <= Held(pending) + 1
    BY <1>3 DEF Concludes, Alert, Held, Has
  <2>2. inFlight' = inFlight - 1 /\ awaited' = awaited /\ bits' = bits
    BY <1>3 DEF Concludes, StackRests
  <2> QED
    BY <1>1, <2>1, <2>2, HeldType DEF Covered
<1>4. CASE Submit
  BY <1>4 DEF Submit, StackRests, Covered
<1>5. CASE Deliver
  <2>1. Held({}) = 0
    BY DEF Held, Has
  <2> QED
    BY <1>1, <1>5, <2>1, HeldType DEF Deliver, StackRests, Covered
<1>6. CASE UNCHANGED alertVars
  BY <1>6 DEF alertVars, Covered
<1> QED
  BY <1>2, <1>3, <1>4, <1>5, <1>6, QueuePasses, PassesCovered DEF AlertsNext, Driver

\* Taking one out of a sequence leaves a sequence.
LEMMA WithoutType ==
  ASSUME NEW S, NEW s \in Seq(S), NEW i \in DOMAIN s
  PROVE  Without(s, i) \in Seq(S)
<1>1. i \in 1..Len(s) /\ Len(s) \in Nat
  OBVIOUS
<1>2. SubSeq(s, 1, i - 1) \in Seq(S)
  BY <1>1
<1>3. SubSeq(s, i + 1, Len(s)) \in Seq(S)
  BY <1>1
<1> QED
  BY <1>2, <1>3 DEF Without

\* The history is one of the PHY's events.
LEMMA LogStays ==
  ASSUME log \in Seq(Alerts), [AlertsNext]_alertVars
  PROVE  log' \in Seq(Alerts)
<1>1. ASSUME NEW kind, Leaves(kind)
      PROVE  log' \in Seq(Alerts)
  BY <1>1, WithoutType DEF Leaves
<1>2. ASSUME NEW kind \in Alerts, Happens(kind) \/ log' = Append(log, kind)
      PROVE  log' \in Seq(Alerts)
  BY <1>2 DEF Happens
<1>3. ASSUME Driver \/ Submit
      PROVE  log' \in Seq(Alerts)
  BY <1>2, <1>3 DEF Driver, Submit, CcChanges, MessageArrives, HardResetArrives, Concludes,
    Alerts
<1>4. ASSUME StackWorks \/ Deliver \/ Reports
      PROVE  log' \in Seq(Alerts)
  BY <1>1, <1>4 DEF StackWorks, Deliver, Reports, ReportCc, ReportHardReset, ReportOutcome,
    ReportMessage, Drained
<1>5. CASE UNCHANGED alertVars
  BY <1>5 DEF alertVars
<1> QED
  BY <1>3, <1>4, <1>5 DEF AlertsNext

\* The adapter's state keeps its type: no more outcomes are delivered than
\* transmissions were begun, also where these overlap.
THEOREM AlertsTypeCorrect == AlertsSpec => []AlertsTypeOK
<1>1. AlertsInit => Covered /\ Logged
  BY DEF AlertsInit, Covered, Held, Has, Logged
<1>2. Kept /\ Covered /\ Logged /\ [AlertsNext]_alertVars => Covered' /\ Logged'
  BY CoveredStays, LogStays DEF Logged
<1>3. Kept /\ Covered /\ Logged => AlertsTypeOK
  <2>1. Kept /\ Covered => awaited \in Nat
    BY HeldType DEF Kept, Typed, Covered
  <2> QED
    BY <2>1, Zenon DEF Kept, Typed, Logged, AlertsTypeOK
<1> QED
  BY <1>1, <1>2, <1>3, AlwaysKept, PTL DEF AlertsSpec

-----------------------------------------------------------------------------
(* Where the switches are.                                                  *)

PathTyped ==
  /\ control \in Control /\ failures \in Nat
  /\ position \in Positions /\ next \in Calls /\ recovered \in BOOLEAN

\* notifyEntry has come past the call that would switch `path` off.
Passed(path) ==
  CASE path = "discharge" -> next # "discharge"
    [] path = "source"    -> next \notin {"discharge", "source"}
    [] path = "sink"      -> next \in {"close", "none"}
Unwanted(path) == path \in control.closed /\ path \notin Wanted(position)

\* A path that is closed past its call, and not wanted, took a failure.
Strays == \A path \in Paths : Unwanted(path) /\ Passed(path) => failures > 0

\* Where a position wants the one power path, the other took a failure to be
\* closed still, and another to stay so past its call.
Crossing(path, at) ==
  path \in control.closed /\ position = at
    => failures > 0 /\ (Passed(path) => failures > 1)
Crosses == Crossing("sink", "safe5v") /\ Crossing("source", "sink")

Placed == PathTyped /\ Strays /\ Crosses /\ OnePathUnlessFailed /\ InPosition /\ NeverSourceIntoSink

-----------------------------------------------------------------------------
\* A transfer writes its word, or fails and writes nothing.
LEMMA WriteEffect ==
  ASSUME NEW word, Write(word)
  PROVE  \/ control' = word /\ UNCHANGED failures
         \/ UNCHANGED control /\ failures' = failures + 1
BY DEF Write, Takes

\* A word of the recovery is written, or not.
LEMMA RecoverEffect ==
  ASSUME Recover
  PROVE  \/ control' = AllOpen(control.power) /\ UNCHANGED failures
         \/ UNCHANGED control /\ failures' = failures + 1
BY WriteEffect DEF Recover

\* What the fault handler and the device do to the switches.
Rests == UNCHANGED <<control, recovered>> /\ (UNCHANGED failures \/ failures' = failures + 1)
Recovery ==
  /\ recovered' = TRUE
  /\ \/ control' = AllOpen(control.power) /\ UNCHANGED failures
     \/ UNCHANGED control /\ failures' = failures + 1

LEMMA HandlerEffect ==
  ASSUME HandlerStep \/ DeviceStep
  PROVE  UNCHANGED <<position, next>> /\ (Rests \/ Recovery)
PROOF
<1>1. CASE DeviceStep
  BY <1>1 DEF DeviceStep, Device, RaiseFlags, Subsides, pathVars, Rests
<1>2. CASE HandlerStep
  <2>0. /\ UNCHANGED <<position, next>>
        /\ Recovering => recovered' = TRUE
        /\ ~Recovering => recovered' = recovered
        /\ Handler
    BY <1>2 DEF HandlerStep
  <2>1. CASE HandleFlags
    <3>1. UNCHANGED <<control, failures>> /\ ~Recovering
      BY <2>1 DEF HandleFlags, Recovering
    <3> QED
      BY <2>0, <3>1 DEF Rests
  <2>2. CASE ReadFlags
    <3>1. UNCHANGED control /\ (UNCHANGED failures \/ failures' = failures + 1) /\ ~Recovering
      BY <2>2 DEF ReadFlags, Recovering
    <3> QED
      BY <2>0, <3>1 DEF Rests
  <2>3. CASE RecoverVbus
    <3>1. CASE "OCP_VBUS" \in seen
      <4>1. Recover /\ Recovering
        BY <2>3, <3>1 DEF RecoverVbus, Recovering
      <4> QED
        BY <2>0, <4>1, RecoverEffect DEF Recovery
    <3>2. CASE "OCP_VBUS" \notin seen
      <4>1. UNCHANGED <<control, failures>> /\ ~Recovering
        BY <2>3, <3>2 DEF RecoverVbus, Recovering
      <4> QED
        BY <2>0, <4>1 DEF Rests
    <3> QED
      BY <3>1, <3>2
  <2>4. CASE RecoverVconn
    <3>1. CASE "OCP_VCONN" \in seen
      <4>1. Recover /\ Recovering
        BY <2>4, <3>1 DEF RecoverVconn, Recovering
      <4> QED
        BY <2>0, <4>1, RecoverEffect DEF Recovery
    <3>2. CASE "OCP_VCONN" \notin seen
      <4>1. UNCHANGED <<control, failures>> /\ ~Recovering
        BY <2>4, <3>2 DEF RecoverVconn, Recovering
      <4> QED
        BY <2>0, <4>1 DEF Rests
    <3> QED
      BY <3>1, <3>2
  <2> QED
    BY <2>0, <2>1, <2>2, <2>3, <2>4 DEF Handler
<1> QED
  BY <1>1, <1>2

-----------------------------------------------------------------------------
\* Only the closed switches matter, whichever word they came with.
LEMMA SwitchedField ==
  ASSUME NEW c \in Control, NEW path \in Paths, NEW on \in BOOLEAN
  PROVE  /\ Switched(c, path, on) \in Control
         /\ Switched(c, path, TRUE).closed = c.closed \cup {path}
         /\ Switched(c, path, FALSE).closed = c.closed \ {path}
BY DEF Switched, Control

LEMMA AllOpenField ==
  ASSUME NEW c \in Control
  PROVE  AllOpen(c.power) \in Control /\ AllOpen(c.power).closed = {}
BY DEF AllOpen, Control, Pins

LEMMA InitPlaced == PathInit => Placed
PROOF
<1> SUFFICES ASSUME PathInit PROVE Placed
  OBVIOUS
<1>1. /\ control \in Control /\ control.closed = {} /\ failures = 0
      /\ position = "open" /\ next = "none" /\ recovered \in BOOLEAN
  BY DEF PathInit, DriverInit, AllOpen, Control, Pins
<1> QED
  BY <1>1 DEF Placed, PathTyped, Strays, Unwanted, Crosses, Crossing, OnePathUnlessFailed,
       AtMostOnePath, InPosition, NeverSourceIntoSink, Wanted, Positions, Calls

-----------------------------------------------------------------------------
\* More failures allow no less.
LEMMA AllowedStill ==
  ASSUME Strays, Crosses, control'.closed = control.closed, UNCHANGED <<position, next>>,
         failures \in Nat, failures' \in {failures, failures + 1}
  PROVE  Strays' /\ Crosses'
PROOF
<1>1. \A path \in Paths : Unwanted(path)' = Unwanted(path) /\ Passed(path)' = Passed(path)
  BY DEF Unwanted, Passed
<1>2. (failures > 0 => failures' > 0) /\ (failures > 1 => failures' > 1)
  OBVIOUS
<1>3. Strays'
  BY <1>1, <1>2 DEF Strays
<1>4. "sink" \in Paths /\ "source" \in Paths
  BY DEF Paths
<1>5. Crosses'
  BY <1>1, <1>2, <1>4, Zenon DEF Crosses, Crossing
<1> QED
  BY <1>3, <1>5

\* A transfer that fails, or one that leaves the closed switches, keeps them
\* placed; so does the recovery.
LEMMA RestKeeps ==
  ASSUME Placed, control' \in Control, control'.closed = control.closed,
         UNCHANGED <<position, next, recovered>>, failures' \in {failures, failures + 1}
  PROVE  Placed'
PROOF
<1>1. PathTyped'
  BY DEF Placed, PathTyped
<1>2. Strays' /\ Crosses'
  BY AllowedStill DEF Placed, PathTyped
<1>3. OnePathUnlessFailed' /\ NeverSourceIntoSink'
  BY DEF Placed, PathTyped, OnePathUnlessFailed, AtMostOnePath, NeverSourceIntoSink
<1>4. InPosition'
  BY DEF Placed, PathTyped, InPosition, Wanted, Positions
<1> QED
  BY <1>1, <1>2, <1>3, <1>4 DEF Placed

LEMMA HandlerKeeps == Placed /\ (HandlerStep \/ DeviceStep) => Placed'
PROOF
<1> SUFFICES ASSUME Placed, HandlerStep \/ DeviceStep PROVE Placed'
  OBVIOUS
<1>1. UNCHANGED <<position, next>> /\ (Rests \/ Recovery)
  BY HandlerEffect
<1>2. CASE Rests
  BY <1>1, <1>2, RestKeeps DEF Rests, Placed, PathTyped
<1>3. CASE Recovery /\ UNCHANGED control /\ failures' = failures + 1
  <2>1. failures' > 0 /\ (failures' \leq 1 => failures \leq 1) /\ failures' > failures
    BY <1>3 DEF Placed, PathTyped
  <2>2. PathTyped'
    BY <1>1, <1>3 DEF Placed, PathTyped, Recovery
  <2>3. Strays' /\ Crosses'
    BY <1>1, <1>3, AllowedStill DEF Placed, PathTyped
  <2>4. OnePathUnlessFailed' /\ InPosition' /\ NeverSourceIntoSink'
    BY <1>3, <2>1 DEF Placed, OnePathUnlessFailed, InPosition, NeverSourceIntoSink
  <2> QED
    BY <2>2, <2>3, <2>4 DEF Placed
<1>4. CASE Recovery /\ control' = AllOpen(control.power) /\ UNCHANGED failures
  <2>1. control' \in Control /\ control'.closed = {}
    BY <1>4, AllOpenField DEF Placed, PathTyped
  <2>2. recovered' = TRUE
    BY <1>4 DEF Recovery
  <2>3. PathTyped'
    BY <1>1, <1>4, <2>1, <2>2 DEF Placed, PathTyped
  <2> QED
    BY <2>1, <2>2, <2>3 DEF Placed, Strays, Unwanted, Crosses, Crossing, OnePathUnlessFailed,
       AtMostOnePath, InPosition, NeverSourceIntoSink
<1> QED
  BY <1>1, <1>2, <1>3, <1>4 DEF Recovery

-----------------------------------------------------------------------------
\* Between two positions every call has been passed: where the next position
\* drives VBUS and the sink path is still closed, that took a failure.
LEMMA AnnotateKeeps == Placed /\ Annotate => Placed'
PROOF
<1> SUFFICES ASSUME Placed, Annotate PROVE Placed'
  OBVIOUS
<1>1. /\ UNCHANGED <<control, failures>> /\ next = "none" /\ next' = "discharge"
      /\ position' \in Follow(position) /\ recovered' \in BOOLEAN
  BY DEF Annotate, device
<1>2. PathTyped'
  BY <1>1 DEF Placed, PathTyped, Follow, Positions, Calls
<1>3. Strays' /\ InPosition'
  BY <1>1 DEF Strays, Passed, InPosition, Paths
<1>4. OnePathUnlessFailed' /\ NeverSourceIntoSink'
  BY <1>1 DEF Placed, OnePathUnlessFailed, AtMostOnePath, NeverSourceIntoSink
<1>5. Crosses'
  BY <1>1 DEF Placed, PathTyped, Strays, Unwanted, Passed, Crosses, Crossing, Wanted, Positions,
       Follow, Paths
<1> QED
  BY <1>2, <1>3, <1>4, <1>5 DEF Placed

\* The call that switches an unwanted path off leaves it open, or fails.
LEMMA SwitchOffKeeps == Placed /\ SwitchOff => Placed'
PROOF
<1> SUFFICES ASSUME Placed, SwitchOff PROVE Placed'
  OBVIOUS
<1>1. /\ next \in Paths /\ next' = After(next) /\ UNCHANGED <<position, recovered>>
      /\ control \in Control /\ failures \in Nat
  BY DEF SwitchOff, Placed, PathTyped
<1>2. \/ next \in Wanted(position) /\ UNCHANGED <<control, failures>>
      \/ next \notin Wanted(position) /\ UNCHANGED control /\ failures' = failures + 1
      \/ control' = Switched(control, next, FALSE) /\ UNCHANGED failures
  BY WriteEffect DEF SwitchOff, SetPath, Update, device
<1>3. /\ control' \in Control
      /\ \/ next \in Wanted(position) /\ control'.closed = control.closed /\ failures' = failures
         \/ next \notin Wanted(position) /\ control'.closed = control.closed
              /\ failures' = failures + 1
         \/ control'.closed = control.closed \ {next} /\ failures' = failures
  BY <1>1, <1>2, SwitchedField
<1>4. next' \in Calls \ {"none", "discharge"}
  BY <1>1 DEF After, Calls, Paths
<1>5. PathTyped'
  BY <1>1, <1>3, <1>4 DEF Placed, PathTyped
<1>6. Strays'
  <2> SUFFICES ASSUME NEW path \in Paths, Unwanted(path)', Passed(path)'
               PROVE  failures' > 0
    BY DEF Strays
  <2>1. Unwanted(path)
    BY <1>1, <1>3 DEF Unwanted
  <2>2. CASE path = next
    BY <1>1, <1>3, <2>1, <2>2 DEF Unwanted
  <2>3. CASE path # next
    <3>1. Passed(path)
      BY <1>1, <2>3 DEF Passed, After, Paths
    <3> QED
      BY <1>1, <1>3, <2>1, <3>1 DEF Placed, Strays
  <2> QED
    BY <2>2, <2>3
<1>7. Crosses'
  BY <1>1, <1>3 DEF Placed, Crosses, Crossing, Passed, Wanted, Paths, After
<1>8. OnePathUnlessFailed' /\ NeverSourceIntoSink'
  BY <1>1, <1>3 DEF Placed, OnePathUnlessFailed, AtMostOnePath, NeverSourceIntoSink
<1>9. InPosition'
  BY <1>4 DEF InPosition
<1> QED
  BY <1>5, <1>6, <1>7, <1>8, <1>9 DEF Placed

\* When the wanted path closes, what else is closed took a failure, and the
\* other power path two.
LEMMA CloseKeeps == Placed /\ Close => Placed'
PROOF
<1> SUFFICES ASSUME Placed, Close PROVE Placed'
  OBVIOUS
<1>1. /\ next = "close" /\ next' = "none" /\ UNCHANGED <<position, recovered>>
      /\ control \in Control /\ failures \in Nat /\ position \in Positions
  BY DEF Close, Placed, PathTyped
<1>2. /\ control' \in Control
      /\ \/ UNCHANGED control /\ failures' = failures + 1
         \/ control'.closed = control.closed \cup Wanted(position) /\ failures' = failures
  <2>1. CASE position = "open"
    BY <1>1, <2>1 DEF Close, device, Wanted
  <2>2. CASE position # "open"
    <3>1. PICK path \in Wanted(position) : SetPath(path, TRUE)
      BY <2>2 DEF Close
    <3>2. Wanted(position) = {path} /\ path \in Paths
      BY <1>1, <2>2, <3>1 DEF Wanted, Positions, Paths
    <3>3. \/ control' = Switched(control, path, TRUE) /\ UNCHANGED failures
          \/ UNCHANGED control /\ failures' = failures + 1
      BY <3>1, WriteEffect DEF SetPath, Update
    <3>4. Switched(control, path, TRUE) \in Control
          /\ Switched(control, path, TRUE).closed = control.closed \cup {path}
      BY <1>1, <3>2, SwitchedField
    <3> QED
      BY <1>1, <3>2, <3>3, <3>4
  <2> QED
    BY <2>1, <2>2
<1>3. PathTyped'
  BY <1>1, <1>2 DEF Placed, PathTyped, Calls
<1>4. Strays' /\ Crosses'
  <2>1. \A path \in Paths : Unwanted(path) => failures > 0
    BY <1>1 DEF Placed, Strays, Passed, Paths
  <2>2. /\ "sink" \in control.closed /\ position = "safe5v" => failures > 1
        /\ "source" \in control.closed /\ position = "sink" => failures > 1
    BY <1>1 DEF Placed, Crosses, Crossing, Passed
  <2>3. Strays'
    BY <1>1, <1>2, <2>1 DEF Strays, Unwanted
  <2>4. Crosses'
    BY <1>1, <1>2, <2>2 DEF Crosses, Crossing, Wanted
  <2> QED
    BY <2>3, <2>4
<1>5. OnePathUnlessFailed' /\ InPosition'
  <2> SUFFICES ASSUME failures' = 0
               PROVE  AtMostOnePath' /\ control'.closed = Wanted(position')
    BY DEF OnePathUnlessFailed, InPosition
  <2>1. failures = 0 /\ control'.closed = control.closed \cup Wanted(position)
    BY <1>1, <1>2
  <2>2. \A path \in Paths : path \in control.closed => path \in Wanted(position)
    BY <1>1, <2>1 DEF Placed, Strays, Unwanted, Passed, Paths
  <2>3. control.closed \subseteq Paths
    BY <1>1 DEF Control
  <2>4. control'.closed = Wanted(position)
    BY <2>1, <2>2, <2>3
  <2> QED
    BY <1>1, <2>4 DEF AtMostOnePath, Wanted, Positions
<1>6. NeverSourceIntoSink'
  BY <1>1, <1>2 DEF Placed, Crosses, Crossing, Passed, NeverSourceIntoSink, Wanted, Positions
<1> QED
  BY <1>3, <1>4, <1>5, <1>6 DEF Placed

LEMMA VconnKeeps == Placed /\ SwitchVconn => Placed'
PROOF
<1> SUFFICES ASSUME Placed, SwitchVconn PROVE Placed'
  OBVIOUS
<1>1. control \in Control /\ failures \in Nat
  BY DEF Placed, PathTyped
<1>2. PICK word : /\ Write(word) /\ word \in Control /\ word.closed = control.closed
                  /\ UNCHANGED <<position, next, recovered>>
  <2>1. CASE \E pin \in Pins \ {control.vconn} : SetVconn(pin)
    <3>1. PICK pin \in Pins : SetVconn(pin)
      BY <2>1
    <3> DEFINE word == [control EXCEPT !.vconn = pin]
    <3>2. word \in Control /\ word.closed = control.closed
      BY <1>1 DEF Control
    <3>3. Write(word)
      BY <3>1 DEF SetVconn, Update
    <3> QED
      BY <3>2, <3>3 DEF SwitchVconn, pathVars
  <2>2. CASE SetVconnDischarge(~control.vconn_discharge)
    <3> DEFINE word == [control EXCEPT !.vconn_discharge = ~control.vconn_discharge]
    <3>2. word \in Control /\ word.closed = control.closed
      BY <1>1 DEF Control
    <3>3. Write(word)
      BY <2>2 DEF SetVconnDischarge, Update
    <3> QED
      BY <3>2, <3>3 DEF SwitchVconn, pathVars
  <2> QED
    BY <2>1, <2>2 DEF SwitchVconn
<1>3. /\ control' \in Control /\ control'.closed = control.closed
      /\ failures' \in {failures, failures + 1}
  BY <1>1, <1>2, WriteEffect
<1> QED
  BY <1>2, <1>3, RestKeeps

-----------------------------------------------------------------------------
\* The switches stay placed, whatever faults are raised and however many
\* transfers fail.
THEOREM StaysPlaced == PathSpec => []Placed
PROOF
<1>1. Placed /\ [PathNext]_switchVars => Placed'
  <2> SUFFICES ASSUME Placed, [PathNext]_switchVars PROVE Placed'
    OBVIOUS
  <2>1. CASE UNCHANGED switchVars
    <3>1. UNCHANGED <<control, position, next, recovered, failures>>
      BY <2>1 DEF switchVars, device, pathVars
    <3> QED
      BY <3>1, RestKeeps DEF Placed, PathTyped
  <2> QED
    BY <2>1, AnnotateKeeps, SwitchOffKeeps, CloseKeeps, VconnKeeps, HandlerKeeps DEF PathNext
<1> QED
  BY <1>1, InitPlaced, PTL DEF PathSpec

\* Never two paths at once, on the way from one position to another included
\* (Vbus::notifyEntry), as long as no transfer has failed.
THEOREM OnePath == PathSpec => []OnePathUnlessFailed
BY StaysPlaced, PTL DEF Placed

\* The switches are where the last position wants them, or a recovery since
\* has opened them all: the copy of the register brings no older path back.
THEOREM StaysInPosition == PathSpec => []InPosition
BY StaysPlaced, PTL DEF Placed

\* One failed transfer does not close the source and the sink path at once.
THEOREM NeverIntoItself == PathSpec => []NeverSourceIntoSink
BY StaysPlaced, PTL DEF Placed

-----------------------------------------------------------------------------
(* The types of the switches and of the device's handler.                   *)

\* What a transfer does to the device, apart from the register.
LEMMA WriteTypes ==
  ASSUME DriverTypeOK, NEW word, Write(word)
  PROVE  /\ tripped' \in BOOLEAN /\ flags' \subseteq Flags /\ failures' \in 0..MaxFailures
<1>1. CASE Takes(word) /\ UNCHANGED failures
  BY <1>1 DEF Takes, DriverTypeOK
<1>2. CASE failures < MaxFailures /\ failures' = failures + 1 /\ UNCHANGED <<control, tripped, flags>>
  BY <1>2, FailuresAssumption DEF DriverTypeOK
<1> QED
  BY <1>1, <1>2 DEF Write

\* The stack's calls.
LEMMA UpdateTypes ==
  ASSUME DriverTypeOK, control' \in Control, NEW word, Update(word)
  PROVE  DriverTypeOK'
BY WriteTypes, Zenon DEF Update, handling, DriverTypeOK

\* The handler's steps and the device's.
LEMMA DeviceTypes ==
  ASSUME DriverTypeOK, control' \in Control, Handler \/ Device
  PROVE  DriverTypeOK'
<1>1. CASE HandleFlags
  BY <1>1 DEF HandleFlags, DriverTypeOK
<1>2. CASE ReadFlags
  BY <1>2, FailuresAssumption DEF ReadFlags, DriverTypeOK
<1>3. CASE RecoverVbus \/ RecoverVconn
  <2>1. \/ \E word : Write(word)
        \/ UNCHANGED <<control, tripped, flags, failures>>
    BY <1>3 DEF RecoverVbus, RecoverVconn, Recover
  <2>2. UNCHANGED <<work, seen>> /\ handler' \in {"idle", "vconn"}
    BY <1>3 DEF RecoverVbus, RecoverVconn
  <2>3. tripped' \in BOOLEAN /\ flags' \subseteq Flags /\ failures' \in 0..MaxFailures
    BY <2>1, WriteTypes DEF DriverTypeOK
  <2> QED
    BY <2>2, <2>3 DEF DriverTypeOK
<1>4. ASSUME NEW new \in SUBSET Faults, RaiseFlags(new)
      PROVE  DriverTypeOK'
  <2>1. flags' \subseteq Flags
    BY <1>4, FaultsAssumption DEF RaiseFlags, DriverTypeOK
  <2>2. work' \in BOOLEAN /\ tripped' \in BOOLEAN
    BY <1>4, Zenon DEF RaiseFlags, DriverTypeOK
  <2> QED
    BY <1>4, <2>1, <2>2 DEF RaiseFlags, DriverTypeOK, handling
<1>5. ASSUME NEW flag \in Faults, Subsides(flag)
      PROVE  DriverTypeOK'
  BY <1>5 DEF Subsides, DriverTypeOK, handling
<1> QED
  BY <1>1, <1>2, <1>3, <1>4, <1>5 DEF Handler, Device

\* The switches' state and the handler's keep their types: the VCONN switch is
\* on one pin, whatever writes the register.
THEOREM PathTypeCorrect == PathSpec => []PathTypeOK
<1>1. PathInit => PathTypeOK
  <2> SUFFICES ASSUME PathInit PROVE PathTypeOK
    OBVIOUS
  <2>1. control \in Control
    BY DEF PathInit, DriverInit, AllOpen, Control, Pins
  <2>2. failures \in 0..MaxFailures
    BY FailuresAssumption DEF PathInit, DriverInit
  <2>3. /\ tripped \in BOOLEAN /\ work \in BOOLEAN /\ recovered \in BOOLEAN
        /\ flags \subseteq Flags /\ seen \subseteq Flags
        /\ handler \in {"idle", "read", "vbus", "vconn"}
        /\ position \in Positions /\ next \in Calls
    BY Zenon DEF PathInit, DriverInit, Positions, Calls
  <2> QED
    BY <2>1, <2>2, <2>3, Zenon DEF PathTypeOK, DriverTypeOK
<1>2. Placed /\ Placed' /\ PathTypeOK /\ [PathNext]_switchVars => PathTypeOK'
  <2> SUFFICES ASSUME Placed, Placed', PathTypeOK, [PathNext]_switchVars
               PROVE  PathTypeOK'
    OBVIOUS
  <2>1. /\ control' \in Control
        /\ position' \in Positions /\ next' \in Calls /\ recovered' \in BOOLEAN
        /\ DriverTypeOK
    BY DEF Placed, PathTyped, PathTypeOK
  <2>2. ASSUME UNCHANGED <<device, handling>>
        PROVE  DriverTypeOK'
    BY <2>1, <2>2 DEF device, handling, DriverTypeOK
  <2>3. ASSUME Annotate \/ SwitchOff \/ Close \/ SwitchVconn
        PROVE  DriverTypeOK'
    <3>1. UNCHANGED <<device, handling>> \/ \E word : Update(word)
      BY <2>3 DEF Annotate, SwitchOff, Close, SwitchVconn, SetPath, SetVconn, SetVconnDischarge
    <3> QED
      BY <2>1, <2>2, <3>1, UpdateTypes
  <2>4. ASSUME HandlerStep \/ DeviceStep
        PROVE  DriverTypeOK'
    BY <2>1, <2>4, DeviceTypes DEF HandlerStep, DeviceStep
  <2>5. ASSUME UNCHANGED switchVars
        PROVE  DriverTypeOK'
    BY <2>2, <2>5, Zenon DEF switchVars
  <2>6. DriverTypeOK'
    BY <2>3, <2>4, <2>5, Zenon DEF PathNext
  <2> QED
    BY <2>1, <2>6 DEF PathTypeOK
<1> QED
  BY <1>1, <1>2, StaysPlaced, PTL DEF PathSpec

-----------------------------------------------------------------------------
(* The sampling.                                                            *)

\* The calls on the work item.
LEMMA WorkTypes ==
  ASSUME NEW w \in Work
  PROVE  /\ Begun(w) \in Work /\ Ended(w) \in Work /\ ScheduleDelayed(w) \in Work
         /\ ScheduleNow(w) \in Work
         /\ \A running \in BOOLEAN : Cancel(w, running) \in Work
         /\ ScheduleDelayed(w).delayed
         /\ Ended(w).delayed = w.delayed /\ Ended(w).queued = w.queued /\ ~Ended(w).canceling
         /\ ~w.canceling => ScheduleNow(w).queued
         /\ ScheduleDelayed(w).canceling = w.canceling /\ Begun(w).canceling = w.canceling
         /\ ScheduleNow(w).canceling = w.canceling
BY DEF Begun, Ended, ScheduleDelayed, ScheduleNow, Cancel, Idle, Work

Samplings == [level : Levels, owed : BOOLEAN, item : Work]

\* Arming a level.
LEMMA ArmedType ==
  ASSUME NEW s \in Samplings, NEW level \in Levels, NEW running \in BOOLEAN
  PROVE  /\ Armed(s, level, running) \in Samplings
         /\ Armed(s, level, running).level = level
         /\ level # "unwatched" => /\ Armed(s, level, running).owed
                                   /\ Armed(s, level, running).item = ScheduleNow(s.item)
         /\ level = "unwatched" => Armed(s, level, running).item = Cancel(s.item, running)
BY WorkTypes DEF Armed, Samplings

\* Arming one after the other.
LEMMA AlongType ==
  ASSUME NEW s \in Samplings, NEW via \in SUBSET Levels, NEW to \in Levels
  PROVE  /\ Along(s, via, to) \in Samplings
         /\ Along(s, via, to).level = to
         /\ to # "unwatched" => Along(s, via, to).owed
<1> DEFINE passed == IF "unwatched" \in via THEN Armed(s, "unwatched", TRUE) ELSE s
           t == [passed EXCEPT !.owed = @ \/ via \ {"unwatched"} # {}]
<1>1. "unwatched" \in Levels
  BY DEF Levels
<1>2. passed \in Samplings
  BY <1>1, ArmedType
<1>3. t \in Samplings
  <2> HIDE DEF passed
  <2>1. (passed.owed \/ via \ {"unwatched"} # {}) \in BOOLEAN
    BY Zenon
  <2> QED
    BY <1>2, <2>1 DEF Samplings
<1>4. Along(s, via, to) = Armed(t, to, TRUE)
  BY DEF Along
<1> HIDE DEF t
<1> QED
  BY <1>3, <1>4, ArmedType

\* A watched level is being sampled: its work item is on the queue or its delay
\* runs, whatever was cancelled while it ran.
Watching ==
  /\ ~item.canceling
  /\ monitored # "unwatched" => item.queued \/ item.delayed

\* The connection machine was told what was sampled last, or is owed it.
ToldLast == monitored # "unwatched" /\ ~owed => told = (IF met THEN "met" ELSE "unmet")

SamplingKept == SamplingTypeOK /\ Watching /\ ToldLast

LEMMA SamplingStays == SamplingKept /\ [SamplingNext]_samplingVars => SamplingKept'
<1> SUFFICES ASSUME SamplingKept, [SamplingNext]_samplingVars
             PROVE  SamplingKept'
  OBVIOUS
<1> USE DEF SamplingKept
<1>1. /\ Sampling \in Samplings /\ item \in Work /\ Sampling.item = item
      /\ Reporting \in Samplings /\ Reporting.level = monitored /\ ~Reporting.owed
      /\ Meets(monitored, volts) \in BOOLEAN
  <2>1. item \in Work /\ Begun(item) \in Work
    BY WorkTypes DEF SamplingTypeOK
  <2>2. Meets(monitored, volts) \in BOOLEAN
    <3>1. CASE monitored \in {"safe0v", "safe5v"}
      BY <3>1 DEF Meets
    <3>2. CASE monitored \notin {"safe0v", "safe5v"}
      <4>1. Meets(monitored, volts) = (volts = "safe0v" \/ volts = "low")
        BY <3>2 DEF Meets
      <4>2. (volts = "safe0v" \/ volts = "low") \in BOOLEAN
        BY Zenon
      <4> QED
        BY <4>1, <4>2, Zenon
    <3> QED
      BY <3>1, <3>2
  <2> QED
    BY <2>1, <2>2 DEF SamplingTypeOK, Sampling, Samplings, Reporting
<1>2. CASE VbusChanges
  BY <1>2 DEF VbusChanges, SamplingTypeOK, Watching, ToldLast
<1>3. CASE Elapses
  BY <1>1, <1>3, WorkTypes DEF Elapses, SamplingTypeOK, Watching, ToldLast
<1>4. ASSUME NEW level \in Levels, Arm(level)
      PROVE  SamplingKept'
  <2> DEFINE s == Armed(Sampling, level, FALSE)
  <2>1. /\ s \in Samplings /\ s.level = level
        /\ level # "unwatched" => s.owed /\ s.item = ScheduleNow(item)
        /\ level = "unwatched" => s.item = Cancel(item, FALSE)
    BY <1>1, ArmedType
  <2>2. monitored' = level /\ owed' = s.owed /\ item' = s.item /\ told' = "none"
        /\ UNCHANGED <<volts, met>>
    BY <1>4, <2>1 DEF Arm, Becomes
  <2>3. SamplingTypeOK'
    BY <2>1, <2>2 DEF SamplingTypeOK, Samplings
  <2>4. ~Cancel(item, FALSE).canceling
    BY DEF Cancel, Idle
  <2>5. level # "unwatched" => item'.queued /\ ~item'.canceling
    <3>1. ScheduleNow(item).queued /\ ~ScheduleNow(item).canceling
      BY <1>1 DEF Watching, ScheduleNow, Work
    <3> QED
      BY <2>1, <2>2, <3>1
  <2>6. Watching'
    BY <2>1, <2>2, <2>4, <2>5 DEF Watching
  <2>7. ToldLast'
    BY <2>1, <2>2 DEF ToldLast
  <2> QED
    BY <2>3, <2>6, <2>7
<1>5. ASSUME NEW s \in Samplings, Again(s)
      PROVE  /\ monitored' = s.level /\ owed' = s.owed /\ item' \in Work
             /\ item'.delayed /\ ~item'.canceling
  <2>1. item' = Ended(ScheduleDelayed(s.item)) /\ monitored' = s.level /\ owed' = s.owed
    BY <1>5 DEF Again, Becomes, Samplings
  <2> QED
    BY <2>1, WorkTypes DEF Samplings
<1>6. CASE Report
  <2>1. told' = (IF met' THEN "met" ELSE "unmet") /\ met' \in BOOLEAN /\ volts' = volts
    BY <1>1, <1>6 DEF Report, Sampled
  <2>2. /\ monitored' = monitored /\ owed' = Reporting.owed /\ item' \in Work
        /\ item'.delayed /\ ~item'.canceling
    BY <1>1, <1>5, <1>6 DEF Report
  <2>3. owed' \in BOOLEAN
    BY <1>1, <2>2 DEF Samplings
  <2> QED
    BY <2>1, <2>2, <2>3 DEF SamplingTypeOK, Watching, ToldLast
<1>7. ASSUME NEW via \in SUBSET Levels, NEW to \in Levels, ReportLeads(via, to)
      PROVE  SamplingKept'
  <2> DEFINE s == Along(Reporting, via, to)
  <2>1. s \in Samplings /\ s.level = to /\ (to # "unwatched" => s.owed)
    BY <1>1, AlongType
  <2>2. /\ monitored' = to /\ owed' = s.owed /\ item' \in Work
        /\ item'.delayed /\ ~item'.canceling
    BY <1>5, <1>7, <2>1 DEF ReportLeads
  <2>3. told' = "none" /\ met' \in BOOLEAN /\ volts' = volts
    BY <1>1, <1>7 DEF ReportLeads, Sampled
  <2>4. owed' \in BOOLEAN
    BY <2>1, <2>2 DEF Samplings
  <2> QED
    BY <2>1, <2>2, <2>3, <2>4 DEF SamplingTypeOK, Watching, ToldLast
<1>8. CASE Quiet
  <2>1. item' = ScheduleDelayed(Begun(item)) /\ UNCHANGED <<volts, monitored, met, owed, told>>
    BY <1>8 DEF Quiet
  <2> QED
    BY <1>1, <2>1, WorkTypes DEF SamplingTypeOK, Watching, ToldLast
<1>9. CASE UNCHANGED samplingVars
  BY <1>9 DEF samplingVars, SamplingTypeOK, Watching, ToldLast
<1> QED
  BY <1>2, <1>3, <1>4, <1>6, <1>7, <1>8, <1>9 DEF SamplingNext, Poll

\* Every level that is watched goes on being sampled, and what the connection
\* machine was told of it is the last sample: the safety half of SteadyIsTold.
THEOREM SamplingGoesOn == SamplingSpec => [](SamplingTypeOK /\ Watching /\ ToldLast)
<1>1. SamplingInit => SamplingKept
  <2> SUFFICES ASSUME SamplingInit PROVE SamplingKept
    OBVIOUS
  <2>1. monitored \in Levels /\ item \in Work /\ ~item.canceling
    BY DEF SamplingInit, Levels, Idle, Work
  <2>2. met \in BOOLEAN /\ owed \in BOOLEAN
    BY Zenon DEF SamplingInit
  <2> QED
    BY <2>1, <2>2 DEF SamplingInit, SamplingKept, SamplingTypeOK, Watching, ToldLast
<1> QED
  BY <1>1, SamplingStays, PTL DEF SamplingSpec, SamplingKept

-----------------------------------------------------------------------------
(* The adapters side by side.                                               *)

\* Side by side each of them behaves as it does alone: what is proved of one is
\* true of it there.
THEOREM EachAlone == Spec => AlertsSpec /\ SamplingSpec /\ PathSpec
<1>1. Init => AlertsInit /\ SamplingInit /\ PathInit
  BY DEF Init
<1>2. [Next]_vars => [AlertsNext]_alertVars
  BY DEF Next, AlertsStep, SamplingStep, SwitchingStep, vars
<1>3. [Next]_vars => [SamplingNext]_samplingVars
  BY DEF Next, AlertsStep, SamplingStep, SwitchingStep, vars
<1>4. [Next]_vars => [PathNext]_switchVars
  BY DEF Next, AlertsStep, SamplingStep, SwitchingStep, vars
<1> QED
  BY <1>1, <1>2, <1>3, <1>4, PTL DEF Spec, AlertsSpec, SamplingSpec, PathSpec

\* The state of each adapter keeps its type.
THEOREM AdaptersTypeCorrect == Spec => []AdaptersTypeOK
<1>1. AlertsTypeOK /\ SamplingTypeOK /\ PathTypeOK => AdaptersTypeOK
  BY DEF AdaptersTypeOK
<1> QED
  BY <1>1, EachAlone, AlertsTypeCorrect, SamplingGoesOn, PathTypeCorrect, PTL
=============================================================================
