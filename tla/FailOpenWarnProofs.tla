------------------------- MODULE FailOpenWarnProofs -------------------------
(***************************************************************************)
(* WarningsSpaced and OutageWarned for every set of requests, every        *)
(* interval and every bound on the clock.                                  *)
(***************************************************************************)
EXTENDS FailOpenWarn, TLAPS

Types ==
    /\ clock \in Nat \ {0} /\ lastWarn \in Nat
    /\ wpc \in [Requests -> {"idle", "stamped", "loaded", "done"}]
    /\ now \in [Requests -> Nat] /\ prev \in [Requests -> Nat]
    /\ warned \subseteq Requests /\ wonAt \in [Requests -> Nat]

\* The stamp is the newest of the requests that logged; 0 when none has.
StampIsNewest ==
    /\ lastWarn # 0 => \E w \in warned : now[w] = lastWarn
    /\ lastWarn = 0 => warned = {}
    /\ \A w \in warned :
          wpc[w] = "done" /\ now[w] <= lastWarn /\ now[w] <= wonAt[w]

StampsArePast == \A r \in Requests : now[r] <= clock /\ (wpc[r] # "idle" => now[r] > 0)

\* A request at the compare-and-swap loaded a stamp that allows it to log; and if the
\* stamp has been replaced meanwhile, the winner came after this request was stamped.
LoadedIsOldOrRaced ==
    \A r \in Requests : wpc[r] = "loaded" =>
        /\ prev[r] = 0 \/ now[r] - prev[r] >= failOpenWarnInterval
        /\ prev[r] # lastWarn => \E w \in warned : wonAt[w] >= now[r]

Inv ==
    /\ Types /\ StampIsNewest /\ StampsArePast /\ LoadedIsOldOrRaced
    /\ WarningsSpaced /\ OutageWarned

\* Nothing is logged at the start.
LEMMA InitInv == WarnInit => Inv
  BY DEF WarnInit, Inv, Types, StampIsNewest, StampsArePast, LoadedIsOldOrRaced,
         WarningsSpaced, OutageWarned

\* A stamp is taken from the clock and touches no request that has logged.
LEMMA StampInv == ASSUME Inv, NEW r \in Requests, Stamp(r) PROVE Inv'
  <1> USE WarnAssumption DEF Inv, Types, Stamp
  <1>1. Types' OBVIOUS
  <1>2. r \notin warned BY DEF StampIsNewest
  <1>3. StampIsNewest' BY <1>2 DEF StampIsNewest
  <1>4. StampsArePast' BY DEF StampsArePast
  <1>5. LoadedIsOldOrRaced' BY DEF LoadedIsOldOrRaced
  <1>6. WarningsSpaced' BY <1>2 DEF WarningsSpaced
  <1>7. OutageWarned' BY <1>2 DEF OutageWarned
  <1> QED BY <1>1, <1>3, <1>4, <1>5, <1>6, <1>7

\* A load either finds a recent stamp, whose owner has logged, or an old one.
LEMMA LoadInv == ASSUME Inv, NEW r \in Requests, Load(r) PROVE Inv'
  <1> USE WarnAssumption DEF Inv, Types, Load
  <1>1. Types' OBVIOUS
  <1>2. r \notin warned BY DEF StampIsNewest
  <1>3. StampIsNewest' BY <1>2 DEF StampIsNewest
  <1>4. StampsArePast' BY DEF StampsArePast
  <1>5. LoadedIsOldOrRaced' BY DEF LoadedIsOldOrRaced
  <1>6. WarningsSpaced' BY DEF WarningsSpaced
  <1>7. OutageWarned'
    <2> SUFFICES ASSUME NEW q \in Requests, wpc'[q] = "done", q \notin warned
                 PROVE  \E w \in warned : wonAt[w] > now[q] - failOpenWarnInterval
      BY DEF OutageWarned
    <2>1. CASE q # r BY <2>1 DEF OutageWarned
    <2>2. CASE q = r
      <3>1. lastWarn # 0 /\ now[r] - lastWarn < failOpenWarnInterval BY <2>2
      <3>2. PICK w \in warned : now[w] = lastWarn BY <3>1 DEF StampIsNewest
      <3> QED BY <2>2, <3>1, <3>2 DEF StampIsNewest
    <2> QED BY <2>1, <2>2
  <1> QED BY <1>1, <1>3, <1>4, <1>5, <1>6, <1>7

\* The winner's stamp is an interval behind every other that was logged, and its
\* compare-and-swap comes after the stamps of all requests now at theirs.
LEMMA CompareAndSwapInv == ASSUME Inv, NEW r \in Requests, CompareAndSwap(r) PROVE Inv'
  <1> USE WarnAssumption DEF Inv, Types, CompareAndSwap
  <1>1. Types' OBVIOUS
  <1>2. r \notin warned BY DEF StampIsNewest
  <1>3. now[r] > 0 /\ now[r] <= clock BY DEF StampsArePast
  <1>4. StampsArePast' BY DEF StampsArePast
  <1>5. CASE lastWarn = prev[r]
    <2> USE <1>5
    <2>1. lastWarn' = now[r] /\ warned' = warned \cup {r} /\ now' = now
          /\ wonAt' = [wonAt EXCEPT ![r] = clock]
      OBVIOUS
    <2>2. \A w \in warned : now[w] + failOpenWarnInterval <= now[r]
      BY DEF StampIsNewest, LoadedIsOldOrRaced
    <2>3. StampIsNewest' BY <1>2, <1>3, <2>1, <2>2 DEF StampIsNewest
    <2>4. LoadedIsOldOrRaced'
      <3> SUFFICES ASSUME NEW q \in Requests, wpc'[q] = "loaded"
                   PROVE  /\ prev[q] = 0 \/ now[q] - prev[q] >= failOpenWarnInterval
                          /\ \E w \in warned' : wonAt'[w] >= now[q]
        BY <2>1 DEF LoadedIsOldOrRaced
      <3>1. wpc[q] = "loaded" OBVIOUS
      <3>2. r \in warned' /\ wonAt'[r] = clock BY <2>1
      <3> QED BY <3>1, <3>2 DEF LoadedIsOldOrRaced, StampsArePast
    <2>5. WarningsSpaced' BY <2>1, <2>2 DEF WarningsSpaced
    <2>6. OutageWarned' BY <1>2, <2>1 DEF OutageWarned
    <2> QED BY <1>1, <1>4, <2>3, <2>4, <2>5, <2>6
  <1>6. CASE lastWarn # prev[r]
    <2> USE <1>6
    <2>1. StampIsNewest' BY DEF StampIsNewest
    <2>2. LoadedIsOldOrRaced' BY DEF LoadedIsOldOrRaced
    <2>3. WarningsSpaced' BY DEF WarningsSpaced
    <2>4. PICK w \in warned : wonAt[w] >= now[r] BY DEF LoadedIsOldOrRaced
    <2>5. OutageWarned' BY <2>4 DEF OutageWarned
    <2> QED BY <1>1, <1>4, <2>1, <2>2, <2>3, <2>5
  <1> QED BY <1>5, <1>6

\* Time only makes stamps older.
LEMMA TickInv == ASSUME Inv, Tick PROVE Inv'
  <1> USE WarnAssumption DEF Inv, Types, Tick
  <1>1. Types' OBVIOUS
  <1>2. StampIsNewest' BY DEF StampIsNewest
  <1>3. StampsArePast' BY DEF StampsArePast
  <1>4. LoadedIsOldOrRaced' BY DEF LoadedIsOldOrRaced
  <1>5. WarningsSpaced' BY DEF WarningsSpaced
  <1>6. OutageWarned' BY DEF OutageWarned
  <1> QED BY <1>1, <1>2, <1>3, <1>4, <1>5, <1>6

LEMMA StutterInv == ASSUME Inv, UNCHANGED warnVars PROVE Inv'
  BY DEF warnVars, Inv, Types, StampIsNewest, StampsArePast, LoadedIsOldOrRaced,
         WarningsSpaced, OutageWarned

LEMMA Invariance == WarnSpec => []Inv
  <1>1. Inv /\ [WarnNext]_warnVars => Inv'
    BY StampInv, LoadInv, CompareAndSwapInv, TickInv, StutterInv DEF WarnNext
  <1> QED BY <1>1, InitInv, PTL DEF WarnSpec

\* warnFailOpen logs at most one warning per interval of stamps, for any number of
\* racing requests.
THEOREM WarningsThrottled == WarnSpec => []WarningsSpaced
  BY Invariance, PTL DEF Inv

\* warnFailOpen never lets an outage go unlogged: a silent request has another's warning
\* close before it or after.
THEOREM OutageReported == WarnSpec => []OutageWarned
  BY Invariance, PTL DEF Inv
=============================================================================
