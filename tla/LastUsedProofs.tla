--------------------------- MODULE LastUsedProofs ---------------------------
(***************************************************************************)
(* Proofs about LastUsed: what the debounce table guarantees, for every    *)
(* number of requests and every debounce period.                           *)
(***************************************************************************)
EXTENDS LastUsed, TLAPS

\* A call's dates: it decides to write after its lookup, and only then has a date.
DatesOK ==
    \A c \in Calls :
        /\ pc[c] = "new" => addedAt[c] = Never
        /\ pc[c] = "add" => addedAt[c] = Never /\ usedAt[c] >= 0
        /\ pc[c] = "write" => addedAt[c] >= usedAt[c] /\ addedAt[c] >= 0

\* Unless it was evicted, the entry covers the debounce period of every Add.
EntryCovers ==
    ~evicted => \A c \in Calls : addedAt[c] # Never => addedAt[c] + Debounce <= touchedUntil

\* A call about to add either looked up after the periods of all Adds, or was overtaken.
MissExplained ==
    ~evicted => \A c, d \in Calls :
        c # d /\ addedAt[c] # Never /\ pc[d] = "add" =>
            raced[d] \/ usedAt[d] > addedAt[c] + Debounce

\* last_used_at is t or later, or a write that will make it so is under way.
Recorded(t) == lastUsed >= t \/ \E d \in Calls : pc[d] = "write" /\ addedAt[d] >= t

\* The entry, and every use of the key that is over, is recorded up to the period.
UsesRecorded ==
    ~failed =>
        /\ touchedUntil # Never => Recorded(touchedUntil - Debounce)
        /\ \A c \in Calls : pc[c] = "done" => Recorded(usedAt[c] - Debounce)

TouchInv ==
    TypeOK /\ DatesOK /\ EntryCovers /\ MissExplained /\ SecondTouchOverlaps /\ UsesRecorded

-----------------------------------------------------------------------------

\* Every step keeps the types and the order of a call's dates.
LEMMA TouchTypeNext == TypeOK /\ DatesOK /\ [Next]_vars => TypeOK' /\ DatesOK'
<1> SUFFICES ASSUME TypeOK, DatesOK, [Next]_vars PROVE TypeOK' /\ DatesOK'
  OBVIOUS
<1> USE TouchAssumption DEF TypeOK, DatesOK, Never
<1>1. ASSUME NEW c \in Calls, TouchedGet(c) PROVE TypeOK' /\ DatesOK'
  BY <1>1 DEF TouchedGet
<1>2. ASSUME NEW c \in Calls, TouchedAdd(c) PROVE TypeOK' /\ DatesOK'
  BY <1>2 DEF TouchedAdd
<1>3. ASSUME NEW c \in Calls, TouchLastUsedAt(c) PROVE TypeOK' /\ DatesOK'
  BY <1>3 DEF TouchLastUsedAt
<1>4. ASSUME NEW c \in Calls, TouchFails(c) PROVE TypeOK' /\ DatesOK'
  BY <1>4 DEF TouchFails
<1>5. CASE Evict
  BY <1>5 DEF Evict
<1>6. CASE Tick
  BY <1>6 DEF Tick
<1>7. CASE UNCHANGED vars
  BY <1>7 DEF vars
<1> QED
  BY <1>1, <1>2, <1>3, <1>4, <1>5, <1>6, <1>7 DEF Next

\* Every step keeps the account of who may add within a period of another Add.
LEMMA OverlapNext ==
    TypeOK /\ DatesOK /\ EntryCovers /\ MissExplained /\ SecondTouchOverlaps /\ [Next]_vars
        => EntryCovers' /\ MissExplained' /\ SecondTouchOverlaps'
<1> DEFINE Goal == EntryCovers /\ MissExplained /\ SecondTouchOverlaps
<1> SUFFICES ASSUME TypeOK, DatesOK, EntryCovers, MissExplained, SecondTouchOverlaps, [Next]_vars
             PROVE Goal'
  OBVIOUS
<1> USE TouchAssumption DEF TypeOK, DatesOK, Never, EntryCovers, MissExplained,
                            SecondTouchOverlaps
<1>1. ASSUME NEW c \in Calls, TouchedGet(c) PROVE Goal'
  <2>1. EntryCovers' /\ SecondTouchOverlaps'
    BY <1>1 DEF TouchedGet
  <2>2. MissExplained'
    BY <1>1 DEF TouchedGet
  <2> QED BY <2>1, <2>2
<1>2. ASSUME NEW c \in Calls, TouchedAdd(c) PROVE Goal'
  <2>1. EntryCovers'
    BY <1>2 DEF TouchedAdd
  <2>2. MissExplained'
    BY <1>2 DEF TouchedAdd
  <2>3. SecondTouchOverlaps'
    BY <1>2 DEF TouchedAdd
  <2> QED BY <2>1, <2>2, <2>3
<1>3. ASSUME NEW c \in Calls, TouchLastUsedAt(c) PROVE Goal'
  BY <1>3 DEF TouchLastUsedAt
<1>4. ASSUME NEW c \in Calls, TouchFails(c) PROVE Goal'
  BY <1>4 DEF TouchFails
<1>5. CASE Evict
  BY <1>5 DEF Evict
<1>6. CASE Tick
  BY <1>6 DEF Tick
<1>7. CASE UNCHANGED vars
  BY <1>7 DEF vars
<1> QED
  BY <1>1, <1>2, <1>3, <1>4, <1>5, <1>6, <1>7 DEF Next

\* What is recorded stays recorded unless a write fails.
LEMMA RecordedNext ==
    ASSUME TypeOK, DatesOK, [Next]_vars, ~failed', NEW t \in Int, Recorded(t)
    PROVE  Recorded(t)'
<1> USE TouchAssumption DEF TypeOK, DatesOK, Never, Recorded
<1>1. ASSUME NEW c \in Calls, TouchedGet(c) PROVE Recorded(t)'
  BY <1>1 DEF TouchedGet
<1>2. ASSUME NEW c \in Calls, TouchedAdd(c) PROVE Recorded(t)'
  BY <1>2 DEF TouchedAdd
<1>3. ASSUME NEW c \in Calls, TouchLastUsedAt(c) PROVE Recorded(t)'
  BY <1>3 DEF TouchLastUsedAt
<1>4. ASSUME NEW c \in Calls, TouchFails(c) PROVE Recorded(t)'
  BY <1>4 DEF TouchFails
<1>5. CASE Evict
  BY <1>5 DEF Evict
<1>6. CASE Tick
  BY <1>6 DEF Tick
<1>7. CASE UNCHANGED vars
  BY <1>7 DEF vars
<1> QED
  BY <1>1, <1>2, <1>3, <1>4, <1>5, <1>6, <1>7 DEF Next

\* Every step keeps the entry and the finished uses recorded.
LEMMA UsesNext == TypeOK /\ DatesOK /\ UsesRecorded /\ [Next]_vars => UsesRecorded'
<1> DEFINE EntryRecorded == touchedUntil # Never => Recorded(touchedUntil - Debounce)
           UseRecorded(c) == pc[c] = "done" => Recorded(usedAt[c] - Debounce)
<1> SUFFICES ASSUME TypeOK, DatesOK, UsesRecorded, [Next]_vars, ~failed'
             PROVE  EntryRecorded' /\ \A c \in Calls : UseRecorded(c)'
  BY DEF UsesRecorded
<1>0. ~failed
  BY DEF Next, vars, TouchedGet, TouchedAdd, TouchLastUsedAt, TouchFails, Evict, Tick
<1>1. EntryRecorded /\ \A c \in Calls : UseRecorded(c)
  BY <1>0 DEF UsesRecorded
<1>2. /\ touchedUntil \in Int /\ touchedUntil - Debounce \in Int
      /\ \A c \in Calls : usedAt[c] \in Int /\ usedAt[c] - Debounce \in Int
  BY TouchAssumption DEF TypeOK, Never
<1>3. \A t \in Int : Recorded(t) => Recorded(t)'
  BY RecordedNext
<1>4. ASSUME touchedUntil' = touchedUntil PROVE EntryRecorded'
  BY <1>1, <1>2, <1>3, <1>4 DEF Never, Recorded
<1>5. EntryRecorded'
  <2>1. ASSUME NEW d \in Calls, TouchedAdd(d) PROVE EntryRecorded'
    BY <2>1, TouchAssumption DEF TouchedAdd, TypeOK, Recorded, Never
  <2>2. CASE Evict
    BY <2>2 DEF Evict, Never
  <2> QED
    BY <1>4, <2>1, <2>2 DEF Next, vars, TouchedGet, TouchLastUsedAt, TouchFails, Tick
<1>6. ASSUME NEW c \in Calls PROVE UseRecorded(c)'
  <2>1. ASSUME usedAt'[c] = usedAt[c], pc'[c] = "done" => pc[c] = "done"
        PROVE  UseRecorded(c)'
    BY <1>1, <1>2, <1>3, <2>1 DEF Recorded
  <2>2. ASSUME NEW d \in Calls, TouchedGet(d) PROVE UseRecorded(c)'
    <3>1. CASE d # c
      BY <2>1, <2>2, <3>1 DEF TouchedGet, TypeOK
    <3>2. CASE d = c
      <4>1. ASSUME pc'[c] = "done" PROVE clock <= touchedUntil /\ usedAt'[c] = clock
        BY <2>2, <3>2, <4>1 DEF TouchedGet, TypeOK
      <4> QED
        BY <1>5, <2>2, <4>1, TouchAssumption DEF TouchedGet, Recorded, TypeOK, Never
    <3> QED BY <3>1, <3>2
  <2>3. ASSUME NEW d \in Calls, TouchedAdd(d) PROVE UseRecorded(c)'
    BY <2>1, <2>3 DEF TouchedAdd, TypeOK
  <2>4. ASSUME NEW d \in Calls, TouchLastUsedAt(d) PROVE UseRecorded(c)'
    BY <2>4, TouchAssumption DEF TouchLastUsedAt, Recorded, TypeOK, Never
  <2>5. ASSUME NEW d \in Calls, TouchFails(d) PROVE FALSE
    BY <2>5 DEF TouchFails
  <2> QED
    BY <2>1, <2>2, <2>3, <2>4, <2>5 DEF Next, vars, Evict, Tick
<1> QED BY <1>5, <1>6

\* The invariant holds initially and every step keeps it.
LEMMA TouchInvariant == Spec => []TouchInv
<1>1. Init => TouchInv
  <2> SUFFICES ASSUME Init PROVE TouchInv
    OBVIOUS
  <2> USE TouchAssumption DEF Init, Never
  <2>0. raced \in [Calls -> BOOLEAN] /\ evicted \in BOOLEAN /\ failed \in BOOLEAN
    BY Zenon
  <2>1. TypeOK /\ DatesOK
    BY <2>0 DEF TypeOK, DatesOK
  <2>2. EntryCovers /\ MissExplained /\ SecondTouchOverlaps
    BY DEF EntryCovers, MissExplained, SecondTouchOverlaps
  <2>3. UsesRecorded
    BY DEF UsesRecorded
  <2> QED BY <2>1, <2>2, <2>3 DEF TouchInv
<1>2. TouchInv /\ [Next]_vars => TouchInv'
  BY TouchTypeNext, OverlapNext, UsesNext DEF TouchInv
<1> QED BY <1>1, <1>2, PTL DEF Spec

\* The type invariant of the debounce table.
THEOREM TouchTypeCorrect == Spec => []TypeOK
BY TouchInvariant, PTL DEF TouchInv

\* maybeTouch starts two writes within a period only when two calls overlap or the table
\* evicts the entry, whatever the number of requests.
THEOREM OverlapCorrect == Spec => []SecondTouchOverlaps
BY TouchInvariant, PTL DEF TouchInv

\* Whatever the load, last_used_at lags a use of the key by the debounce period at most.
THEOREM LastUsedCorrect == Spec => []LastUsedIsRecent
<1>1. TouchInv => LastUsedIsRecent
  <2> SUFFICES ASSUME TouchInv, ~failed, \A d \in Calls : pc[d] \in {"new", "done"},
                      NEW c \in Calls, pc[c] = "done"
               PROVE  lastUsed >= usedAt[c] - Debounce
    BY DEF LastUsedIsRecent
  <2> QED BY DEF TouchInv, UsesRecorded, Recorded
<1> QED BY <1>1, TouchInvariant, PTL
=============================================================================
