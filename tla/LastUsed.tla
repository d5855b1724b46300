------------------------------ MODULE LastUsed ------------------------------
(***************************************************************************)
(* The debounced write of api_keys.last_used_at (maybeTouch in             *)
(* internal/auth/cached.go) for one key of one gateway: accepted requests  *)
(* look the key up in the touched table, add it if it is not there, and    *)
(* only then start the write.  The lookup and the Add lock the table one   *)
(* after the other.                                                        *)
(***************************************************************************)
EXTENDS Integers

CONSTANTS Calls,     \* accepted requests
          Debounce,  \* touchDebounce, in ticks
          MaxTime    \* bound on the clock

ASSUME TouchAssumption == Debounce \in Nat \ {0} /\ MaxTime \in Nat

VARIABLES clock,
          touchedUntil, \* expiry of the key's entry in touched, Never without one
          pc,           \* "new", "add", "write" or "done"
          usedAt,       \* when the request was accepted
          addedAt,      \* when it decided to write, Never if it did not
          lastUsed,     \* api_keys.last_used_at
          raced,        \* ghost: another Add came between the call's lookup and its Add
          evicted,      \* ghost: the entry was evicted before its time
          failed        \* ghost: a write failed

vars == <<clock, touchedUntil, pc, usedAt, addedAt, lastUsed, raced, evicted, failed>>

\* Earlier than any moment a request could be compared with.
Never == -1 - Debounce

Init ==
    /\ clock = 0 /\ touchedUntil = Never
    /\ pc = [c \in Calls |-> "new"]
    /\ usedAt = [c \in Calls |-> Never]
    /\ addedAt = [c \in Calls |-> Never]
    /\ lastUsed = Never
    /\ raced = [c \in Calls |-> FALSE]
    /\ evicted = FALSE /\ failed = FALSE

\* Mutant: the lookup prolongs the entry, so that a busy key is never written again.
TouchedGetSliding(c) ==
    /\ pc[c] = "new"
    /\ usedAt' = [usedAt EXCEPT ![c] = clock]
    /\ IF clock <= touchedUntil
       THEN /\ pc' = [pc EXCEPT ![c] = "done"]
            /\ touchedUntil' = clock + Debounce
       ELSE /\ pc' = [pc EXCEPT ![c] = "add"]
            /\ UNCHANGED touchedUntil
    /\ UNCHANGED <<clock, addedAt, lastUsed, raced, evicted, failed>>

\* The key was accepted; an entry of the table that has not expired ends the call.
TouchedGet(c) ==
    /\ pc[c] = "new"
    /\ usedAt' = [usedAt EXCEPT ![c] = clock]
    /\ pc' = [pc EXCEPT ![c] = IF clock <= touchedUntil THEN "done" ELSE "add"]
    /\ UNCHANGED <<clock, touchedUntil, addedAt, lastUsed, raced, evicted, failed>>

\* touched.Add, and the goroutine that writes is started.
TouchedAdd(c) ==
    /\ pc[c] = "add"
    /\ touchedUntil' = clock + Debounce
    /\ addedAt' = [addedAt EXCEPT ![c] = clock]
    /\ raced' = [d \in Calls |-> raced[d] \/ (d # c /\ pc[d] = "add")]
    /\ pc' = [pc EXCEPT ![c] = "write"]
    /\ UNCHANGED <<clock, usedAt, lastUsed, evicted, failed>>

\* The UPDATE takes the database's NOW().
TouchLastUsedAt(c) ==
    /\ pc[c] = "write"
    /\ lastUsed' = clock
    /\ pc' = [pc EXCEPT ![c] = "done"]
    /\ UNCHANGED <<clock, touchedUntil, usedAt, addedAt, raced, evicted, failed>>

\* The write fails or runs into touchWriteTimeout: a warning, and the entry stays.
TouchFails(c) ==
    /\ pc[c] = "write"
    /\ failed' = TRUE
    /\ pc' = [pc EXCEPT ![c] = "done"]
    /\ UNCHANGED <<clock, touchedUntil, usedAt, addedAt, lastUsed, raced, evicted>>

\* Other keys fill the table.
Evict ==
    /\ touchedUntil # Never
    /\ touchedUntil' = Never /\ evicted' = TRUE
    /\ UNCHANGED <<clock, pc, usedAt, addedAt, lastUsed, raced, failed>>

Tick ==
    /\ clock < MaxTime
    /\ clock' = clock + 1
    /\ UNCHANGED <<touchedUntil, pc, usedAt, addedAt, lastUsed, raced, evicted, failed>>

Next ==
    \/ Tick \/ Evict
    \/ \E c \in Calls : \/ TouchedGet(c) \/ TouchedAdd(c)
                        \/ TouchLastUsedAt(c) \/ TouchFails(c)

Spec == Init /\ [][Next]_vars

-----------------------------------------------------------------------------

\* Types; an entry of touched never outlives the debounce period.
TypeOK ==
    /\ clock \in 0 .. MaxTime
    /\ touchedUntil \in {Never} \cup (0 .. clock + Debounce)
    /\ pc \in [Calls -> {"new", "add", "write", "done"}]
    /\ usedAt \in [Calls -> {Never} \cup (0 .. clock)]
    /\ addedAt \in [Calls -> {Never} \cup (0 .. clock)]
    /\ lastUsed \in {Never} \cup (0 .. clock)
    /\ raced \in [Calls -> BOOLEAN] /\ evicted \in BOOLEAN /\ failed \in BOOLEAN

\* Debouncing costs last_used_at no more than the debounce period: once the writes are
\* through, and none failed, it is at most that far behind any use of the key.
LastUsedIsRecent ==
    ~failed /\ (\A c \in Calls : pc[c] \in {"new", "done"}) =>
        \A c \in Calls : pc[c] = "done" => lastUsed >= usedAt[c] - Debounce

\* Two writes are started within one debounce period only if one of the two calls did its
\* lookup before the Add of another, or the table had to evict the entry.
SecondTouchOverlaps ==
    \A c, d \in Calls :
        c # d /\ addedAt[c] # Never /\ addedAt[d] \in addedAt[c] .. addedAt[c] + Debounce =>
            raced[c] \/ raced[d] \/ evicted

-----------------------------------------------------------------------------

\* The comment on touchDebounce: it "caps how often we update api_keys.last_used_at for a
\* single key"; as long as the table evicts nothing, two writes are that far apart.
TouchDebounced ==
    \A c, d \in Calls :
        c # d /\ addedAt[c] # Never /\ addedAt[d] # Never /\ ~evicted =>
            addedAt[d] \notin addedAt[c] .. addedAt[c] + Debounce - 1
=============================================================================
