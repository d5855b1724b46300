--------------------------- MODULE StreamContract ---------------------------
(***************************************************************************)
(* What a streamed chat completion promises its client: the provider's     *)
(* chunks in order, none skipped or repeated, then an end.  The end is     *)
(* "complete" only if every chunk the provider sent was delivered.         *)
(***************************************************************************)
EXTENDS Integers

VARIABLES emitted,    \* chunks the provider has sent, 1 .. emitted
          delivered,  \* chunks the client has been sent, 1 .. delivered
          end         \* "open", "complete" or "cut"

contractVars == <<emitted, delivered, end>>

ContractInit == emitted = 0 /\ delivered = 0 /\ end = "open"

Emit == end = "open" /\ emitted' = emitted + 1 /\ UNCHANGED <<delivered, end>>

Deliver ==
    /\ end = "open" /\ delivered < emitted
    /\ delivered' = delivered + 1
    /\ UNCHANGED <<emitted, end>>

Complete ==
    /\ end = "open" /\ delivered = emitted
    /\ end' = "complete"
    /\ UNCHANGED <<emitted, delivered>>

\* The provider failed, the client left, or a chunk could not be written.
Cut ==
    /\ end = "open"
    /\ end' = "cut"
    /\ UNCHANGED <<emitted, delivered>>

ContractNext == Emit \/ Deliver \/ Complete \/ Cut

ContractSpec == ContractInit /\ [][ContractNext]_contractVars
=============================================================================
