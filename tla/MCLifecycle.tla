---------------------------- MODULE MCLifecycle -----------------------------
(* Lifecycle with two requests, every choice of switches, and settings     *)
(* with at most one of the values missing, from the file or the environment.*)
EXTENDS Lifecycle, FiniteSets

CONSTANTS r1, r2
MCRequests == {r1, r2}

Switches == {"auth", "limiter", "metrics"}
Values == Settings \ Switches

MCSources ==
    {[file |-> on \cup Values, envClears |-> {}, envSets |-> {}] : on \in SUBSET Switches}
      \cup {[file |-> Values, envClears |-> {v}, envSets |-> {"auth", "limiter"}] : v \in Values}
=============================================================================
