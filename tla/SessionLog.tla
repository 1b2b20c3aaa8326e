------------------------------ MODULE SessionLog ------------------------------
(***************************************************************************)
(* What a chat session promises to those who use it: it is a log of turns. *)
(* A turn is appended at the end, whole, and in the same instant as the    *)
(* run it belongs to completes; a deletion takes all turns away at once    *)
(* and lets the runs go; a run ends once.  No lock, no transaction and no  *)
(* half-written turn is visible here.                                      *)
(***************************************************************************)
EXTENDS Sequences

CONSTANTS Runs, Writers

VARIABLES open,     \* the session is there
          turns,    \* who said its turns, in their order
          member,   \* the runs that are in the session
          outcome   \* of each run

vars == <<open, turns, member, outcome>>

Said(p) == \E i \in DOMAIN turns : turns[i] = p

Ends(r, how) ==
  /\ outcome[r] = "active"
  /\ outcome' = [outcome EXCEPT ![r] = how]

Init ==
  /\ open \in BOOLEAN
  /\ turns = <<>>
  /\ member = {}
  /\ outcome = [r \in Runs |-> "none"]

\* A run starts in the session, which is made if it is not there.
Begin(r) ==
  /\ outcome[r] = "none"
  /\ outcome' = [outcome EXCEPT ![r] = "active"]
  /\ member' = member \cup {r}
  /\ open' = TRUE
  /\ UNCHANGED turns

\* A run completes, and its turn is said.
Tell(r) ==
  /\ open /\ ~ Said(r)
  /\ turns' = Append(turns, r)
  /\ Ends(r, "completed")
  /\ UNCHANGED <<open, member>>

\* A run completes after its session was deleted: there is nowhere to say it.
Lose(r) ==
  /\ r \notin member
  /\ Ends(r, "completed")
  /\ UNCHANGED <<open, turns, member>>

\* A run completes with nothing to say, or fails.
Stop(r) ==
  /\ Ends(r, "empty") \/ Ends(r, "failed")
  /\ UNCHANGED <<open, turns, member>>

\* A client says a turn, once.
Say(w) ==
  /\ open /\ ~ Said(w)
  /\ turns' = Append(turns, w)
  /\ UNCHANGED <<open, member, outcome>>

Delete ==
  /\ open
  /\ open' = FALSE
  /\ turns' = <<>>
  /\ member' = {}
  /\ UNCHANGED outcome

\* All runs that are active fail at once.
Sweep ==
  /\ outcome' = [r \in Runs |-> IF outcome[r] = "active" THEN "failed" ELSE outcome[r]]
  /\ UNCHANGED <<open, turns, member>>

Next ==
  \/ \E r \in Runs : Begin(r) \/ Tell(r) \/ Lose(r) \/ Stop(r)
  \/ \E w \in Writers : Say(w)
  \/ Delete \/ Sweep

Spec == Init /\ [][Next]_vars

=============================================================================
