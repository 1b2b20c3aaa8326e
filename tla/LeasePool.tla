----------------------------- MODULE LeasePool -----------------------------
(***************************************************************************)
(* What the engine manager promises to those who use it: a pool with one   *)
(* engine at most for an id, leased to requests.  An engine is not taken   *)
(* from a request that uses it; one that failed is leased to nobody; one   *)
(* that is to end does so with its last lease; an id that is deleted has   *)
(* no engine left but one that ends.  No lock, no queue, no policy and no  *)
(* starting or stopping process is visible here.                           *)
(***************************************************************************)

CONSTANTS Ids, Engines, Requests, NoEngine

VARIABLES known,     \* the ids that may be asked for
          serving,   \* of each id, its engine, or NoEngine
          lease,     \* of each request, the engine leased to it, or NoEngine
          using,     \* the requests whose call is under way
          draining,  \* the engines that end with their last lease
          bad,       \* the engines that failed, or whose process is gone
          open       \* no shutdown has begun

vars == <<known, serving, lease, using, draining, bad, open>>

Up(S) == {S[l] : l \in Ids} \ {NoEngine}

\* The requests that hold engine e, L being who holds what.
Holders(L, e) == {c \in Requests : L[c] = e}

\* Nobody misses e: a lease left over at the shutdown is not in use any more.
Unused(L, e) == \A c \in Holders(L, e) : ~ open /\ c \notin using

Init ==
  /\ known \subseteq Ids
  /\ serving = [l \in Ids |-> NoEngine]
  /\ lease = [c \in Requests |-> NoEngine]
  /\ using = {} /\ draining = {} /\ bad = {}
  /\ open = TRUE

\* At most one engine ends, which nobody misses; some that are held drain; none
\* that nobody holds is left draining.
Trim(L) ==
  /\ \/ UNCHANGED serving
     \/ \E l \in Ids : /\ serving[l] # NoEngine /\ Unused(L, serving[l])
                       /\ serving' = [serving EXCEPT ![l] = NoEngine]
  /\ \E D \in SUBSET {e \in Up(serving) : Holders(L, e) # {}} :
       draining' = (draining \cup D) \cap Up(serving')
  /\ \A e \in draining' : Holders(L, e) # {}

\* An engine serves l from now on: a new one, or the one there is unless it is
\* bad; its end is called off.
Provide(l) ==
  /\ open /\ l \in known
  /\ \/ /\ serving[l] = NoEngine
        /\ \E e \in Engines \ Up(serving) :
             Holders(lease, e) = {} /\ serving' = [serving EXCEPT ![l] = e]
        /\ UNCHANGED draining
     \/ /\ serving[l] \notin bad \cup {NoEngine}
        /\ draining' = draining \ {serving[l]}
        /\ UNCHANGED serving
  /\ UNCHANGED <<known, bad, open>>

Warm(l) == Provide(l) /\ UNCHANGED <<lease, using>>

Lend(c, l) ==
  /\ lease[c] = NoEngine
  /\ Provide(l)
  /\ lease' = [lease EXCEPT ![c] = serving'[l]]
  /\ using' = using \cup {c}

\* The request's call is over.
Finish(c) ==
  /\ c \in using
  /\ using' = using \ {c}
  /\ UNCHANGED <<known, serving, lease, draining, bad, open>>

Return(c) ==
  /\ lease[c] # NoEngine /\ c \notin using
  /\ lease' = [lease EXCEPT ![c] = NoEngine]
  /\ Trim(lease')
  /\ bad' = bad \cap Up(serving')
  /\ UNCHANGED <<known, using, open>>

\* The pool ends engines by itself, or because it is told to.
Manage ==
  /\ Trim(lease)
  /\ bad' = bad \cap Up(serving')
  /\ UNCHANGED <<known, lease, using, open>>

\* The engine of l is found to have failed while it is held.  One that is not held
\* just ends.
Fail(l) ==
  /\ serving[l] # NoEngine /\ Holders(lease, serving[l]) # {}
  /\ draining' = draining \cup {serving[l]} /\ bad' = bad \cup {serving[l]}
  /\ UNCHANGED <<known, serving, lease, using, open>>

Die(e) ==
  /\ e \in Up(serving)
  /\ bad' = bad \cup {e}
  /\ UNCHANGED <<known, serving, lease, using, draining, open>>

Put(l) ==
  /\ known' = known \cup {l}
  /\ UNCHANGED <<serving, lease, using, draining, bad, open>>

Delete(l) ==
  /\ known' = known \ {l}
  /\ \/ serving[l] = NoEngine /\ UNCHANGED draining
     \/ /\ Holders(lease, serving[l]) # {}
        /\ draining' = draining \cup {serving[l]}
  /\ UNCHANGED <<serving, lease, using, bad, open>>

Close ==
  /\ using = {}
  /\ open' = FALSE
  /\ UNCHANGED <<known, serving, lease, using, draining, bad>>

Next ==
  \/ \E l \in Ids : Warm(l) \/ Fail(l) \/ Put(l) \/ Delete(l)
  \/ \E c \in Requests, l \in Ids : Lend(c, l)
  \/ \E c \in Requests : Finish(c) \/ Return(c)
  \/ \E e \in Engines : Die(e)
  \/ Manage \/ Close

Spec == Init /\ [][Next]_vars
=============================================================================
