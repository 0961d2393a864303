------------------------------- MODULE FairLease -------------------------------
(***************************************************************************)
(* What AsyncConnectionPool promises: a fixed number of connections, each  *)
(* leased to at most one task, requests granted strictly in the order in   *)
(* which they were made, and a free connection never kept from a request.  *)
(* ConnectionPool is shown to implement it.                                *)
(***************************************************************************)
CONSTANTS Tasks, Conns, Free

VARIABLES
    asked,       \* the tasks that asked for a connection and have none yet
    ahead,       \* <<s, t>>: both have asked, and s did so before t
    lessee       \* lessee[k]: the task that has connection k, or Free

leaseVars == <<asked, ahead, lessee>>

LeaseInit == asked = {} /\ ahead = {} /\ lessee = [k \in Conns |-> Free]

Request(t) ==
    /\ t \notin asked
    /\ \A k \in Conns : lessee[k] # t
    /\ asked' = asked \cup {t}
    /\ ahead' = ahead \cup (asked \X {t})
    /\ UNCHANGED lessee

(* t, whose turn it is, is served. *)
Serve(t) ==
    /\ t \in asked
    /\ \A s \in asked : <<s, t>> \notin ahead
    /\ asked' = asked \ {t}
    /\ ahead' = {e \in ahead : e[1] # t}

Grant(k, t) ==
    /\ lessee[k] = Free
    /\ Serve(t)
    /\ lessee' = [lessee EXCEPT ![k] = t]

(* A lease that ends as soon as it is granted: the connection turns out to  *)
(* be unusable while the task is still in the strand's job.                 *)
Spend(k, t) ==
    /\ lessee[k] = Free
    /\ Serve(t)
    /\ UNCHANGED lessee

Release(k) ==
    /\ lessee[k] # Free
    /\ lessee' = [lessee EXCEPT ![k] = Free]
    /\ UNCHANGED <<asked, ahead>>

GrantStep == \E k \in Conns, t \in Tasks : Grant(k, t) \/ Spend(k, t)

LeaseNext ==
    \/ \E t \in Tasks : Request(t)
    \/ GrantStep
    \/ \E k \in Conns : Release(k)

LeaseFairness ==
    /\ WF_leaseVars(GrantStep)
    /\ \A k \in Conns : WF_leaseVars(Release(k))

LeaseSafety == LeaseInit /\ [][LeaseNext]_leaseVars
LeaseSpec   == LeaseSafety /\ LeaseFairness

================================================================================
