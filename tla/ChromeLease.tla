----------------------------- MODULE ChromeLease -----------------------------
(***************************************************************************)
(* What the supervisor promises, without mutex, contexts or processes: the  *)
(* bridge owns at most one Chrome at a time, and a Chrome given up never    *)
(* comes back.  A request is granted a lease on the Chrome owned, and opens *)
(* its tab later: it gets to work only if that Chrome is owned still, and   *)
(* stops working when its Chrome is given up, or dies.                      *)
(***************************************************************************)
EXTENDS Naturals

CONSTANT Requests

VARIABLES
    owned,   \* the generation the bridge owns, 0 for none
    last,    \* the newest generation ever owned
    lease,   \* the generation each request was granted, 0 for none
    working  \* the requests whose tab is open in a live Chrome

leaseVars == <<owned, last, lease, working>>

LeaseInit == owned = 0 /\ last = 0 /\ lease = [r \in Requests |-> 0] /\ working = {}

Adopt == owned = 0 /\ last' > last /\ owned' = last' /\ UNCHANGED <<lease, working>>

GiveUp == owned # 0 /\ owned' = 0 /\ working' = {} /\ UNCHANGED <<last, lease>>

\* The Chrome owned dies by itself
Lose == working' \in SUBSET working /\ UNCHANGED <<owned, last, lease>>

Grant(r) ==
    /\ owned # 0 /\ lease[r] = 0
    /\ lease' = [lease EXCEPT ![r] = owned]
    /\ UNCHANGED <<owned, last, working>>

Open(r) ==
    /\ owned # 0 /\ lease[r] = owned
    /\ working' = working \cup {r}
    /\ UNCHANGED <<owned, last, lease>>

Close(r) ==
    /\ lease[r] # 0
    /\ lease' = [lease EXCEPT ![r] = 0]
    /\ working' = working \ {r}
    /\ UNCHANGED <<owned, last>>

LeaseNext == Adopt \/ GiveUp \/ Lose \/ \E r \in Requests : Grant(r) \/ Open(r) \/ Close(r)

LeaseSpec == LeaseInit /\ [][LeaseNext]_leaseVars
=============================================================================
