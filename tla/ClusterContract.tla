---------------------------- MODULE ClusterContract --------------------------
(***************************************************************************)
(* What an infrastructure cluster promises to Cluster API and to the owner *)
(* of the cloud account: how its lifecycle, what it reports and the        *)
(* resources it answers for may change together.                           *)
(***************************************************************************)
CONSTANT Resources

VARIABLES
    stage,        \* "live", "deleting" or "gone"
    owned,        \* running resources the object has taken responsibility for
    provisioned,  \* infrastructure reported as provisioned
    endpoint      \* control plane endpoint reported

contractVars == <<stage, owned, provisioned, endpoint>>

\* What was reported is never taken back.
ReportsGrow == (provisioned => provisioned') /\ (endpoint => endpoint')

Start ==
    /\ stage = "live" /\ owned = {}
    /\ provisioned = FALSE /\ endpoint = FALSE

\* Resources are acquired, never released, while the cluster is wanted.
Build ==
    /\ stage = "live" /\ stage' = "live"
    /\ owned' \subseteq Resources /\ owned \subseteq owned'
    /\ ReportsGrow

\* An object that answers for nothing may disappear at once.
Delete ==
    /\ stage = "live"
    /\ \/ stage' = "deleting"
       \/ stage' = "gone" /\ owned = {}
    /\ UNCHANGED <<owned, provisioned, endpoint>>

\* A reconcile that began before the deletion may still acquire resources.
Teardown ==
    /\ stage = "deleting" /\ stage' = "deleting"
    /\ owned' \subseteq Resources
    /\ ReportsGrow

\* The object disappears only when nothing is left that it answers for.
Vanish ==
    /\ stage = "deleting" /\ stage' = "gone"
    /\ owned' = {}
    /\ ReportsGrow

Step == Build \/ Delete \/ Teardown \/ Vanish

Spec == Start /\ [][Step]_contractVars
=============================================================================
