------------------------------ MODULE Platform ------------------------------
(***************************************************************************)
(* What runs under the domains: the worker loop, the configuration rows    *)
(* made when first read, the invitations and the subscription.  They share *)
(* no table, so a behaviour follows one of them, `focus`.                  *)
(***************************************************************************)
EXTENDS WorkerLoop, LazyRows, Memberships, Billing

VARIABLE focus

vars == <<workerVars, lazyVars, membershipVars, requests, billingVars, focus>>

Init ==
    /\ focus \in {"worker", "rows", "members", "billing"}
    /\ WorkerInit /\ LazyInit /\ RequestsInit /\ MembershipInit /\ BillingInit

Next ==
    /\ UNCHANGED focus
    /\ \/ /\ focus = "worker" /\ WorkerNext
          /\ UNCHANGED <<lazyVars, requests, membershipVars, billingVars>>
       \/ /\ focus = "rows" /\ LazyNext
          /\ UNCHANGED <<workerVars, requests, membershipVars, billingVars>>
       \/ /\ focus = "members" /\ MembershipNext
          /\ UNCHANGED <<workerVars, lazyVars, billingVars>>
       \/ /\ focus = "billing" /\ BillingNext
          /\ UNCHANGED <<workerVars, lazyVars, requests, membershipVars>>

\* The process runs: it takes the next step of its tick if it can, the clock and the users
\* notwithstanding.  Whoever starts it again after a crash is not part of it.
Spec == Init /\ [][Next]_vars /\ WF_vars(Work /\ UNCHANGED <<lazyVars, requests, membershipVars, billingVars, focus>>)
=============================================================================
