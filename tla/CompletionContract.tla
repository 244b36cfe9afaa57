-------------------------- MODULE CompletionContract --------------------------
(***************************************************************************)
(* What one completion request is promised, without attempts, responses,   *)
(* events or bodies: it is answered from one provider at most, the last    *)
(* cost told is the cost billed, a bill is written only by the step that   *)
(* brings the answer to its end, and nothing happens afterwards.           *)
(* CompletionProxy is shown to implement it.                               *)
(***************************************************************************)
CONSTANTS Providers, Costs, Nothing

VARIABLES
    stage,     \* nothing answered, an answer under way, no more to come
    provider,  \* whom the client is answered from, by the router's own account
    told,      \* the cost told last
    bill       \* what was handed to the ledger

contractVars == <<stage, provider, told, bill>>

ContractInit ==
    /\ stage = "open"
    /\ provider = Nothing
    /\ told = Nothing
    /\ bill = Nothing

\* A usage the ledger cannot hold leaves no bill.
MayBill(p, cost) == bill' \in {Nothing, [provider |-> p, cost |-> cost]}

\* An error of the router's own, or of the provider it names.
Refuse ==
    /\ stage = "open"
    /\ stage' = "closed"
    /\ provider' \in Providers \cup {Nothing}
    /\ UNCHANGED <<told, bill>>

\* The whole answer at once.
Complete(p, cost) ==
    /\ stage = "open"
    /\ stage' = "closed"
    /\ provider' = p
    /\ told' = cost
    /\ MayBill(p, cost)

Begin(p) ==
    /\ stage = "open"
    /\ stage' = "answering"
    /\ provider' = p
    /\ UNCHANGED <<told, bill>>

Tell(cost) ==
    /\ stage = "answering"
    /\ told' = cost
    /\ UNCHANGED <<stage, provider, bill>>

\* The answer ends as the provider ended it.
Settle ==
    /\ stage = "answering"
    /\ told # Nothing
    /\ stage' = "closed"
    /\ MayBill(provider, told)
    /\ UNCHANGED <<provider, told>>

\* The answer fails or its client leaves: no bill, whatever was told.
Abandon ==
    /\ stage = "answering"
    /\ stage' = "closed"
    /\ UNCHANGED <<provider, told, bill>>

ContractNext ==
    \/ Refuse
    \/ \E p \in Providers : Begin(p)
    \/ \E p \in Providers, cost \in Costs : Complete(p, cost)
    \/ \E cost \in Costs : Tell(cost)
    \/ Settle
    \/ Abandon

ContractSpec == ContractInit /\ [][ContractNext]_contractVars

=============================================================================
