-------------------------- MODULE DeliveryPromise --------------------------
(***************************************************************************)
(* What the delivery to a session promises about each message, whatever    *)
(* answers are lost and whenever the backend or the provider restarts: a   *)
(* queued item leaves the queue by the user's hand or because it reached   *)
(* the provider; a prompt or steer that no queue keeps is on the session's *)
(* record before it is sent; what joined a turn leaves the record with a   *)
(* receipt, or because the user dropped it; a receipt is true, is kept,    *)
(* and nothing is sent after it; and a message that was steered becomes a  *)
(* turn of its own, or the reverse, only at a user's risk.                 *)
(***************************************************************************)
CONSTANTS
    Items,       \* rows of the queue
    Requests,    \* request ids; r[1] is the message r was minted for
    NoRequest

VARIABLES
    queued,      \* the items that wait or are reserved
    asked,       \* the items that were ever queued
    withdrawn,   \* the items a user took out
    dropped,     \* the messages whose steer a user dropped
    risked,      \* the ids steered while a dispatch of them was unsettled
    prompt,      \* the prompt on the session's record
    steer,       \* the steer on the session's record
    receipts,    \* the ids on record as delivered
    ran,         \* the ids the provider made a turn of
    joined       \* the ids that joined a running turn

asks == <<queued, asked, withdrawn>>
record == <<prompt, steer, receipts>>
provider == <<ran, joined>>
promiseVars == <<asks, dropped, risked, record, provider>>

AtRisk(r) == r \in risked \/ r[1] \in dropped

Reaching(i) == \E r \in ran \cup joined : r[1] = i

PromiseInit ==
    /\ queued = {} /\ asked = {} /\ withdrawn = {} /\ dropped = {} /\ risked = {}
    /\ prompt = NoRequest /\ steer = NoRequest /\ receipts = {}
    /\ ran = {} /\ joined = {}

Publish(i) ==
    /\ i \notin queued
    /\ queued' = queued \cup {i} /\ asked' = asked \cup {i}
    /\ withdrawn' = withdrawn \ {i}
    /\ UNCHANGED <<dropped, risked, record, provider>>

Withdraw(i) ==
    /\ i \in queued
    /\ queued' = queued \ {i} /\ withdrawn' = withdrawn \cup {i}
    /\ UNCHANGED <<asked, dropped, risked, record, provider>>

Consume(i) ==
    /\ i \in queued
    /\ Reaching(i) \/ i \in dropped
    /\ queued' = queued \ {i}
    /\ UNCHANGED <<asked, withdrawn, dropped, risked, record, provider>>

\* One message is on the record at a time, and none that has its receipt.
Park(r) ==
    /\ prompt = NoRequest /\ steer = NoRequest /\ r \notin receipts
    /\ \/ prompt' = r /\ UNCHANGED steer
       \/ steer' = r /\ UNCHANGED prompt
    /\ UNCHANGED <<asks, dropped, risked, receipts, provider>>

\* Refused, lost by the provider, or given up by the user.
GiveUpPrompt ==
    /\ prompt # NoRequest /\ prompt' = NoRequest
    /\ UNCHANGED <<asks, dropped, risked, steer, receipts, provider>>

GiveUpSteer ==
    /\ steer # NoRequest /\ steer' = NoRequest
    /\ steer \notin joined \/ steer[1] \in dropped
    /\ UNCHANGED <<asks, dropped, risked, prompt, receipts, provider>>

DropSteer ==
    /\ steer # NoRequest /\ dropped' = dropped \cup {steer[1]}
    /\ UNCHANGED <<asks, risked, record, provider>>

\* A user steers a queued message whose dispatch went out without an answer.
Risk(r) ==
    /\ r[1] \in queued /\ r \in ran \ receipts
    /\ risked' = risked \cup {r}
    /\ UNCHANGED <<asks, dropped, record, provider>>

Run(r) ==
    /\ steer = NoRequest /\ r \notin receipts
    /\ prompt = r \/ (prompt = NoRequest /\ r[1] \in asked)
    /\ r \in joined => AtRisk(r)
    /\ ran' = ran \cup {r}
    /\ UNCHANGED <<asks, dropped, risked, record, joined>>

Join(r) ==
    /\ steer = r /\ prompt = NoRequest /\ r \notin receipts
    /\ r \in ran => AtRisk(r)
    /\ joined' = joined \cup {r}
    /\ UNCHANGED <<asks, dropped, risked, record, ran>>

Receipt(r) ==
    /\ r \in ran \cup joined
    /\ {prompt, steer} \subseteq {r, NoRequest}
    /\ receipts' = receipts \cup {r}
    /\ prompt' = NoRequest /\ steer' = NoRequest
    /\ UNCHANGED <<asks, dropped, risked, provider>>

PromiseNext ==
    \/ \E i \in Items : Publish(i) \/ Withdraw(i) \/ Consume(i)
    \/ \E r \in Requests : Park(r) \/ Risk(r) \/ Run(r) \/ Join(r) \/ Receipt(r)
    \/ GiveUpPrompt \/ GiveUpSteer \/ DropSteer

PromiseSpec == PromiseInit /\ [][PromiseNext]_promiseVars
=============================================================================
