---------------------------- MODULE AlertLedger ----------------------------
(***************************************************************************)
(* What alert ingestion promises, without Redis, lookups or the order of   *)
(* statements.  A notification that was accepted is settled at most once:  *)
(* a firing one by counting it on one alert of its own fingerprint, old or *)
(* new; a resolved one from Alertmanager by closing every open alert of    *)
(* its fingerprint in one step; any other resolved one by entering a       *)
(* resolved alert.  It is dropped only where something may fail or the     *)
(* occurrence count is full.  Apart from that, alerts only change as       *)
(* people, or an agent, acknowledge or resolve them.                       *)
(***************************************************************************)
EXTENDS Naturals

CONSTANTS
    Alerts, Fingerprints, Requests,
    Notifications,   \* the notifications that may come
    MaxCount,        \* largest occurrence count
    Lossy,           \* whether requests may fail
    None

VARIABLES
    status, fpOf, count,   \* the alerts
    notice                 \* notice[r], accepted in slot r and not settled yet

ledgerVars == <<status, fpOf, count, notice>>

Closing(n) == n.source = "alertmanager" /\ n.status = "resolved"

Settle(r) == notice' = [notice EXCEPT ![r] = None]

LedgerInit ==
    /\ status = [a \in Alerts |-> "absent"]
    /\ fpOf = [a \in Alerts |-> None]
    /\ count = [a \in Alerts |-> 0]
    /\ notice = [r \in Requests |-> None]

Accept(r, n) ==
    /\ notice[r] = None
    /\ notice' = [notice EXCEPT ![r] = n]
    /\ UNCHANGED <<status, fpOf, count>>

CountOn(r, a) ==
    /\ notice[r] # None
    /\ notice[r].status = "firing"
    /\ status[a] # "absent"
    /\ fpOf[a] = notice[r].fp
    /\ count[a] < MaxCount
    /\ count' = [count EXCEPT ![a] = @ + 1]
    /\ Settle(r)
    /\ UNCHANGED <<status, fpOf>>

Enter(r, a) ==
    /\ notice[r] # None
    /\ ~Closing(notice[r])
    /\ status[a] = "absent"
    /\ status' = [status EXCEPT ![a] = notice[r].status]
    /\ fpOf' = [fpOf EXCEPT ![a] = notice[r].fp]
    /\ count' = [count EXCEPT ![a] = 1]
    /\ Settle(r)

CloseAll(r) ==
    /\ notice[r] # None
    /\ Closing(notice[r])
    /\ status' = [a \in Alerts |->
                    IF fpOf[a] = notice[r].fp /\ status[a] # "absent"
                      THEN "resolved" ELSE status[a]]
    /\ Settle(r)
    /\ UNCHANGED <<fpOf, count>>

Drop(r) ==
    /\ notice[r] # None
    /\ Lossy \/ \E a \in Alerts : fpOf[a] = notice[r].fp /\ count[a] = MaxCount
    /\ Settle(r)
    /\ UNCHANGED <<status, fpOf, count>>

DropAll ==
    /\ Lossy
    /\ notice' = [r \in Requests |-> None]
    /\ UNCHANGED <<status, fpOf, count>>

Acknowledged(a) ==
    /\ status[a] # "absent"
    /\ status' = [status EXCEPT ![a] = "acknowledged"]
    /\ UNCHANGED <<fpOf, count, notice>>

Resolved(a) ==
    /\ status[a] # "absent"
    /\ status' = [status EXCEPT ![a] = "resolved"]
    /\ UNCHANGED <<fpOf, count, notice>>

LedgerNext ==
    \/ \E r \in Requests :
         \/ \E n \in Notifications : Accept(r, n)
         \/ \E a \in Alerts : CountOn(r, a) \/ Enter(r, a)
         \/ CloseAll(r)
         \/ Drop(r)
    \/ DropAll
    \/ \E a \in Alerts : Acknowledged(a) \/ Resolved(a)

LedgerSpec == LedgerInit /\ [][LedgerNext]_ledgerVars
=============================================================================
