------------------------------- MODULE Intake -------------------------------
(***************************************************************************)
(* store/intake.py: the requests (table "intake"), one row per item, for   *)
(* the dedupe key fixes the work item's id.  Every operator below is the   *)
(* body of one transaction.                                                *)
(*                                                                         *)
(* A request's text is a member of a small set; everything _content        *)
(* compares is in it.  acked is acknowledged_revision, 0 for NULL.         *)
(***************************************************************************)
EXTENDS WorkItem

CONSTANTS Texts,        \* what a request may say
          MaxRevision   \* bound: versions of a request

ASSUME IntakeAssumption == Texts # {} /\ MaxRevision \in Nat \ {0}

VARIABLE intake

ArrivalState == {"absent", "pending", "acknowledged", "withdrawn"}

Request == [state : ArrivalState, text : Texts, revision : 0..MaxRevision,
            acked : 0..MaxRevision]

IntakeTypeOK ==
    /\ intake \in [Items -> Request]
    /\ \A i \in Items : intake[i].state = "absent" <=> intake[i].revision = 0

\* Before its first arrival a request has no row: what its text is says nothing.
IntakeInit ==
    intake = [i \in Items |-> [state |-> "absent", text |-> CHOOSE t \in Texts : TRUE,
                               revision |-> 0, acked |-> 0]]

Pending == {i \in Items : intake[i].state = "pending"}

-----------------------------------------------------------------------------
\* First arrival.
insert(i, text) ==
    intake' = [intake EXCEPT ![i] = [state |-> "pending", text |-> text,
                                     revision |-> 1, acked |-> 0]]

\* Back in the queue from any state; a new version only if the text is new.
revise(i, text) ==
    intake' = [intake EXCEPT ![i].state = "pending", ![i].text = text,
                             ![i].revision = IF text = intake[i].text THEN @ ELSE @ + 1]

\* A redelivery changes nothing, unless it reopens a withdrawn request.
Redelivery(i, text) == intake[i].text = text /\ intake[i].state # "withdrawn"

submit(i, text) ==
    /\ intake[i].revision = MaxRevision => text = intake[i].text
    /\ IF intake[i].state = "absent" THEN insert(i, text)
       ELSE ~Redelivery(i, text) /\ revise(i, text)

withdraw(i) ==
    /\ intake[i].state # "absent"
    /\ intake' = [intake EXCEPT ![i].state = "withdrawn"]

\* Mutant: whatever state the request is in.
Bug_acknowledge(i) ==
    intake' = [intake EXCEPT ![i].state = "acknowledged", ![i].acked = intake[i].revision]

\* Of a pending request, at the revision it has by now.
acknowledge(i) ==
    intake' = IF intake[i].state = "pending"
              THEN [intake EXCEPT ![i].state = "acknowledged",
                                  ![i].acked = intake[i].revision]
              ELSE intake
=============================================================================
