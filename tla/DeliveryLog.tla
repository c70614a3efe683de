---------------------------- MODULE DeliveryLog ----------------------------
(***************************************************************************)
(* What a bucket promises to those who put data in and those who get it    *)
(* out, without lists, batches, sizes or locks: entries are numbered as    *)
(* they are accepted, delivered once each in that order, and forgotten     *)
(* only after they have been delivered.                                    *)
(***************************************************************************)
EXTENDS Naturals

CONSTANT MaxId  \* bound: entries accepted in a run

VARIABLES
    accepted,   \* number of entries accepted so far
    kept,       \* ids of the entries the log still holds
    delivered   \* ids of the entries delivered to the connectors

Init ==
    /\ accepted = 0
    /\ kept = {}
    /\ delivered = {}

(* A new entry; to make room, delivered ones may be forgotten. *)
Accept ==
    /\ accepted < MaxId
    /\ accepted' = accepted + 1
    /\ \E forgotten \in SUBSET (kept \cap delivered) :
          kept' = (kept \ forgotten) \cup {accepted + 1}
    /\ UNCHANGED delivered

(* An entry was offered and refused, after delivered ones were forgotten. *)
Refuse ==
    /\ kept' \subseteq kept
    /\ kept \ kept' \subseteq delivered
    /\ UNCHANGED <<accepted, delivered>>

(* The oldest undelivered entries go out together. *)
Deliver ==
    /\ delivered' \subseteq delivered \cup kept
    /\ delivered \subseteq delivered'
    /\ \A i \in delivered' \ delivered, j \in kept \ delivered' : i < j
    /\ UNCHANGED <<accepted, kept>>

Next == Accept \/ Refuse \/ Deliver

Spec == Init /\ [][Next]_<<accepted, kept, delivered>>
=============================================================================
