------------------------- MODULE AbstractUpdateQueue -------------------------
(***************************************************************************)
(* What ReactUpdateQueue keeps of its promise: the updates of a component  *)
(* get an order that does not change any more, whatever their priorities,  *)
(* and what is on the screen is always the result of the updates shown so  *)
(* far, applied in that order.  No update leaves the order, none is undone *)
(* and none is applied twice.                                              *)
(*                                                                         *)
(* The comment of the source also promises that a new update goes to the   *)
(* end.  That is not kept, and it is not required here: a new update may   *)
(* go before others that wait, never before one that is shown.             *)
(***************************************************************************)
EXTENDS Naturals, Sequences

CONSTANT Ids

VARIABLES
    order,  \* the updates, each once
    shown   \* the updates applied to the state on the screen, in that order

vars == <<order, shown>>

ElementsOf(s) == {s[i] : i \in DOMAIN s}

(* The elements of s that are in a set: SelectSeq, as a function.          *)
Only(s, set) ==
    LET kept[i \in 0..Len(s)] ==
            IF i = 0 THEN << >>
            ELSE IF s[i] \in set THEN Append(kept[i - 1], s[i]) ELSE kept[i - 1]
    IN  kept[Len(s)]

Insert(s, k, id) == SubSeq(s, 1, k) \o <<id>> \o SubSeq(s, k + 1, Len(s))

(* The orders that a new update may lead to.                               *)
NewOrder(id) ==
    {Insert(order, k, id) : k \in {k \in 0..Len(order) :
        \A i \in DOMAIN order : order[i] \in ElementsOf(shown) => i <= k}}

Init == order = << >> /\ shown = << >>

Enqueue(id) ==
    /\ id \notin ElementsOf(order)
    /\ order' \in NewOrder(id)
    /\ UNCHANGED shown

(* A commit shows more updates. *)
Show(ids) ==
    /\ ElementsOf(shown) \subseteq ids
    /\ shown' = Only(order, ids)
    /\ UNCHANGED order

(* A commit may bring the update that handles an error, and shows it. *)
ShowCaptured(id, ids) ==
    /\ id \notin ElementsOf(order)
    /\ order' \in NewOrder(id)
    /\ ElementsOf(shown) \cup {id} \subseteq ids
    /\ shown' = Only(order', ids)

Next ==
    \/ \E id \in Ids : Enqueue(id)
    \/ \E ids \in SUBSET Ids : Show(ids) \/ \E id \in Ids : ShowCaptured(id, ids)

Spec == Init /\ [][Next]_vars
=============================================================================
