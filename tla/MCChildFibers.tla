--------------------------- MODULE MCChildFibers ---------------------------
(* Small instances of ChildFibers for TLC.                                   *)
EXTENDS ChildFibers

CONSTANTS a, b, c, d

Empty == [type |-> "empty", key |-> NoKey, children |-> Nothing]
Host(type, key) == [type |-> type, key |-> key, children |-> Nothing]
Text == Host("text", NoKey)
Array(items) == [single |-> FALSE, items |-> items]
Single(item) == [single |-> TRUE, items |-> <<item>>]
Group(key, children) == [type |-> "group", key |-> key, children |-> children]

Lists(items, n) == UNION {[1..k -> items] : k \in 0..n}
UniqueKeys(items) ==
    \A i, j \in DOMAIN items : i # j /\ items[i].key # NoKey => items[i].key # items[j].key

(* Up to four children, with and without keys, *)
FlatItems == {Empty, Text, Host("p", NoKey), Host("p", a), Host("p", b), Host("q", a)}
Keyed == {Host("p", a), Host("p", b), Host("p", c), Host("p", d)}

(* ... and groups of keyed children.                                         *)
InnerItems == {Host("p", a), Host("p", b)}
Contents == {Array(l) : l \in {l \in Lists(InnerItems, 2) : UniqueKeys(l)}}
GroupItems == {Group(a, l) : l \in Contents} \cup {Host("p", c)}
                  \cup {Group(b, Array(l)) : l \in {<< >>, <<Host("p", a)>>}}

Arrays(items, n) == {Array(l) : l \in {l \in Lists(items, n) : UniqueKeys(l)}}

FlatRenderings == Arrays(FlatItems, 3) \cup {Single(x) : x \in FlatItems}
KeyedRenderings == Arrays(Keyed, 4)
GroupRenderings == Arrays(GroupItems, 3) \cup {Single(x) : x \in GroupItems}
AllRenderings == FlatRenderings \cup KeyedRenderings \cup GroupRenderings
============================================================================
