----------------------------- MODULE MCAppStore -----------------------------
(* A type, three objects of which two have the same name, children of the first, *)
(* transfers of the first two, one of them handed on, two files and two pages.    *)
EXTENDS AppStore

Object(n, r, t, a) == [kind |-> "object", name |-> n, rank |-> r, time |-> t, addr |-> a]
Child(p, c) == [kind |-> "child", of |-> p, new |-> c]
MoveTo(o, a) == [kind |-> "move", obj |-> o, addr |-> a]

MCItem == [
    ty |-> [kind |-> "type"],
    o1 |-> Object(1, 2, 1, 1),
    o2 |-> Object(2, 1, 2, 2),
    o3 |-> Object(1, 2, 2, 1),
    c1 |-> Child("o1", "o2"),
    c2 |-> Child("o1", "o1"),
    m1 |-> MoveTo("o1", 3),
    m2 |-> MoveTo("o2", 1),
    g1 |-> [kind |-> "again", obj |-> "o1", from |-> "m1", addr |-> 2],
    f1 |-> [kind |-> "file", data |-> 1],
    f2 |-> [kind |-> "file", data |-> 2],
    p1 |-> [kind |-> "layout", name |-> 1],
    p2 |-> [kind |-> "layout", name |-> 1]]

MCTx == DOMAIN MCItem
MCHash == [t \in MCTx |-> IF t = "o1" THEN 2 ELSE IF t = "o3" THEN 3 ELSE 1]

\* Each on its own, and in one block what depends on each other.
MCCandidates ==
    {<<t>> : t \in MCTx \ {"f1", "f2", "p1"}}
        \cup {<<"ty", "o1">>, <<"o1", "c1">>, <<"o2", "o3">>, <<"o1", "m1">>, <<"c2", "m2">>, <<"f1", "f2">>, <<"p1", "f1">>}

=============================================================================
