------------------------------ MODULE MCBridge ------------------------------
(***************************************************************************)
(* Source streams, messages and rules for Bridge.  "a.b" and "a_b" have    *)
(* one durable name; a rule for "a" and a longer one for "a.c", in the     *)
(* wrong order, match "a.c".  Two messages carry the same id, as the       *)
(* provisional and the final event of a swap do, and one has none.         *)
(***************************************************************************)
EXTENDS Bridge

CONSTANTS i1, i2

SubjectB == <<"a", ".", "b">>
SubjectC == <<"a", ".", "c">>
SubjectU == <<"a", "_", "b">>

TwoStreams == {<<SubjectB, SubjectC>>, <<SubjectB, SubjectU>>}

FourMessages ==
    << [subject |-> SubjectB, id |-> i1], [subject |-> SubjectC, id |-> i2],
       [subject |-> SubjectB, id |-> i1], [subject |-> SubjectU, id |-> NoId] >>

TwoRules ==
    << [source |-> <<"a">>, target |-> <<"z">>, drop |-> FALSE],
       [source |-> SubjectC, target |-> <<>>, drop |-> TRUE] >>
=============================================================================
