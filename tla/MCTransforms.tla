----------------------------- MODULE MCTransforms -----------------------------
(* Constants of Transforms's TLC run. *)
EXTENDS Transforms, TLC

Text(n, c) == [base64 |-> n, of |-> c]

(* {"a": p, "A": q}, {"a": {"b": p}, "a_b": q}, {} and p *)
P        == [kind |-> "plain", id |-> "p"]
Q        == [kind |-> "plain", id |-> "q"]
AtP      == Leaf(Text(0, P))
AtQ      == Leaf(Text(0, Q))
Inner    == Object(<<"b">> :> AtP)
TwoCases == Object(<<"a">> :> AtP @@ <<"A">> :> AtQ)
TwoWays  == Object(<<"a">> :> Inner @@ <<"a", "_", "b">> :> AtQ)
Empty    == Object(<<>>)

Opaque    == {P, Q}
AnyValues == {AtP, AtQ, Inner, TwoCases, TwoWays, Empty}
Depth     == AtP :> 0 @@ AtQ :> 0 @@ Empty :> 0 @@ Inner :> 1 @@ TwoCases :> 1 @@ TwoWays :> 2

Revealed == {Text(0, P), Text(1, Q), Text(2, P), Text(0, AtP), Text(0, TwoCases),
             Text(0, TwoWays), Text(0, Empty), Text(1, TwoCases)}

AnyInputs ==
    UNION {[keys -> Revealed] : keys \in SUBSET {<<"a">>, <<"A", "_", "A">>, <<"b">>}}

AnyTransforms ==
    {[type |-> "prefix", value |-> <<"A", "_">>], [type |-> "prefix", value |-> <<>>],
     [type |-> "suffix", value |-> <<"b">>],
     [type |-> "rename", from |-> <<"a">>, to |-> <<"b">>],
     [type |-> "rename", from |-> <<"b">>, to |-> <<"A", "_", "A">>],
     [type |-> "rename", from |-> <<"a">>, to |-> <<>>],
     [type |-> "base64Decode", keys |-> <<>>],
     [type |-> "base64Decode", keys |-> <<(<<"a">>), (<<"b">>), (<<"a">>)>>],
     [type |-> "jsonExpand", key |-> <<"a">>], [type |-> "jsonExpand", key |-> <<"b">>],
     [type |-> "trim"]}

UpToTwo == {<<>>} \cup {<<t>> : t \in AnyTransforms}
                  \cup {<<t, u>> : t \in AnyTransforms, u \in AnyTransforms}
=============================================================================
