--------------------------- MODULE MCGraphMemory ---------------------------
(* A node of the assistant, two things to know and two relations of them.   *)
EXTENDS GraphMemory

K(l, n) == [label |-> l, name |-> n]
Op(do, a, t, b, new, props) ==
    [do |-> do, a |-> a, t |-> t, b |-> b, new |-> new, props |-> props]
Knows == <<"K">>
Odd == <<"K", "x", "K">>
One == K("Memory", "a")
Two == K("Memory", "b")

MCPlans == {
    <<Op("CreateRelationship", One, Knows, Two, Knows, {})>>,
    <<Op("UpdateRelationship", One, Knows, Two, RelatedTo, {}),
      Op("UpdateRelationshipProperty", One, RelatedTo, Two, Knows, {"since"})>>,
    <<Op("DeleteNode", Two, Knows, Two, Knows, {}),
      Op("UpdateRelationship", One, RelatedTo, Two, Odd, {})>>,
    <<Op("DeleteNodeProperty", One, Knows, One, Knows, {"name"}),
      Op("CreateNode", K(Root, "a"), Knows, One, Knows, {})>>,
    <<Op("?", Two, Knows, Two, Knows, {})>>}

MCRawTypes == {<<"x", "K", "x", "u", "K">>}
=============================================================================
