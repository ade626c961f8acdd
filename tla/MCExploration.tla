--------------------------- MODULE MCExploration ----------------------------
(* Any paths out of seven points, and paths with a third metric that isn't considered. *)
EXTENDS Exploration

Points == {<<1, 12>>, <<2, 7>>, <<4, 5>>, <<6, 6>>, <<7, 3>>, <<12, 1>>, <<2, 12>>}

Query(paths, considered, scales) ==
    [dim |-> Len(scales), paths |-> paths, considered |-> considered, scales |-> scales]

MCQueries ==
    {Query(SetToSeq(ps), {1, 2}, s) : ps \in SUBSET Points,
        s \in {<<Infinity, Infinity>>, <<<<3, 1>>, Infinity>>, <<<<4, 1>>, <<5, 1>>>>}}
    \cup {Query(<< <<0, 0>>, <<0, 0>> >>, {1, 2}, <<Infinity, <<2, 1>>>>),
          Query(SetToSeq(Points), {2}, <<Infinity, <<3, 2>>>>)}
    \cup {Query(<< <<1, 3, 9>>, <<1, 5, 9>>, <<3, 8, 3>>, <<4, 7, 4>>, <<5, 1, 3>>, <<9, 2, 1>> >>,
                {1, 3}, <<<<5, 1>>, <<2, 1>>, Infinity>>)}

MCAccuracy == <<1, 1000>>
=============================================================================
