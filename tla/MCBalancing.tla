---------------------------- MODULE MCBalancing -----------------------------
(* A road of two streets, which a shortcut spans, beside a third one; two updates. *)
EXTENDS Balancing

MCStreets == 1 .. 3
MCHalves == (11 :> <<1, 2>>) @@ (12 :> <<11, 3>>)

MCCustom ==
    [e \in MCStreets |-> [km |-> Ratio(e, 2), lanes |-> <<e, 1>>, workload |-> One]]

MCLoads == {<<0, 0, 0>>, <<2, 2, 1>>, <<0, 1, 10>>}

MCAccuracy == <<1, 10>>

Base ==
    [updates |-> 2, dim |-> 2,
     iter0 |-> [written |-> <<"km">>, parsed |-> <<"km">>, infos |-> <<"lanes">>,
                generated |-> <<"workload", "lanes">>],
     iterI |-> [written |-> <<"km", "workload">>, parsed |-> <<"km", "workload">>,
                infos |-> <<"lanes">>, generated |-> <<"lanes">>],
     published |-> <<"lanes", "workload", "km">>, monitored |-> <<"km">>,
     method |-> "Averaging", correction |-> One, min |-> <<>>, isErr |-> TRUE,
     alphas |-> {"km", "workload"}]

Configs0 ==
    {Base, [Base EXCEPT !.min = <<1, 2>>], [Base EXCEPT !.updates = 0, !.isErr = FALSE],
     \* steps beyond the new workload
     [Base EXCEPT !.method = "ExplicitEuler", !.correction = <<2, 1>>],
     [Base EXCEPT !.method = "ExplicitEuler", !.correction = <<2, 1>>, !.isErr = FALSE],
     [Base EXCEPT !.method = "ExplicitEuler", !.correction = <<1, 2>>, !.min = <<1, 2>>],
     \* a step slightly beyond
     [Base EXCEPT !.method = "ExplicitEuler", !.correction = <<11, 10>>, !.isErr = FALSE]}

\* Configs that don't fit together
Misfits ==
    {[Base EXCEPT !.dim = 3], [Base EXCEPT !.iterI.generated = <<"workload", "lanes">>],
     [Base EXCEPT !.iterI.parsed = <<"workload", "km">>], [Base EXCEPT !.iter0.infos = <<"km">>],
     [Base EXCEPT !.iter0.generated = <<"lanes">>],
     [Base EXCEPT !.iterI = [written |-> <<"km", "lanes">>, parsed |-> <<"km", "lanes">>,
                             infos |-> <<>>, generated |-> <<>>],
                  !.alphas = {"km"}],
     [Base EXCEPT !.iter0.infos = <<>>, !.iter0.generated = <<"workload">>, !.monitored = <<"lanes">>],
     [Base EXCEPT !.iter0.written = <<"workload">>, !.iter0.parsed = <<"workload">>,
                  !.iter0.generated = <<"lanes">>]}

MCConfigs == Configs0 \cup Misfits
=============================================================================
