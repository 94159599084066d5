---------------------------- MODULE MCExperiments ----------------------------
(* Command lines of up to four flags, with good values, bad ones and none;   *)
(* a matrix of two blocks in two segments; arms of every kind, some that   *)
(* parse_arm refuses; two rounds, blocks and chunk sizes.                    *)
EXTENDS Experiments

MCAtoi == ("2x" :> 2) @@ [s \in {"-1", "0", "1", "2", "3", "4", "5", "8"} |->
                            CHOOSE i \in -1 .. 8 : ToString(i) = s]

Words ==
  {<<f>> : f \in Switches \cup {"bogus", "gpus", "pre_timing_delay"}}
  \cup {<<"gpus", v>> : v \in {"0", "1", "2x", "3"}}
  \cup {<<"mode", v>> : v \in {"async", "fast"}}
  \cup {<<"payload", v>> : v \in {"i32", "packed"}}
  \cup {<<"partition", v>> : v \in {"pair", "dim"}}
  \cup {<<"finalize_stream", "separate">>, <<"pair_order", "bylen">>, <<"group", "3">>}
  \cup {<<"plan_metrics", v>> : v \in {"on", "2"}}
  \cup {<<"chunk", v>> : v \in {"2", "0"}}
  \cup {<<"warmup", v>> : v \in {"1", "-1"}}
  \cup {<<"repeat", v>> : v \in {"2", "3", "junk"}}

Thirds == {<<"mode", "async">>, <<"payload", "packed">>, <<"partition", "pair">>,
         <<"warmup", "1">>, <<"repeat", "3">>, <<"gpus", "1">>, <<"gpus">>}

MCLines ==
  {a \o b \o c \o d : a \in Words, b \in Words, c \in Thirds,
                      d \in {<<>>, <<"resident">>, <<"resident", "validate">>}}

MCArmSpecs ==
  {<<"legacy", "junk">>, <<"hoist">>, <<"cuda", "8">>, <<"nccl2", "8", "source">>,
   <<"cuda", "8", "bylen", "hoist", "delay5", "nohoist">>, <<"cuda", "3", "source">>,
   <<"nccl", "4", "source", "packed", "async", "nohoist", "delayx", "hoist">>,
   <<"nccl1", "8", "bylen", "f64", "metrics", "delay5", "delay">>,
   <<"nccl2", "3", "source", "f64", "delay5">>}
MCDelays == [delay |-> "0", delay5 |-> "5", delayx |-> "x"]
MCBatches == {-1, 0, 2}
MCChunks == <<"2", "4">>
=============================================================================
