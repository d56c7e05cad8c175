--------------------------- MODULE MCTransporters ---------------------------
(***************************************************************************)
(* Instances of Transporters for TLC.                                      *)
(***************************************************************************)
EXTENDS Transporters

World(k, e, f, s, t) == [kind |-> k, entries |-> e, faults |-> f, stops |-> s, tries |-> t]

MCWorlds ==
  {World("mongo", 3, 1, 0, 0), World("mongo", 3, 2, 0, 2), World("mongo", 2, 1, 1, 3),
   World("kafka", 4, 2, 1, 0), World("kafka", 4, 2, 1, 2),
   World("http", 4, 1, 0, 0), World("ws", 3, 2, 0, 0),
   World("stream", 4, 2, 1, 0), World("pool", 3, 2, 1, 0),
   World("plain", 2, 0, 0, 0), World("request", 3, 1, 0, 0), World("zmq", 3, 0, 0, 0), World("redis", 3, 1, 0, 0),
   World("file", 4, 1, 0, 0),
   World("reemit", 3, 0, 0, 1), World("reemit", 3, 1, 0, 0), World("reemits", 4, 2, 0, 0)}
MCTo == <<"p", "q", "p", "p">>
MCPartitions == <<"p", "q">>
=============================================================================
