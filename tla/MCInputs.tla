------------------------------ MODULE MCInputs ------------------------------
(* Three items, of two collections or groups of ids.  Every input pauses   *)
(* and has an error in one process, and crashes in another world, where a  *)
(* second process goes on; the push mode of http does or does not retry,   *)
(* and sqlserver runs one query at a time or two.                          *)
EXTENDS Inputs

World(k, n, s, f, p) ==
  [kind |-> k, items |-> n, starts |-> s, faults |-> f, pauses |-> p,
   retry |-> TRUE, cursors |-> 1]

MCKinds == {"mongo", "sqlserver", "elastic", "http", "httppush", "httpsm",
            "winpoll", "winpollids", "wevtutil", "wevtutilend", "kafka"}
Small == {"http", "httpsm", "winpoll", "winpollids"}
MCItems(k) == IF k \in {"mongo", "sqlserver", "wevtutilend"} THEN 2 ELSE 3
MCWorlds ==
  {World(k, MCItems(k), 1, 1, 1) : k \in MCKinds \ Small}
  \cup {World(k, MCItems(k), 2, 0, 0) : k \in MCKinds \ Small}
  \cup {World(k, 3, 2, 1, 1) : k \in Small}
  \cup {[World("httppush", 3, 1, 1, 1) EXCEPT !.retry = FALSE],
        [World("sqlserver", 2, 1, 0, 1) EXCEPT !.cursors = 2]}

MCClasses == {"a", "b"}
MCClassOf == <<"a", "a", "b">>
MCOrder == <<"a", "b">>
MCRefreshes == <<"refresh1", "refresh2">>
MCValues == Marks
MCPlaceholder == Upto(0)
MCMissing == [c \in {} |-> 0]
MCTimeouts == {-1, 0}
=============================================================================
