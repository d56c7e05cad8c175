--------------------------- MODULE MCListeningInputs ---------------------------
(* Two clients of syslog, two inputs on one socket, three requests.        *)
EXTENDS ListeningInputs

None == <<>>
Texts(c, d) == [x \in {"c", "d"} |-> IF x = "c" THEN c ELSE d]
Base == [kind |-> "udp", pauses |-> 1, faults |-> 1, text |-> Texts(None, None),
         tls |-> FALSE, ack |-> FALSE, inputs |-> {}, forked |-> {}, silent |-> {},
         loop |-> FALSE, blank |-> {}]
W(k) == [Base EXCEPT !.kind = k]
WithText(k, c, d) == [W(k) EXCEPT !.text = Texts(c, d)]

LinesText == <<"b", "n", "n", "b", "n", "b">>
PriorityText == <<"<", ">", "b", "<", ">", "b", "<">>
JunkFirst == <<"b", "<", ">", "b", "<", ">">>

MCWorlds ==
  {WithText("linebreak", LinesText, None), WithText("linebreak", <<"b", "n">>, <<"b", "n">>),
   [WithText("linebreak", <<"b", "n", "b">>, None) EXCEPT !.tls = TRUE],
   WithText("priority", PriorityText, None), WithText("priority", <<"<", ">", "<", ">">>, <<"<", ">">>),
   WithText("priority", JunkFirst, None),
   WithText("length", <<"b", "b", "b">>, <<"b">>),
   WithText("tcp", <<"<", ">", "<", ">">>, None), W("http")}
  \cup {[W(k) EXCEPT !.inputs = {"i"}] : k \in {"udp", "ws", "redis", "amqp"}}
  \cup {[W(k) EXCEPT !.inputs = {"i", "j"}] : k \in {"zmq", "machine"}}
  \cup {[W("https") EXCEPT !.ack = TRUE, !.forked = s] : s \in {{}, {"f"}, {"f", "g"}}}
  \cup {[W("https") EXCEPT !.ack = TRUE, !.silent = {"g"}]}
  \cup {W(k) : k \in {"exec", "next", "spawn", "static"}}
  \cup {[W("static") EXCEPT !.loop = TRUE], [W("static") EXCEPT !.blank = {2}]}

MCOutput == <<"b", "n", "n", "b", "n", "b">>
=============================================================================
