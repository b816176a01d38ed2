----------------------------- MODULE MCTraceLog -----------------------------
(* A model-checking instance of KernelLog and TraceLog: what is recorded.    *)
EXTENDS KernelLog

T(depth, rounds) == [depth |-> depth, rounds |-> rounds, head |-> {}]
Headers == SUBSET {"wifi", "enter"}
R(mode, ts, opt, tie, lose, kinds) ==
  [mode |-> mode, tests |-> ts, opt |-> opt, tie |-> tie, lose |-> lose, kinds |-> kinds, filter |-> {}]
All == {"mark", "sr", "cb"}
B4 == [1 .. 4 -> BOOLEAN]

MCLogs ==
  {R("mem", <<t>>, "plain", tie, 1, All) : tie \in {"none", "start", "end"},
      t \in {T(n, <<>>) : n \in 1 .. 4} \cup {T(4, <<"mem">>)}}
  \cup {R("freeze", <<T(4, rounds)>>, "plain", "none", 1, All) : rounds \in
      {<<>>, <<"freeze">>, <<"wake", "freeze">>, <<"freeze", "wake", "freeze">>, <<"wake">>}}
  \cup {R("mem", <<[t EXCEPT !.head = h]>>, "plain", "none", 1, {"mark", "sr"}) :
      t \in {T(4, <<"mem">>), T(2, <<>>)}, h \in Headers}
  \cup {R("mem", <<[s EXCEPT !.head = h], [t EXCEPT !.head = g]>>, "plain", "none", 1, {"mark"}) :
      s, t \in {T(4, <<"mem">>), T(0, <<>>)}, h, g \in Headers}
  \cup {R("mem", <<T(4, <<"mem">>)>>, "plain", "none", 2, {"mark", "sr"})}
  \cup {R(m, <<T(4, <<"freeze">>), t>>, opt, "none", 1, {"mark"}) :
      m \in {"mem", "freeze"}, t \in {T(4, <<"freeze">>), T(2, <<>>)}, opt \in {"plain", "probes"}}
  \cup {[R("mem", <<T(2, <<>>)>>, "probes", "none", 2, {"kp"}) EXCEPT !.filter = {"d1"}]}
  \cup {R("mem", <<T(n, <<>>)>>, "graphs", "none", 2, {"fg", "cb"}) : n \in 1 .. 2}
  \cup {R(m, <<T(4, <<"freeze">>), T(n, <<>>)>>, "probes", "none", 2, {"kp"}) :
      n \in {0, 1}, m \in {"mem", "freeze"}}
  \cup {R("command", <<T(n, <<"mem">>)>>, "graphs", "none", 0, {}) : n \in {0, 4}}
  \cup {R("mem", <<T(1, <<>>) @@ [ps |-> ps]>>, "procs", "none", 1, {"ps"}) : ps \in B4}
  \cup {R(m, <<T(n, <<>>)>>, "dmesg", tie, 2, {"msg", "cb"}) : n \in 1 .. 5, m \in {"mem", "freeze"}, tie \in {"none"}}
  \cup {R("mem", <<T(5, <<>>), T(2, <<>>)>>, "dmesg", "call", 0, {"msg", "cb"})}
=============================================================================
