---------------------------- MODULE MC_Redirects ----------------------------
(***************************************************************************)
(* Chains of redirects among two spellings of one host, another host and   *)
(* this machine, over both schemes and two ports, with calls that carry    *)
(* credentials.  Responses fit in one read.                                *)
(***************************************************************************)
EXTENDS Transport

MC_CaseFold == [h \in Hosts |-> IF h = "HOME" THEN "home" ELSE h]

Loc(form, host, port, path, query) ==
    [form |-> form, host |-> host, port |-> port, path |-> path,
     query |-> query]

MC_LocationOf ==
    [v \in Values |->
        CASE v = "root"     -> Loc("root", "home", AbsentPort, <<"r">>, "")
          [] v = "path"     -> Loc("path", "home", AbsentPort, <<"p", "q">>, "")
          [] v = "query"    -> Loc("query", "home", AbsentPort, <<>>, "?x")
          [] v = "ftp"      -> Loc("other_scheme", "away", AbsentPort,
                                   <<"ftp:", "", "away">>, "")
          [] v = "away"     -> Loc("https", "away", AbsentPort, <<"">>, "")
          [] v = "sibling"  -> Loc("scheme_relative", "home", 8080, <<"">>, "")
          [] v = "HOME"     -> Loc("https", "HOME", 443, <<"">>, "")
          [] v = "plain"    -> Loc("http", "home", AbsentPort, <<"">>, "")
          [] v = "port0"    -> Loc("http", "home", 0, <<"">>, "")
          [] v = "long"     -> Loc("http", "long", AbsentPort, <<"">>, "")
          [] OTHER          -> Loc("unusable", "home", AbsentPort, <<>>, "")]

MC_LengthOf == [v \in Values |-> -1]

Req(method, host, headers) ==
    [method |-> method, target |-> [path |-> <<"d", "f">>, query |-> ""],
     authority |-> [host |-> host, port |-> {}], headers |-> headers]

CallOf(method, host, port, use_tls, body_length) ==
    [host |-> host, port |-> port, use_tls |-> use_tls,
     request |-> Req(method, host, {"authorization", "x-key", "accept"}),
     body_length |-> body_length, names |-> {"x-key"}, capture |-> 0]

MC_Calls ==
    {CallOf("GET", "home", 443, 1, 0), CallOf("POST", "home", 443, 1, 1),
     CallOf("GET", "home", 80, 0, 0), CallOf("other", "home", 80, 0, 0),
     CallOf("GET", "long", 80, 0, 0),
     [CallOf("GET", "home", 443, 1, 0) EXCEPT !.capture = 1]}

MC_Wires ==
    {[status |-> 302, lines |-> <<[name |-> "location", value |-> v]>>,
      head_size |-> 1, size |-> 1, endless |-> FALSE] : v \in Values}
    \cup {[status |-> 200, lines |-> <<>>, head_size |-> 1, size |-> 1,
           endless |-> FALSE]}

=============================================================================
