---------------------------- MODULE MC_Exchange ----------------------------
(***************************************************************************)
(* One exchange from the connection to the result, with one redirect: two  *)
(* addresses a name, the three proxy settings, this machine, a port that   *)
(* is refused; reads of one or two bytes, heads and bodies that end below, *)
(* at and above every limit or not at all, Content-Length lines that are   *)
(* right, wrong, repeated or no number; plain and TLS, captured and not.   *)
(***************************************************************************)
EXTENDS Transport

MC_CaseFold == [h \in Hosts |-> h]

MC_LengthOf == [v \in Values |-> CASE v = "0" -> 0 [] v = "2" -> 2
                                   [] v = "3" -> 3 [] v = "4" -> 4
                                   [] OTHER -> -1]

MC_LocationOf ==
    [v \in Values |-> [form |-> "root", host |-> "home", port |-> AbsentPort,
                       path |-> <<"r">>, query |-> ""]]

CallOf(host, port, use_tls, method, capture) ==
    [host |-> host, port |-> port, use_tls |-> use_tls,
     request |-> [method |-> method, target |-> [path |-> <<"f">>, query |-> ""],
                  authority |-> [host |-> host, port |-> {}], headers |-> {}],
     body_length |-> IF method = "POST" THEN 1 ELSE 0, names |-> {},
     capture |-> capture]

MC_Calls ==
    {CallOf("home", 80, 0, "GET", 1), CallOf("home", 80, 0, "GET", 0),
     CallOf("home", 80, 0, "POST", 0), CallOf("home", 443, 1, "GET", 1),
     CallOf("home", 443, 1, "POST", 0),
     CallOf("home", 0, 0, "GET", 0), CallOf("localhost", 0, 1, "GET", 1)}

Line(name, value) == [name |-> name, value |-> value]

Lines ==
    {<<>>, <<Line("transfer-encoding", "x")>>,
     <<Line("content-length", "2"), Line("content-length", "2")>>}
    \cup {<<Line("content-length", v)>> : v \in Values}

Answer(status, lines, head_size, size, endless) ==
    [status |-> status, lines |-> lines, head_size |-> head_size, size |-> size,
     endless |-> endless]

MC_Wires ==
    {Answer(200, ls, 2, n, FALSE) : ls \in Lines, n \in 1..7}
    \cup {Answer(200, <<>>, 5, n, FALSE) : n \in 1..7}
    \cup {Answer(404, ls, 2, n, FALSE) : ls \in Lines, n \in {2, 4, 5}}
    \cup {Answer(s, ls, 2, 3, FALSE) :
             s \in {99, 302}, ls \in {<<>>, <<Line("location", "x")>>}}
    \cup {Answer(200, ls, h, 15, TRUE) :
             ls \in {<<>>, <<Line("content-length", "2")>>}, h \in {2, 5}}

=============================================================================
