------------------------------ MODULE Endpoint ------------------------------
(***************************************************************************)
(* Where a request goes: the endpoint record of native/transport.c, the    *)
(* request it is asked with, and the two comparisons made on endpoints.    *)
(*                                                                         *)
(* use_tls keeps its C values 0 and 1.  A request target is its path, a    *)
(* sequence of names ("/a/b" is <<"a","b">>, "/" is <<"">>), and its       *)
(* query, "" when there is none.                                           *)
(***************************************************************************)
EXTENDS Integers, Sequences

CONSTANTS
    Texts,      \* what paths and queries are made of
    Hosts,      \* host names as they are spelled
    CaseFold,   \* CaseFold[h]: the spelling strcasecmp identifies h with
    Loopback    \* the spellings proxy_configuration takes for this machine

ASSUME EndpointAssumption ==
    /\ "" \in Texts
    /\ CaseFold \in [Hosts -> Hosts]
    /\ Loopback \subseteq Hosts

MaxPort == 65535

Targets == [path : Seq(Texts), query : Texts]

Endpoints == [use_tls : {0, 1}, port : Int, host : Hosts, target : Targets]

\* The port is a set with the number the text shows, empty if it shows none.
Authorities == [host : Hosts, port : SUBSET Int]

\* "other" is any method transport.c refuses.
Methods == {"GET", "POST", "other"}

Requests == [method : Methods, target : Targets, authority : Authorities,
             headers : SUBSET STRING]

DefaultPort(use_tls) == IF use_tls = 1 THEN 443 ELSE 80

\* The Host header's text: the port only when it is not the scheme's own.
endpoint_authority(e) ==
    [host |-> e.host,
     port |-> IF e.port = DefaultPort(e.use_tls) THEN {} ELSE {e.port}]

\* Mutant: the port is not compared.
same_origin_any_port(left, right) ==
    /\ left.use_tls = right.use_tls
    /\ CaseFold[left.host] = CaseFold[right.host]

same_origin(left, right) ==
    /\ left.use_tls = right.use_tls
    /\ left.port = right.port
    /\ CaseFold[left.host] = CaseFold[right.host]

=============================================================================
