------------------------------ MODULE Redirect ------------------------------
(***************************************************************************)
(* The redirect rules of native/transport.c as operators: what endpoint a  *)
(* Location leads to, and what request is made of the one just answered.   *)
(* A C function that may fail returns a set here: the empty set for the    *)
(* failure, a singleton for its result.                                    *)
(*                                                                         *)
(* A Location header is abstracted to the form the code tells apart:       *)
(*   "http", "https"    an absolute URL, "scheme_relative" one from //     *)
(*   "root"             starts with /                                      *)
(*   "query"            starts with ?                                      *)
(*   "path"             a relative path                                    *)
(*   "other_scheme"     an absolute URL of another scheme (ftp://h/x)      *)
(*   "unusable"         bytes that are not visible ASCII, nothing but a    *)
(*                      fragment, or an authority the code refuses: one    *)
(*                      with userinfo, brackets or an empty host, or of    *)
(*                      MAX_HOST_BYTES or more with its port text          *)
(* port is the number after the colon, AbsentPort without one; path and    *)
(* query are what follows the authority, with the fragment dropped.        *)
(***************************************************************************)
EXTENDS Endpoint

CONSTANTS
    MAX_TARGET_BYTES,   \* first length of a target that does not fit
    LongHosts           \* hosts of MAX_HOST_BYTES or more

ASSUME RedirectAssumption == MAX_TARGET_BYTES \in Nat /\ LongHosts \subseteq Hosts

AbsentPort == -1

AbsoluteForms == {"http", "https", "scheme_relative"}

Locations ==
    [form : AbsoluteForms
              \cup {"root", "query", "path", "other_scheme", "unusable"},
     host : Hosts, port : Int, path : Seq(Texts), query : Texts]

\* Length of a target, in names and queries instead of bytes.
TargetLength(t) == Len(t.path) + (IF t.query = "" THEN 0 ELSE 1)

redirect_status(status) == status \in {301, 302, 303, 307, 308}

set_target(e, t) ==
    IF TargetLength(t) >= MAX_TARGET_BYTES THEN {}
    ELSE {[e EXCEPT !.target = t]}

parse_absolute_location(location, default_tls) ==
    LET use_tls == IF location.form = "scheme_relative" THEN default_tls
                   ELSE IF location.form = "https" THEN 1 ELSE 0
        port    == IF location.port = AbsentPort THEN DefaultPort(use_tls)
                                                 ELSE location.port
        target  == [path |-> location.path, query |-> location.query]
    IN  IF port \notin 1..MaxPort \/ location.host \in LongHosts THEN {}
        ELSE set_target([use_tls |-> use_tls, port |-> port,
                         host |-> location.host, target |-> target], target)

\* The directory of a path: everything up to its last slash.
Directory(path) == SubSeq(path, 1, Len(path) - 1)

\* A Location the code does not recognise as absolute, rooted or a query is
\* appended to the directory of the current target, whatever its scheme.
relative_target(request, location) ==
    IF location.form = "query"
    THEN [path |-> request.target.path, query |-> location.query]
    ELSE [path |-> Directory(request.target.path) \o location.path,
          query |-> location.query]

resolve_location(current, request, location) ==
    IF location.form = "unusable" THEN {}
    ELSE IF location.form \in AbsoluteForms
    THEN parse_absolute_location(location, current.use_tls)
    ELSE IF location.form = "root"
    THEN set_target(current, [path |-> location.path, query |-> location.query])
    ELSE IF request.method # "GET" THEN {}
    ELSE set_target(current, relative_target(request, location))

\* Mutant: every caller header counts as a credential.
sensitive_everything(names) == STRING

\* Header names, folded to lower case, that never cross an origin.
sensitive_headers(names) == {"authorization", "cookie"} \cup names

\* Mutant: the Host line is copied like any other header.
rewrite_get_request_old_host(request, next, preserve_sensitive, names) ==
    [method |-> "GET", target |-> next.target,
     authority |-> request.authority, headers |-> request.headers]

rewrite_get_request_with_policy(request, next, preserve_sensitive, names) ==
    [method |-> "GET", target |-> next.target,
     authority |-> endpoint_authority(next),
     headers |-> IF preserve_sensitive THEN request.headers
                 ELSE request.headers \ sensitive_headers(names)]

=============================================================================
