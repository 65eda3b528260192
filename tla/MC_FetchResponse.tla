-------------------------- MODULE MC_FetchResponse --------------------------
(***************************************************************************)
(* Two processes with calls of both kinds and two directory names.         *)
(***************************************************************************)
EXTENDS Capture, TLC

Response(status, content_type, content_encoding, utf8) ==
    [status |-> status, content_type |-> content_type,
     content_encoding |-> content_encoding, utf8 |-> utf8]

MC_Responses ==
    {Response(200, "long latin1", "identity", "valid"),
     Response(404, "tab", "gzip", "valid"),
     Response(200, "latin1", "identity", "valid"),
     Response(404, "html", "identity", "invalid")}

Symmetry == Permutations(Callers) \cup Permutations(Directories)

=============================================================================
