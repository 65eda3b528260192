------------------------------- MODULE MC_Jni -------------------------------
(***************************************************************************)
(* A command that is refused, one without a body, one with a body, and     *)
(* requests that the bridges have to refuse.                               *)
(***************************************************************************)
EXTENDS JniBridge

MC_Arrays == {<<>>, <<"get">>, <<"get", "url">>, <<"post", "url", "body">>,
              <<"post", "url", "miscounted">>, <<"post", "url", "huge">>,
              <<"post", "nul", "body">>, <<"a", "b", "c", "d">>}

Asked(declared, body, nul) ==
    [declared |-> declared, host |-> 1, head |-> 2, body |-> body, nul |-> nul]

MC_Requests == {Asked(0, 0, "no"), Asked(3, 3, "no"), Asked(3, 1, "no"),
                Asked(-2, 3, "no"), Asked(3, 3, "yes")}

MC_RequestOf ==
    [a \in MC_Arrays |->
        CASE a = <<"get", "url">>                -> Asked(0, 0, "no")
          [] a = <<"post", "url", "body">>       -> Asked(3, 3, "no")
          [] a = <<"post", "url", "miscounted">> -> Asked(3, 1, "no")
          [] a = <<"post", "url", "huge">>       -> Asked(-2, 3, "no")
          [] a = <<"post", "nul", "body">>       -> Asked(3, 3, "yes")
          [] OTHER                               -> NoRequest]

=============================================================================
