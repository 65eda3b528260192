----------------------------- MODULE MC_Rewrite -----------------------------
(***************************************************************************)
(* Requests of up to 33 bytes with none to three Host lines, redirected    *)
(* twice.  The slack is the least that is enough, and the hosts have the   *)
(* lengths around which two or three Host lines just fit.                  *)
(***************************************************************************)
EXTENDS RewriteBuffer

MC_Requests ==
    [length : {24, 33}, first : {4, 14}, hosts : 0..3,
     ends : {"blank", "open", "torn"}]

MC_Endpoints ==
    [host : {1, 14, 15, 29}, target : {1}, port : {0, 12}]

=============================================================================
