---------------------------- MODULE NativeResult ----------------------------
(***************************************************************************)
(* What a caller of native/transport.c may expect: the code a call returns *)
(* and, for each code, what is in the output.  Capture takes its native    *)
(* calls from here and Transport is shown to keep to it.                   *)
(*                                                                         *)
(* body is what the output (the body file of a capture, else stdout) has   *)
(* got of the response: "none" if it was never opened, "part" or "whole".  *)
(* status is the one in the metadata, 0 when no metadata was written.      *)
(***************************************************************************)
EXTENDS Naturals

Codes == {0} \cup 2..14

Statuses == 100..599

\* Those that are no rejection.
Successes == 200..299

NoOutcome == [code |-> 1, body |-> "none", status |-> 0]

\* Codes that say the response never got as far as an output.
NoResponse == {2, 3, 4, 5, 6, 8, 14}

\* Codes that may also come from the middle of the body.
Interrupted == {7, 11, 12, 13}

StdoutPromise ==
    [code : {0}, body : {"whole"}, status : {0}]
    \cup [code : 2..8, body : {"none"}, status : {0}]
    \cup [code : {7}, body : {"part", "whole"}, status : {0}]

CapturePromise ==
    [code : {0}, body : {"whole"}, status : Successes]
    \cup [code : {10}, body : {"whole"}, status : Statuses \ Successes]
    \cup [code : {9}, body : {"whole"}, status : Statuses]
    \cup [code : NoResponse \cup Interrupted, body : {"none"}, status : {0}]
    \cup [code : Interrupted, body : {"part", "whole"},
          status : {0} \cup Statuses]

Promise(c) == IF c = 1 THEN CapturePromise ELSE StdoutPromise

=============================================================================
