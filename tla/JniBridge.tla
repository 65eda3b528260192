----------------------------- MODULE JniBridge -----------------------------
(***************************************************************************)
(* The icu command on Android: native/android_jni.c between app_process    *)
(* and src/Main.idric (bridge "dex"), and android/jni_transport.c for a    *)
(* Java program that calls the transport itself (bridge "library").  Both  *)
(* turn three Java strings into C buffers, one JNI call at a time, each of *)
(* which may throw, and then make one transport call.                      *)
(*                                                                         *)
(* A text is the length of its UTF-8 form and whether a NUL is in it; the  *)
(* texts of a request are its host, its head and its body, of which the    *)
(* Idric layer has counted the bytes (declared).  What the arguments of a  *)
(* command ask for is external (Network.URL, Network.HTTP).                *)
(***************************************************************************)
EXTENDS Integers, Sequences

CONSTANTS
    Bridges,
    Words,          \* the arguments that occur
    Arrays,         \* the argument arrays app_process may pass
    Requests,       \* what a command or a Java program may ask for
    RequestOf,      \* RequestOf[words]: parse_command and render_request_parts
    INT_MAX,
    MaxCaptures     \* bound: calls of captureArguments

NoArray == <<"no array">>
NoRequest == [declared |-> -1, host |-> 0, head |-> 0, body |-> 0, nul |-> "yes"]

\* nul says whether the host or the head has a NUL inside.
RequestType == [declared : Int, host : Nat, head : Nat, body : Nat,
                nul : {"yes", "no"}]

ASSUME BridgeAssumption ==
    /\ Bridges \subseteq {"dex", "library"}
    /\ Arrays \subseteq Seq(Words) /\ NoArray \notin Arrays
    /\ Requests \subseteq RequestType /\ NoRequest \notin Requests
    /\ RequestOf \in [Arrays -> Requests \cup {NoRequest}]
    /\ INT_MAX \in Nat /\ \A a \in Arrays : Len(a) <= INT_MAX
    /\ MaxCaptures \in Nat

VARIABLES
    bridge,
    captures,           \* history: global references made
    captured,           \* captured_arguments: the reference and the array
    globals,            \* global references that are alive
    argv,               \* what getArgs has got
    request,
    at,                 \* control point
    text,               \* the string that is being copied
    step,               \* the JNI call that comes next
    held,               \* local references and pinned characters
    heap,               \* buffers
    pending,            \* is a Java exception pending?
    misused,            \* history: was a JNI function called with one?
    calls,              \* history: codes the transport returned
    result, exit

vars == <<bridge, captures, captured, globals, argv, request, at, text, step,
          held, heap, pending, misused, calls, result, exit>>

argvars == <<bridge, captures, captured, globals, argv>>

Points == {"launch", "count", "argument", "java", "copy", "check",
           "transport", "done", "returned", "put", "over"}

\* What each bridge asks of JNI and of malloc for one string, in order.
CopySteps ==
    IF bridge = "dex"
    THEN <<"FindClass", "GetMethodID", "NewStringUTF", "CallObjectMethod",
           "GetArrayLength", "malloc", "GetByteArrayRegion">>
    ELSE <<"GetStringLength", "GetStringChars", "malloc", "convert">>

AllSteps == {"FindClass", "GetMethodID", "NewStringUTF", "CallObjectMethod",
             "GetArrayLength", "malloc", "GetByteArrayRegion",
             "GetStringLength", "GetStringChars", "convert"}

JniCalls == AllSteps \ {"malloc", "convert"}

References == {"string_class", "utf8", "bytes", "characters"}

\* What a step that succeeds has got.
Made(s) ==
    CASE s = "FindClass"        -> {"string_class"}
      [] s = "NewStringUTF"     -> {"utf8"}
      [] s = "CallObjectMethod" -> {"bytes"}
      [] s = "GetStringChars"   -> {"characters"}
      [] OTHER                  -> {}

\* Mutant: a string that cannot be encoded keeps the charset's name.
Released_utf8kept(s) ==
    CASE s \in {"GetMethodID", "NewStringUTF"} -> {"string_class"}
      [] s = "CallObjectMethod"                -> {"string_class"}
      [] s \in {"GetArrayLength", "GetByteArrayRegion"} ->
            {"bytes", "utf8", "string_class"}
      [] s = "malloc"  -> {"bytes", "utf8", "string_class", "characters"}
      [] s = "convert" -> {"characters"}
      [] OTHER         -> {}

\* What is released when a step has failed.
Released(s) ==
    CASE s \in {"GetMethodID", "NewStringUTF"} -> {"string_class"}
      [] s = "CallObjectMethod"                -> {"utf8", "string_class"}
      [] s \in {"GetArrayLength", "GetByteArrayRegion"} ->
            {"bytes", "utf8", "string_class"}
      [] s = "malloc"  -> {"bytes", "utf8", "string_class", "characters"}
      [] s = "convert" -> {"characters"}
      [] OTHER         -> {}

\* A call that returned NULL is not asked about its exception: the test stops
\* at the NULL.  The other failures are cleared, or are not exceptions.
LeavesException(s) ==
    s \in {"FindClass", "GetMethodID", "NewStringUTF", "CallObjectMethod",
           "GetStringChars"}

\* Those that have nothing to fail with.
Infallible == {"GetStringLength"}

Init ==
    /\ bridge \in Bridges
    /\ captures = 0 /\ captured = [ref |-> 0, array |-> NoArray] /\ globals = {}
    /\ argv = <<>> /\ request = NoRequest
    /\ at = IF bridge = "dex" THEN "launch" ELSE "java"
    /\ text = "host" /\ step = 1
    /\ held = {} /\ heap = {} /\ pending = "no" /\ misused = "no"
    /\ calls = <<>> /\ result = 1 /\ exit = -1

-----------------------------------------------------------------------------
\* The process ends.
ExitWith(code) ==
    /\ at' = "over" /\ exit' = code

\* bridge_abort.
Abort == ExitWith(1)

Idle == UNCHANGED <<request, text, step, held, heap, pending, misused, calls, result>>

captureArguments ==
    /\ at = "launch" /\ captures < MaxCaptures
    /\ \/ \E array \in Arrays :
             /\ captures' = captures + 1
             /\ captured' = [ref |-> captures + 1, array |-> array]
             /\ globals' = (globals \ {captured.ref}) \cup {captures + 1}
             /\ UNCHANGED <<at, exit>>
       \* No array, or no memory for the reference.
       \/ Abort /\ UNCHANGED <<captures, captured, globals>>
    /\ UNCHANGED <<bridge, argv>> /\ Idle

\* The checked main begins, with getArgs.
Main ==
    /\ at = "launch"
    /\ at' = "count"
    /\ UNCHANGED <<argvars, exit>> /\ Idle

\* The number of arguments with argv[0]; INT_MAX of them have no successor.
ArgumentCount == Len(captured.array) + 1

idricArgumentCount ==
    /\ at = "count"
    /\ IF captured.array = NoArray \/ Len(captured.array) = INT_MAX
       THEN Abort
       ELSE Abort \/ (at' = "argument" /\ UNCHANGED exit)
    /\ UNCHANGED argvars /\ Idle

\* Mutant: the synthetic argv[0] is forgotten about.
ArgumentAt_shifted(index) ==
    IF index = 0 THEN "icu"
    ELSE captured.array[IF index < Len(captured.array) THEN index + 1 ELSE 1]

ArgumentAt(index) == IF index = 0 THEN "icu" ELSE captured.array[index]

\* One more element for getArgs, or an exception.
idricArgument ==
    /\ at = "argument" /\ Len(argv) < ArgumentCount
    /\ \/ argv' = Append(argv, ArgumentAt(Len(argv))) /\ UNCHANGED <<at, exit>>
       \/ Abort /\ UNCHANGED argv
    /\ UNCHANGED <<bridge, captures, captured, globals>> /\ Idle

\* Begin to copy the first string.
StartCopy(first) ==
    /\ at' = "copy" /\ text' = first /\ step' = 1

\* The request of a command, or usage.
parse_command(words) == IF words \in Arrays THEN RequestOf[words] ELSE NoRequest

\* Main.idric: all arguments are there; main drops the first and run looks at
\* the rest.
run ==
    /\ at = "argument" /\ Len(argv) = ArgumentCount
    /\ request' = parse_command(Tail(argv))
    /\ IF request' = NoRequest
       THEN StartCopy("stdout") /\ UNCHANGED result
       ELSE IF request'.declared < 0
       THEN at' = "done" /\ result' = 255 /\ UNCHANGED <<text, step>>
       ELSE StartCopy("host") /\ result' = 255
    /\ UNCHANGED <<argvars, held, heap, pending, misused, calls, exit>>

\* A Java program calls nativeSendHttp or nativeSendHttps.
nativeSend ==
    /\ at = "java"
    /\ request' \in Requests
    /\ StartCopy("host") /\ result' = -1
    /\ UNCHANGED <<argvars, held, heap, pending, misused, calls, exit>>

-----------------------------------------------------------------------------
\* copy_java_utf8 and jstring_to_utf8, one call at a time.
Step == CopySteps[step]

LengthOf(t) ==
    CASE t = "host" -> request.host
      [] t = "head" -> request.head
      [] t = "body" -> request.body
      [] OTHER      -> 1

\* The bytes of an empty string are not asked for.
LastStep ==
    \/ step = Len(CopySteps)
    \/ Step = "malloc" /\ bridge = "dex" /\ LengthOf(text) = 0

Calling == misused' = IF Step \in JniCalls /\ pending = "yes" THEN "yes" ELSE misused

NextText == IF text = "host" THEN "head" ELSE "body"

CopyStep ==
    /\ at = "copy" /\ ~LastStep
    /\ held' = held \cup Made(Step)
    /\ heap' = IF Step = "malloc" THEN heap \cup {text} ELSE heap
    /\ step' = step + 1
    /\ Calling
    /\ UNCHANGED <<argvars, request, at, text, pending, calls, result, exit>>

\* The string is copied: its references are released, the buffer is kept.
CopyEnds ==
    /\ at = "copy" /\ LastStep
    /\ held' = held \ References
    /\ heap' = heap \cup {text}
    /\ Calling
    /\ CASE text \in {"host", "head"} -> text' = NextText /\ step' = 1 /\ at' = at
         [] text = "body"             -> at' = "check" /\ UNCHANGED <<text, step>>
         [] text = "stdout"           -> at' = "put" /\ UNCHANGED <<text, step>>
    /\ UNCHANGED <<argvars, request, pending, calls, result, exit>>

\* Mutant: the other strings are copied all the same.
AfterFailure_goesOn ==
    IF text \in {"host", "head"}
    THEN text' = NextText /\ step' = 1 /\ UNCHANGED <<at, exit>>
    ELSE at' = "done" /\ UNCHANGED <<text, step, exit>>

\* Mutant: a body that cannot be copied counts as none.
AfterFailure_bodyless ==
    IF text = "stdout" THEN Abort /\ UNCHANGED <<text, step>>
    ELSE at' = (IF text = "body" THEN "check" ELSE "done") /\ UNCHANGED <<text, step, exit>>

\* send and send_request_from_java give up; idricPutString aborts.
AfterFailure ==
    IF text = "stdout" THEN Abort /\ UNCHANGED <<text, step>>
    ELSE at' = "done" /\ UNCHANGED <<text, step, exit>>

CopyFails ==
    /\ at = "copy" /\ Step \notin Infallible
    /\ held' = held \ Released(Step)
    /\ heap' = heap \ {text}
    /\ pending' = IF LeavesException(Step) THEN "yes" ELSE pending
    /\ Calling
    /\ AfterFailure
    /\ UNCHANGED <<argvars, request, calls, result>>

\* The string is NULL, which both functions test first: no exception.
NullString ==
    /\ at = "copy" /\ step = 1
    /\ AfterFailure
    /\ UNCHANGED <<argvars, request, held, heap, pending, misused, calls, result>>

-----------------------------------------------------------------------------
\* The checks between the strings and the transport.
Agrees ==
    /\ bridge = "dex" => request.nul = "no"
    /\ request.declared = request.body

Check ==
    /\ at = "check"
    /\ at' = IF Agrees THEN "transport" ELSE "done"
    /\ UNCHANGED <<argvars, request, text, step, held, heap, pending, misused,
                   calls, result, exit>>

\* The length the transport is told: the command passes the number it was
\* given, the library the number of bytes it has copied.
PassedLength == IF bridge = "dex" THEN request.declared ELSE request.body

\* What icu_send_http and icu_send_https return: see StdoutPromise.
TransportCodes == {0} \cup 2..8

Transport ==
    /\ at = "transport"
    /\ result' \in TransportCodes /\ calls' = Append(calls, result')
    /\ at' = "done"
    /\ UNCHANGED <<argvars, request, text, step, held, heap, pending, misused, exit>>

Done ==
    /\ at = "done"
    /\ heap' = heap \ {"host", "head", "body"}
    /\ at' = "returned"
    /\ UNCHANGED <<argvars, request, text, step, held, pending, misused, calls,
                   result, exit>>

\* The codes transport_result_from_native_code knows.  Network.Transport is not in
\* this repository: that it knows every code of the transport is assumed.
KnownCodes == TransportCodes

\* Mutant: what is not known is taken for a success.
understand_transport_result_lenient(code) == IF code \in KnownCodes THEN code ELSE 0

\* Mutant: any code becomes the exit status.
understand_transport_result_raw(code) == code

\* The exit status, 1 for a Left.
understand_transport_result(code) == IF code \in KnownCodes THEN code ELSE 1

\* The rest of run.  With an exception pending there is no result: it is
\* thrown in the caller.  A library's result is the Java program's.
Returned ==
    /\ at = "returned"
    /\ IF pending = "yes" \/ bridge = "library"
       THEN ExitWith(IF pending = "yes" THEN 1 ELSE result) /\ UNCHANGED <<text, step>>
       ELSE IF understand_transport_result(result) = 1
       THEN StartCopy("stdout") /\ UNCHANGED exit
       ELSE ExitWith(understand_transport_result(result)) /\ UNCHANGED <<text, step>>
    /\ UNCHANGED <<argvars, request, held, heap, pending, misused, calls, result>>

\* The end of idricPutString, where a failed write aborts, and exitFailure.
PutString ==
    /\ at = "put"
    /\ heap' = heap \ {"stdout"}
    /\ ExitWith(1)
    /\ UNCHANGED <<argvars, request, text, step, held, pending, misused, calls, result>>

Next ==
    \/ captureArguments \/ Main \/ idricArgumentCount \/ idricArgument \/ run
    \/ nativeSend \/ CopyStep \/ CopyEnds \/ CopyFails \/ NullString
    \/ Check \/ Transport \/ Done \/ Returned \/ PutString

Spec == Init /\ [][Next]_vars

-----------------------------------------------------------------------------
TypeOK ==
    /\ bridge \in {"dex", "library"}
    /\ captures \in Nat /\ globals \subseteq 1..captures
    /\ captured \in [ref : 0..captures, array : Arrays \cup {NoArray}]
    /\ argv \in Seq(Words \cup {"icu"})
    /\ request \in Requests \cup {NoRequest}
    /\ at \in Points /\ text \in {"host", "head", "body", "stdout"}
    /\ step \in 1..Len(CopySteps)
    /\ held \subseteq References /\ heap \subseteq {"host", "head", "body", "stdout"}
    /\ pending \in {"yes", "no"} /\ misused \in {"yes", "no"}
    /\ calls \in Seq(TransportCodes) /\ result \in {-1, 1, 255} \cup TransportCodes
    /\ exit \in {-1, 1} \cup TransportCodes

\* No JNI function is called while an exception is pending, though a NULL that
\* is tested first leaves its exception in place: the calls that follow in the
\* code are not reached from there.
NoCallWhilePending == misused = "no"

\* Whichever call fails, Java gets control back with no local reference, no
\* pinned characters and no buffer left, and with the one global reference
\* captured_arguments names.
NothingLeaks ==
    /\ at \in {"launch", "count", "argument", "java", "returned"} =>
          held = {} /\ heap = {}
    /\ globals = IF captured.array = NoArray THEN {} ELSE {captured.ref}

\* android_jni.c: "the bridge supplies one synthetic argv[0] followed by the
\* exact Java String values".
ArgvIsExact ==
    at \notin {"launch", "java", "count", "argument", "over"} /\ bridge = "dex" =>
        argv = <<"icu">> \o captured.array

\* When the transport is called, for the first and only time, the three texts are
\* in their buffers, whichever calls and strings failed or were NULL before: no
\* string is pinned, no exception pending, the length it is told is that of the
\* body's buffer, and the request is the one the captured arguments ask for.
TransportGetsWholeTexts ==
    at = "transport" =>
        /\ heap = {"host", "head", "body"} /\ held = {}
        /\ pending = "no" /\ calls = <<>>
        /\ PassedLength = request.body
        /\ bridge = "dex" => request = parse_command(captured.array)

\* Success is reported exactly when the transport was called and said so: not
\* for a refused text, an unknown code or a pending exception.
ExitIsHonest == at = "over" => (exit = 0 <=> calls = <<0>>)

=============================================================================
