----------------------------- MODULE JniProofs -----------------------------
(***************************************************************************)
(* JniBridge's invariants, for any arguments and requests.  They hold      *)
(* because of what is known at each control point: the references and      *)
(* buffers that a copy has got so far, that no exception is pending before *)
(* the texts are given up, and what the transport has been called with.    *)
(***************************************************************************)
EXTENDS JniBridge, SequenceTheorems, TLAPS

\* The references of a copy that has got to its step.
HeldAt ==
    IF bridge = "dex"
    THEN IF step = 1 THEN {}
         ELSE IF step \in {2, 3} THEN {"string_class"}
         ELSE IF step = 4 THEN {"string_class", "utf8"}
         ELSE {"string_class", "utf8", "bytes"}
    ELSE IF step \in {1, 2} THEN {} ELSE {"characters"}

\* The buffers of the texts before this one, and this one's after malloc.
HeapAt ==
    (IF text = "head" THEN {"host"}
     ELSE IF text = "body" THEN {"host", "head"} ELSE {})
    \cup (IF step = (IF bridge = "dex" THEN 7 ELSE 4) THEN {text} ELSE {})

ResourceInv ==
    /\ at = "copy" => held = HeldAt /\ heap = HeapAt
    /\ at \in {"check", "transport"} =>
          held = {} /\ heap = {"host", "head", "body"} /\ text = "body"
    /\ at = "done" => held = {} /\ heap \subseteq {"host", "head", "body"}
    /\ at \in {"launch", "count", "argument", "java", "returned"} =>
          held = {} /\ heap = {}
    /\ at \notin {"done", "returned", "over"} => pending = "no"
    /\ misused = "no"
    /\ globals = IF captured.array = NoArray THEN {} ELSE {captured.ref}

ArgumentInv ==
    /\ bridge = "library" => at \notin {"launch", "count", "argument"}
    /\ bridge = "dex" => at # "java"
    /\ at \notin {"launch", "count", "over"} /\ bridge = "dex" =>
          captured.array # NoArray
    /\ at \in {"launch", "count"} => argv = <<>>
    /\ at = "argument" =>
          /\ Len(argv) <= Len(captured.array) + 1
          /\ \A i \in 1..Len(argv) : argv[i] = ArgumentAt(i - 1)

CallInv ==
    /\ at \notin {"done", "returned", "over"} => calls = <<>>
    /\ at \in {"done", "returned"} =>
          \/ calls = <<>> /\ result \notin TransportCodes
          \/ calls = <<result>> /\ result \in TransportCodes
    /\ at \in {"copy", "check", "transport"} /\ text # "stdout" =>
          result \notin TransportCodes
    /\ at \in {"copy", "check", "transport", "done", "returned"} /\ bridge = "dex" =>
          request = parse_command(captured.array)
    /\ pending = "yes" => calls = <<>>
    /\ bridge = "library" /\ at \notin {"java", "over"} =>
          result \in {-1} \cup TransportCodes

Inv == /\ TypeOK /\ ResourceInv /\ ArgumentInv /\ CallInv
       /\ ArgvIsExact /\ TransportGetsWholeTexts /\ ExitIsHonest

\* What is not a code.
LEMMA NotCodes ==
    /\ 1 \notin TransportCodes /\ 255 \notin TransportCodes
    /\ -1 \notin TransportCodes /\ 0 \in TransportCodes
  BY DEF TransportCodes

\* The table of steps.
LEMMA StepTable ==
    ASSUME TypeOK
    PROVE  /\ bridge = "dex" =>
                 /\ Len(CopySteps) = 7 /\ step \in 1..7
                 /\ step = 1 => Step = "FindClass"
                 /\ step = 2 => Step = "GetMethodID"
                 /\ step = 3 => Step = "NewStringUTF"
                 /\ step = 4 => Step = "CallObjectMethod"
                 /\ step = 5 => Step = "GetArrayLength"
                 /\ step = 6 => Step = "malloc"
                 /\ step = 7 => Step = "GetByteArrayRegion"
           /\ bridge # "dex" =>
                 /\ Len(CopySteps) = 4 /\ step \in 1..4
                 /\ step = 1 => Step = "GetStringLength"
                 /\ step = 2 => Step = "GetStringChars"
                 /\ step = 3 => Step = "malloc"
                 /\ step = 4 => Step = "convert"
  <1>1. bridge = "dex" => Len(CopySteps) = 7
    BY DEF CopySteps
  <1>2. bridge # "dex" => Len(CopySteps) = 4
    BY DEF CopySteps
  <1> QED
    BY <1>1, <1>2 DEF TypeOK, Step, CopySteps

\* The start of the process.
LEMMA InitInv == Init => Inv
  <1> SUFFICES ASSUME Init PROVE Inv
    OBVIOUS
  <1> USE BridgeAssumption, NotCodes
  <1>1. TypeOK
    <2>1. 1 \in 1..Len(CopySteps)
      BY DEF CopySteps
    <2>2. <<>> \in Seq(Words \cup {"icu"}) /\ <<>> \in Seq(TransportCodes)
      OBVIOUS
    <2>3. bridge \in {"dex", "library"} /\ at \in Points
      BY DEF Init, Points
    <2> QED
      BY <2>1, <2>2, <2>3 DEF Init, TypeOK
  <1>2. ResourceInv
    BY DEF Init, ResourceInv
  <1>3. ArgumentInv
    BY DEF Init, ArgumentInv
  <1>4. CallInv
    BY DEF Init, CallInv
  <1>5. ArgvIsExact /\ TransportGetsWholeTexts /\ ExitIsHonest
    BY DEF Init, ArgvIsExact, TransportGetsWholeTexts, ExitIsHonest
  <1> QED
    BY <1>1, <1>2, <1>3, <1>4, <1>5 DEF Inv

\* bridge_abort, before any call of the transport.
LEMMA AbortInv ==
    ASSUME Inv, Abort, calls = <<>>, misused' = misused,
           UNCHANGED <<argvars, request, text, step, calls, result>>,
           held' \subseteq References, heap' \subseteq {"host", "head", "body", "stdout"},
           pending' \in {"yes", "no"}
    PROVE  Inv'
  <1> USE NotCodes DEF Inv, Abort, ExitWith, argvars
  <1>1. TypeOK'
    BY DEF TypeOK, Points, CopySteps
  <1>2. ResourceInv'
    BY DEF ResourceInv
  <1>3. ArgumentInv'
    BY DEF ArgumentInv
  <1>4. CallInv'
    BY DEF CallInv
  <1>5. ArgvIsExact' /\ ExitIsHonest'
    BY DEF ArgvIsExact, ExitIsHonest
  <1>6. TransportGetsWholeTexts'
    BY DEF TransportGetsWholeTexts, parse_command
  <1> QED
    BY <1>1, <1>2, <1>3, <1>4, <1>5, <1>6

\* A new reference to the arguments replaces the old one.
LEMMA CaptureInv ==
    ASSUME Inv, captureArguments
    PROVE  Inv'
  <1> USE BridgeAssumption, NotCodes
  <1>0. /\ at = "launch" /\ calls = <<>> /\ held = {} /\ heap = {}
        /\ pending = "no" /\ argv = <<>>
    BY DEF captureArguments, Inv, CallInv, ResourceInv, ArgumentInv
  <1>1. CASE Abort /\ UNCHANGED <<captures, captured, globals>>
    BY <1>0, <1>1, AbortInv DEF captureArguments, Idle, argvars
  <1>2. CASE \E array \in Arrays :
                /\ captures' = captures + 1
                /\ captured' = [ref |-> captures + 1, array |-> array]
                /\ globals' = (globals \ {captured.ref}) \cup {captures + 1}
                /\ UNCHANGED <<at, exit>>
    <2>1. PICK array \in Arrays :
             /\ captures' = captures + 1
             /\ captured' = [ref |-> captures + 1, array |-> array]
             /\ globals' = (globals \ {captured.ref}) \cup {captures + 1}
             /\ UNCHANGED <<at, exit>>
      BY <1>2
    <2>2. UNCHANGED <<bridge, argv, request, text, step, held, heap, pending,
                      misused, calls, result>>
      BY DEF captureArguments, Idle
    <2>3. /\ captures \in Nat /\ globals \subseteq 1..captures
          /\ globals \ {captured.ref} = {}
      BY DEF Inv, TypeOK, ResourceInv
    <2>4. /\ globals' = {captures + 1} /\ captures' \in Nat
          /\ globals' \subseteq 1..captures'
          /\ captured' \in [ref : 0..captures', array : Arrays \cup {NoArray}]
      BY <2>1, <2>3
    <2>5. TypeOK'
      BY <2>1, <2>2, <2>4 DEF Inv, TypeOK, CopySteps
    <2>6. ResourceInv'
      BY <1>0, <2>1, <2>2, <2>4 DEF Inv, ResourceInv
    <2>7. ArgumentInv'
      BY <1>0, <2>1, <2>2 DEF Inv, ArgumentInv
    <2>8. CallInv' /\ ArgvIsExact' /\ TransportGetsWholeTexts' /\ ExitIsHonest'
      BY <1>0, <2>1, <2>2 DEF Inv, ArgumentInv, TypeOK, CallInv, ArgvIsExact, TransportGetsWholeTexts, ExitIsHonest
    <2> QED
      BY <2>5, <2>6, <2>7, <2>8 DEF Inv
  <1> QED
    BY <1>1, <1>2 DEF captureArguments

\* main asks for its arguments.
LEMMA MainInv ==
    ASSUME Inv, Main \/ idricArgumentCount
    PROVE  Inv'
  <1> USE BridgeAssumption, NotCodes
  <1>0. /\ at \in {"launch", "count"} /\ calls = <<>> /\ held = {} /\ heap = {}
        /\ pending = "no" /\ argv = <<>>
        /\ UNCHANGED <<argvars, request, text, step, held, heap, pending, misused,
                       calls, result>>
    BY DEF Main, idricArgumentCount, Idle, Inv, CallInv, ResourceInv, ArgumentInv
  <1>1. CASE Abort
    <2>1. /\ held' \subseteq References /\ pending' \in {"yes", "no"}
          /\ heap' \subseteq {"host", "head", "body", "stdout"}
      BY <1>0
    <2> QED
      BY <1>0, <1>1, <2>1, AbortInv
  <1>2. CASE /\ exit' = exit
             /\ \/ at' = "count"
                \/ at' = "argument" /\ captured.array # NoArray
    <2>1. TypeOK'
      BY <1>0, <1>2 DEF Inv, TypeOK, Points, argvars, CopySteps
    <2>2. ResourceInv'
      BY <1>0, <1>2 DEF Inv, ResourceInv, argvars
    <2>3. bridge = "dex"
      BY <1>0 DEF Inv, ArgumentInv, TypeOK
    <2>4. captured.array \in Seq(Words) \/ captured.array = NoArray
      BY DEF Inv, TypeOK
    <2>5. captured.array # NoArray => Len(captured.array) \in Nat
      BY <2>4
    <2>6. ArgumentInv'
      BY <1>0, <1>2, <2>3, <2>5 DEF ArgumentInv, argvars
    <2>7. CallInv' /\ ArgvIsExact' /\ TransportGetsWholeTexts' /\ ExitIsHonest'
      BY <1>0, <1>2
         DEF Inv, ArgumentInv, TypeOK, CallInv, ArgvIsExact, TransportGetsWholeTexts, ExitIsHonest, argvars
    <2> QED
      BY <2>1, <2>2, <2>6, <2>7 DEF Inv
  <1> QED
    BY <1>1, <1>2 DEF Main, idricArgumentCount

\* One more argument.
LEMMA ArgumentStepInv ==
    ASSUME Inv, idricArgument
    PROVE  Inv'
  <1> USE BridgeAssumption, NotCodes
  <1>0. /\ at = "argument" /\ calls = <<>> /\ held = {} /\ heap = {}
        /\ pending = "no" /\ bridge = "dex"
        /\ captured.array \in Seq(Words) /\ Len(argv) < Len(captured.array) + 1
        /\ UNCHANGED <<bridge, captures, captured, globals, request, text, step,
                       held, heap, pending, misused, calls, result>>
    BY DEF idricArgument, Idle, Inv, CallInv, ResourceInv, ArgumentInv, TypeOK,
           ArgumentCount
  <1>1. CASE Abort /\ UNCHANGED argv
    BY <1>0, <1>1, AbortInv DEF argvars
  <1>2. CASE argv' = Append(argv, ArgumentAt(Len(argv))) /\ UNCHANGED <<at, exit>>
    <2>1. argv \in Seq(Words \cup {"icu"}) /\ Len(argv) \in Nat
      BY DEF Inv, TypeOK
    <2>2. ArgumentAt(Len(argv)) \in Words \cup {"icu"}
      BY <1>0, <2>1 DEF ArgumentAt
    <2>3. /\ argv' \in Seq(Words \cup {"icu"}) /\ Len(argv') = Len(argv) + 1
          /\ \A i \in 1..Len(argv) : argv'[i] = argv[i]
          /\ argv'[Len(argv) + 1] = ArgumentAt(Len(argv))
      BY <1>2, <2>1, <2>2
    <2>4. \A i \in 1..Len(argv) : argv[i] = ArgumentAt(i - 1)
      BY <1>0 DEF Inv, ArgumentInv
    <2>5. \A i \in 1..Len(argv') : argv'[i] = ArgumentAt(i - 1)
      BY <2>1, <2>3, <2>4
    <2>6. Len(argv') <= Len(captured.array) + 1
      BY <1>0, <2>1, <2>3
    <2>7. TypeOK'
      BY <1>0, <1>2, <2>3 DEF Inv, TypeOK, CopySteps
    <2>8. ResourceInv'
      BY <1>0, <1>2 DEF Inv, ResourceInv
    <2>9. ArgumentInv'
      BY <1>0, <1>2, <2>5, <2>6 DEF Inv, ArgumentInv, ArgumentAt
    <2>10. CallInv' /\ ArgvIsExact' /\ TransportGetsWholeTexts' /\ ExitIsHonest'
      BY <1>0, <1>2 DEF CallInv, ArgvIsExact, TransportGetsWholeTexts, ExitIsHonest
    <2> QED
      BY <2>7, <2>8, <2>9, <2>10 DEF Inv
  <1> QED
    BY <1>1, <1>2 DEF idricArgument

\* When all arguments are there they are argv[0] and the array.
LEMMA ArgvComplete ==
    ASSUME TypeOK, ArgumentInv, at = "argument", Len(argv) = ArgumentCount,
           captured.array \in Seq(Words)
    PROVE  argv = <<"icu">> \o captured.array /\ Tail(argv) = captured.array
  <1> DEFINE a == captured.array
             W == Words \cup {"icu"}
  <1>1. a \in Seq(W) /\ argv \in Seq(W) /\ Len(a) \in Nat /\ Len(argv) = Len(a) + 1
    BY DEF TypeOK, ArgumentCount
  <1>2. \A i \in 1..Len(argv) : argv[i] = ArgumentAt(i - 1)
    BY DEF ArgumentInv
  <1>3. \A i \in 1..Len(argv) : argv[i] = IF i = 1 THEN "icu" ELSE a[i - 1]
    BY <1>1, <1>2 DEF ArgumentAt
  <1> HIDE DEF a
  <1>4. /\ <<"icu">> \o a \in Seq(W) /\ Len(<<"icu">> \o a) = Len(a) + 1
        /\ \A i \in 1..(Len(a) + 1) :
              (<<"icu">> \o a)[i] = IF i = 1 THEN "icu" ELSE a[i - 1]
    BY <1>1
  <1>5. argv = <<"icu">> \o a
    BY <1>1, <1>3, <1>4, SeqEqual
  <1>6. /\ Tail(argv) \in Seq(W) /\ Len(Tail(argv)) = Len(a)
        /\ \A i \in 1..Len(a) : Tail(argv)[i] = a[i]
    BY <1>1, <1>3
  <1>7. Tail(argv) = a
    BY <1>1, <1>6, SeqEqual
  <1> QED
    BY <1>5, <1>7 DEF a

\* A request that parse_command can make.
LEMMA CommandType ==
    ASSUME NEW words
    PROVE  parse_command(words) \in Requests \cup {NoRequest}
  BY BridgeAssumption DEF parse_command

\* run sends the request of the command, or puts out what is wrong with it.
LEMMA RunInv ==
    ASSUME Inv, run
    PROVE  Inv'
  <1> USE BridgeAssumption, NotCodes
  <1>0. /\ at = "argument" /\ calls = <<>> /\ held = {} /\ heap = {}
        /\ pending = "no" /\ bridge = "dex" /\ TypeOK
        /\ captured.array \in Seq(Words) /\ captured.array # NoArray
        /\ UNCHANGED <<bridge, captures, captured, globals, argv,
                       held, heap, pending, misused, calls, exit>>
    BY DEF run, argvars, Inv, CallInv, ResourceInv, ArgumentInv, TypeOK
  <1>1. argv = <<"icu">> \o captured.array /\ Tail(argv) = captured.array
    BY <1>0, ArgvComplete DEF run, Inv
  <1>2. /\ request' = parse_command(captured.array)
        /\ request' \in Requests \cup {NoRequest}
    BY <1>1, CommandType DEF run
  <1>3. \/ /\ at' = "copy" /\ text' = "stdout" /\ step' = 1 /\ result' = result
        \/ at' = "done" /\ result' = 255 /\ UNCHANGED <<text, step>>
        \/ at' = "copy" /\ text' = "host" /\ step' = 1 /\ result' = 255
    BY DEF run, StartCopy
  <1>4. TypeOK'
    <2>1. 1 \in 1..Len(CopySteps)
      BY DEF CopySteps
    <2>2. CopySteps' = CopySteps
      BY <1>0 DEF CopySteps
    <2> QED
      BY <1>0, <1>2, <1>3, <2>1, <2>2 DEF TypeOK, Points
  <1>5. HeldAt' = {} \/ at' # "copy"
    BY <1>0, <1>3 DEF HeldAt
  <1>6. HeapAt' = {} \/ at' # "copy"
    BY <1>0, <1>3 DEF HeapAt
  <1>7. ResourceInv'
    BY <1>0, <1>3, <1>5, <1>6 DEF Inv, ResourceInv
  <1>8. ArgumentInv'
    BY <1>0, <1>3 DEF ArgumentInv
  <1>9. CallInv'
    BY <1>0, <1>2, <1>3 DEF CallInv, parse_command
  <1>10. ArgvIsExact' /\ TransportGetsWholeTexts' /\ ExitIsHonest'
    BY <1>0, <1>1, <1>3 DEF ArgvIsExact, TransportGetsWholeTexts, ExitIsHonest
  <1> QED
    BY <1>4, <1>7, <1>8, <1>9, <1>10 DEF Inv

\* A Java program calls.
LEMMA NativeSendInv ==
    ASSUME Inv, nativeSend
    PROVE  Inv'
  <1> USE BridgeAssumption, NotCodes
  <1>0. /\ at = "java" /\ calls = <<>> /\ held = {} /\ heap = {}
        /\ pending = "no" /\ bridge = "library"
        /\ UNCHANGED <<bridge, captures, captured, globals, argv,
                       held, heap, pending, misused, calls, exit>>
        /\ at' = "copy" /\ text' = "host" /\ step' = 1 /\ result' = -1
        /\ request' \in Requests
    BY DEF nativeSend, StartCopy, argvars, Inv, CallInv, ResourceInv, ArgumentInv,
           TypeOK
  <1>1. TypeOK'
    <2>1. 1 \in 1..Len(CopySteps)
      BY DEF CopySteps
    <2>2. CopySteps' = CopySteps
      BY <1>0 DEF CopySteps
    <2> QED
      BY <1>0, <2>1, <2>2 DEF Inv, TypeOK, Points
  <1>2. HeldAt' = {} /\ HeapAt' = {}
    BY <1>0 DEF HeldAt, HeapAt
  <1>3. ResourceInv'
    BY <1>0, <1>2 DEF Inv, ResourceInv
  <1>4. ArgumentInv' /\ CallInv'
    BY <1>0 DEF ArgumentInv, CallInv
  <1>5. ArgvIsExact' /\ TransportGetsWholeTexts' /\ ExitIsHonest'
    BY <1>0 DEF ArgvIsExact, TransportGetsWholeTexts, ExitIsHonest
  <1> QED
    BY <1>1, <1>3, <1>4, <1>5 DEF Inv

\* While a string is copied.
LEMMA Copying ==
    ASSUME Inv, at = "copy"
    PROVE  /\ TypeOK /\ calls = <<>> /\ pending = "no" /\ misused = "no"
           /\ held = HeldAt /\ heap = HeapAt
           /\ bridge = "dex" =>
                 /\ captured.array # NoArray
                 /\ argv = <<"icu">> \o captured.array
                 /\ request = parse_command(captured.array)
           /\ text # "stdout" => result \notin TransportCodes
  BY DEF Inv, ResourceInv, CallInv, ArgumentInv, ArgvIsExact

\* What does not change while strings are copied and checked.
LEMMA Kept ==
    ASSUME Inv, UNCHANGED <<argvars, request, calls>>, calls = <<>>,
           at \in {"copy", "check", "transport"}, at' \in {"copy", "check", "done", "put"}
    PROVE  /\ ArgumentInv' /\ ArgvIsExact' /\ TransportGetsWholeTexts' /\ ExitIsHonest'
           /\ CopySteps' = CopySteps
           /\ parse_command(captured.array)' = parse_command(captured.array)
  <1>1. ArgumentInv'
    BY DEF Inv, ArgumentInv, argvars
  <1>2. ArgvIsExact'
    BY DEF Inv, ArgvIsExact, argvars
  <1>3. TransportGetsWholeTexts' /\ ExitIsHonest'
    BY DEF TransportGetsWholeTexts, ExitIsHonest
  <1> QED
    BY <1>1, <1>2, <1>3 DEF CopySteps, argvars, parse_command

\* One call of a copy succeeds.
LEMMA CopyStepInv ==
    ASSUME Inv, CopyStep
    PROVE  Inv'
  <1> USE NotCodes
  <1>0. /\ at = "copy" /\ at' = "copy" /\ step' = step + 1
        /\ UNCHANGED <<argvars, request, text, pending, calls, result, exit>>
        /\ held' = held \cup Made(Step)
        /\ heap' = IF Step = "malloc" THEN heap \cup {text} ELSE heap
        /\ bridge' = bridge
    BY DEF CopyStep, argvars
  <1>1. /\ TypeOK /\ calls = <<>> /\ pending = "no" /\ misused = "no"
        /\ held = HeldAt /\ heap = HeapAt
        /\ text # "stdout" => result \notin TransportCodes
        /\ bridge = "dex" => request = parse_command(captured.array)
    BY <1>0, Copying
  <1>2. misused' = "no"
    BY <1>1 DEF CopyStep, Calling
  <1>3. step # Len(CopySteps)
    BY DEF CopyStep, LastStep
  <1>4. held' = HeldAt'
    BY <1>0, <1>1, <1>3, StepTable DEF HeldAt, Made
  <1>5. heap' = HeapAt'
    <2>1. CASE bridge = "dex"
      <3>1. step \in 1..6 /\ (Step = "malloc" <=> step = 6)
        BY <1>1, <1>3, <2>1, StepTable
      <3> QED
        BY <1>0, <1>1, <2>1, <3>1 DEF HeapAt
    <2>2. CASE bridge # "dex"
      <3>1. step \in 1..3 /\ (Step = "malloc" <=> step = 3)
        BY <1>1, <1>3, <2>2, StepTable
      <3> QED
        BY <1>0, <1>1, <2>2, <3>1 DEF HeapAt
    <2> QED
      BY <2>1, <2>2
  <1>6. /\ ArgumentInv' /\ ArgvIsExact' /\ TransportGetsWholeTexts' /\ ExitIsHonest'
        /\ CopySteps' = CopySteps
        /\ parse_command(captured.array)' = parse_command(captured.array)
    BY <1>0, <1>1, Kept
  <1>7. step' \in 1..Len(CopySteps)
    <2>1. CASE bridge = "dex"
      <3>1. step \in 1..7 /\ Len(CopySteps) = 7
        BY <1>1, <2>1, StepTable
      <3> QED
        BY <1>0, <1>3, <3>1
    <2>2. CASE bridge # "dex"
      <3>1. step \in 1..4 /\ Len(CopySteps) = 4
        BY <1>1, <2>2, StepTable
      <3> QED
        BY <1>0, <1>3, <3>1
    <2> QED
      BY <2>1, <2>2
  <1>8. held' \subseteq References /\ heap' \subseteq {"host", "head", "body", "stdout"}
    BY <1>0, <1>1 DEF TypeOK, Made, References
  <1>9. TypeOK'
    BY <1>0, <1>1, <1>2, <1>6, <1>7, <1>8 DEF TypeOK, argvars
  <1>10. ResourceInv'
    BY <1>0, <1>1, <1>2, <1>4, <1>5 DEF Inv, ResourceInv, argvars
  <1>11. CallInv'
    BY <1>0, <1>1, <1>6 DEF Inv, CallInv
  <1> QED
    BY <1>6, <1>9, <1>10, <1>11 DEF Inv

\* A string is copied.
LEMMA CopyEndsInv ==
    ASSUME Inv, CopyEnds
    PROVE  Inv'
  <1> USE NotCodes
  <1>0. /\ at = "copy"
        /\ UNCHANGED <<argvars, request, pending, calls, result, exit>>
        /\ held' = held \ References /\ heap' = heap \cup {text}
        /\ bridge' = bridge
    BY DEF CopyEnds, argvars
  <1>1. /\ TypeOK /\ calls = <<>> /\ pending = "no" /\ misused = "no"
        /\ held = HeldAt /\ heap = HeapAt
        /\ text # "stdout" => result \notin TransportCodes
        /\ bridge = "dex" => request = parse_command(captured.array)
    BY <1>0, Copying
  <1>2. misused' = "no"
    BY <1>1 DEF CopyEnds, Calling
  <1>3. \/ text = "host" /\ text' = "head" /\ step' = 1 /\ at' = "copy"
        \/ text = "head" /\ text' = "body" /\ step' = 1 /\ at' = "copy"
        \/ text = "body" /\ at' = "check" /\ UNCHANGED <<text, step>>
        \/ text = "stdout" /\ at' = "put" /\ UNCHANGED <<text, step>>
    <2>1. CASE text = "host"
      BY <1>0, <2>1 DEF CopyEnds, NextText
    <2>2. CASE text = "head"
      BY <1>0, <2>2 DEF CopyEnds, NextText
    <2>3. CASE text = "body"
      BY <1>0, <2>3 DEF CopyEnds
    <2>4. CASE text = "stdout"
      BY <1>0, <2>4 DEF CopyEnds
    <2> QED
      BY <1>1, <2>1, <2>2, <2>3, <2>4 DEF TypeOK
  <1>4. held' = {} /\ heap' \subseteq {"host", "head", "body", "stdout"}
    BY <1>0, <1>1 DEF TypeOK
  <1>5. /\ ArgumentInv' /\ ArgvIsExact' /\ TransportGetsWholeTexts' /\ ExitIsHonest'
        /\ CopySteps' = CopySteps
        /\ parse_command(captured.array)' = parse_command(captured.array)
    BY <1>0, <1>1, <1>3, Kept
  <1>6. at' = "copy" => HeldAt' = {}
    BY <1>3 DEF HeldAt
  <1>7. at' = "copy" => heap' = HeapAt'
    BY <1>0, <1>1, <1>3 DEF HeapAt
  <1>8. at' = "check" => heap' = {"host", "head", "body"}
    BY <1>0, <1>1, <1>3 DEF HeapAt
  <1>9. TypeOK'
    <2>1. step' \in 1..Len(CopySteps)
      <3>1. 1 \in 1..Len(CopySteps)
        BY DEF CopySteps
      <3> QED
        BY <1>1, <1>3, <3>1 DEF TypeOK
    <2>2. held' \subseteq References
      BY <1>4
    <2> QED
      BY <1>0, <1>1, <1>2, <1>3, <1>4, <1>5, <2>1, <2>2 DEF TypeOK, argvars, Points
  <1>10. ResourceInv'
    BY <1>0, <1>1, <1>2, <1>3, <1>4, <1>6, <1>7, <1>8 DEF Inv, ResourceInv, argvars
  <1>11. CallInv'
    BY <1>0, <1>1, <1>3, <1>5 DEF Inv, CallInv
  <1> QED
    BY <1>5, <1>9, <1>10, <1>11 DEF Inv

\* A call of a copy fails: what it had got is released and the texts are
\* given up.
LEMMA CopyFailsInv ==
    ASSUME Inv, CopyFails
    PROVE  Inv'
  <1> USE NotCodes
  <1>0. /\ at = "copy" /\ Step \notin Infallible
        /\ UNCHANGED <<argvars, request, calls, result>>
        /\ held' = held \ Released(Step) /\ heap' = heap \ {text}
        /\ pending' = IF LeavesException(Step) THEN "yes" ELSE pending
        /\ bridge' = bridge /\ UNCHANGED <<text, step>>
    BY DEF CopyFails, AfterFailure, argvars
  <1>1. /\ TypeOK /\ calls = <<>> /\ pending = "no" /\ misused = "no"
        /\ held = HeldAt /\ heap = HeapAt
        /\ text # "stdout" => result \notin TransportCodes
        /\ bridge = "dex" => request = parse_command(captured.array)
    BY <1>0, Copying
  <1>2. misused' = "no" /\ pending' \in {"yes", "no"}
    BY <1>0, <1>1 DEF CopyFails, Calling
  <1>3. held' = {}
    <2>1. CASE bridge = "dex"
      <3>1. /\ step \in 1..7
            /\ step = 1 => Step = "FindClass"
            /\ step = 2 => Step = "GetMethodID"
            /\ step = 3 => Step = "NewStringUTF"
            /\ step = 4 => Step = "CallObjectMethod"
            /\ step = 5 => Step = "GetArrayLength"
            /\ step = 6 => Step = "malloc"
            /\ step = 7 => Step = "GetByteArrayRegion"
        BY <1>1, <2>1, StepTable
      <3> QED
        BY <1>0, <1>1, <2>1, <3>1 DEF HeldAt, Released
    <2>2. CASE bridge # "dex"
      <3>1. /\ step \in 1..4
            /\ step = 1 => Step = "GetStringLength"
            /\ step = 2 => Step = "GetStringChars"
            /\ step = 3 => Step = "malloc"
            /\ step = 4 => Step = "convert"
        BY <1>1, <2>2, StepTable
      <3> QED
        BY <1>0, <1>1, <2>2, <3>1 DEF HeldAt, Released, Infallible
    <2> QED
      BY <2>1, <2>2
  <1>4. heap' \subseteq {"host", "head", "body"}
    BY <1>0, <1>1 DEF HeapAt, TypeOK
  <1>5. CASE text = "stdout"
    <2>1. Abort
      BY <1>5 DEF CopyFails, AfterFailure
    <2> QED
      BY <1>0, <1>1, <1>2, <1>3, <1>4, <2>1, AbortInv
  <1>6. CASE text # "stdout"
    <2>1. at' = "done" /\ exit' = exit
      BY <1>6 DEF CopyFails, AfterFailure
    <2>2. /\ ArgumentInv' /\ ArgvIsExact' /\ TransportGetsWholeTexts' /\ ExitIsHonest'
          /\ CopySteps' = CopySteps
          /\ parse_command(captured.array)' = parse_command(captured.array)
      BY <1>0, <1>1, <2>1, Kept
    <2>3. TypeOK'
      BY <1>0, <1>1, <1>2, <1>3, <1>4, <2>1, <2>2 DEF TypeOK, argvars, Points
    <2>4. ResourceInv'
      BY <1>0, <1>1, <1>2, <1>3, <1>4, <2>1 DEF Inv, ResourceInv, argvars
    <2>5. CallInv'
      BY <1>0, <1>1, <1>6, <2>1, <2>2 DEF Inv, CallInv
    <2> QED
      BY <2>2, <2>3, <2>4, <2>5 DEF Inv
  <1> QED
    BY <1>5, <1>6

\* A string that is NULL: nothing was got for it, and the texts are given up.
LEMMA NullStringInv ==
    ASSUME Inv, NullString
    PROVE  Inv'
  <1> USE NotCodes
  <1>0. /\ at = "copy" /\ step = 1 /\ bridge' = bridge
        /\ UNCHANGED <<argvars, request, held, heap, pending, misused, calls, result>>
        /\ UNCHANGED <<text, step>>
    BY DEF NullString, AfterFailure, argvars
  <1>1. /\ TypeOK /\ calls = <<>> /\ pending = "no" /\ misused = "no"
        /\ held = HeldAt /\ heap = HeapAt
        /\ text # "stdout" => result \notin TransportCodes
        /\ bridge = "dex" => request = parse_command(captured.array)
    BY <1>0, Copying
  <1>2. held = {} /\ heap \subseteq {"host", "head", "body"}
    BY <1>0, <1>1 DEF HeldAt, HeapAt
  <1>3. CASE text = "stdout"
    <2>1. Abort
      BY <1>3 DEF NullString, AfterFailure
    <2> QED
      BY <1>0, <1>1, <1>2, <2>1, AbortInv
  <1>4. CASE text # "stdout"
    <2>1. at' = "done" /\ exit' = exit
      BY <1>4 DEF NullString, AfterFailure
    <2>2. /\ ArgumentInv' /\ ArgvIsExact' /\ TransportGetsWholeTexts' /\ ExitIsHonest'
          /\ CopySteps' = CopySteps
          /\ parse_command(captured.array)' = parse_command(captured.array)
      BY <1>0, <1>1, <2>1, Kept
    <2>3. TypeOK'
      BY <1>0, <1>1, <1>2, <2>1, <2>2 DEF TypeOK, argvars, Points
    <2>4. ResourceInv'
      BY <1>0, <1>1, <1>2, <2>1 DEF Inv, ResourceInv, argvars
    <2>5. CallInv'
      BY <1>0, <1>1, <1>4, <2>1, <2>2 DEF Inv, CallInv
    <2> QED
      BY <2>2, <2>3, <2>4, <2>5 DEF Inv
  <1> QED
    BY <1>3, <1>4

\* The number of bytes is compared, and the NULs are looked for.
LEMMA CheckInv ==
    ASSUME Inv, Check
    PROVE  Inv'
  <1> USE NotCodes
  <1>0. /\ at = "check" /\ at' \in {"transport", "done"}
        /\ at' = "transport" => Agrees
        /\ UNCHANGED <<argvars, request, text, step, held, heap, pending, misused,
                       calls, result, exit>>
        /\ bridge' = bridge /\ calls = <<>> /\ text = "body" /\ pending = "no"
    BY DEF Check, argvars, Inv, CallInv, ResourceInv
  <1>1. TypeOK'
    BY <1>0 DEF Inv, TypeOK, argvars, Points, CopySteps
  <1>2. ResourceInv'
    BY <1>0 DEF Inv, ResourceInv, argvars
  <1>3. ArgumentInv'
    BY <1>0 DEF Inv, ArgumentInv, argvars
  <1>4. CallInv'
    BY <1>0 DEF Inv, CallInv, argvars, parse_command
  <1>5. ArgvIsExact' /\ ExitIsHonest'
    BY <1>0 DEF Inv, ArgvIsExact, ExitIsHonest, argvars
  <1>6. bridge = "dex" => request = parse_command(captured.array)
    BY <1>0 DEF Inv, CallInv
  <1>7. TransportGetsWholeTexts'
    BY <1>0, <1>6
       DEF Inv, ResourceInv, TransportGetsWholeTexts, PassedLength, Agrees, argvars,
           parse_command
  <1> QED
    BY <1>1, <1>2, <1>3, <1>4, <1>5, <1>7 DEF Inv

\* The transport returns one of its codes.
LEMMA TransportInv ==
    ASSUME Inv, Transport
    PROVE  Inv'
  <1> USE NotCodes
  <1>0. /\ at = "transport" /\ at' = "done" /\ calls = <<>> /\ pending = "no"
        /\ UNCHANGED <<argvars, request, text, step, held, heap, pending, misused, exit>>
        /\ bridge' = bridge /\ result' \in TransportCodes
    BY DEF Transport, argvars, Inv, CallInv, ResourceInv
  <1>1. calls' = <<result'>> /\ calls' \in Seq(TransportCodes) /\ Len(calls') = 1
    BY <1>0 DEF Transport
  <1>2. TypeOK'
    BY <1>0, <1>1 DEF Inv, TypeOK, argvars, Points, CopySteps
  <1>3. ResourceInv'
    BY <1>0 DEF Inv, ResourceInv, argvars
  <1>4. ArgumentInv'
    BY <1>0 DEF Inv, ArgumentInv, argvars
  <1>5. CallInv'
    BY <1>0, <1>1 DEF Inv, CallInv, argvars, parse_command
  <1>6. ArgvIsExact' /\ ExitIsHonest'
    BY <1>0 DEF Inv, ArgvIsExact, ExitIsHonest, argvars
  <1>7. TransportGetsWholeTexts'
    BY <1>0, <1>1 DEF Inv, TransportGetsWholeTexts, argvars, parse_command
  <1> QED
    BY <1>2, <1>3, <1>4, <1>5, <1>6, <1>7 DEF Inv

\* The buffers are freed.
LEMMA DoneInv ==
    ASSUME Inv, Done
    PROVE  Inv'
  <1> USE NotCodes
  <1>0. /\ at = "done" /\ at' = "returned" /\ bridge' = bridge
        /\ UNCHANGED <<argvars, request, text, step, held, pending, misused, calls,
                       result, exit>>
        /\ heap' = {}
    BY DEF Done, argvars, Inv, ResourceInv
  <1>1. TypeOK'
    BY <1>0 DEF Inv, TypeOK, argvars, Points, CopySteps
  <1>2. ResourceInv'
    BY <1>0 DEF Inv, ResourceInv, argvars
  <1>3. ArgumentInv'
    BY <1>0 DEF Inv, ArgumentInv, argvars
  <1>4. CallInv'
    BY <1>0 DEF Inv, CallInv, argvars, parse_command
  <1>5. ArgvIsExact' /\ ExitIsHonest'
    BY <1>0 DEF Inv, ArgvIsExact, ExitIsHonest, argvars
  <1>6. TransportGetsWholeTexts'
    BY <1>0 DEF Inv, TransportGetsWholeTexts, argvars, parse_command
  <1> QED
    BY <1>1, <1>2, <1>3, <1>4, <1>5, <1>6 DEF Inv

\* The process ends after the texts are given up or the transport was called.
LEMMA ExitInv ==
    ASSUME Inv, NEW code \in {-1, 1} \cup TransportCodes, ExitWith(code),
           UNCHANGED <<argvars, request, text, step, held, pending, misused, calls,
                       result>>,
           heap' \subseteq {"host", "head", "body", "stdout"},
           code = 0 <=> calls = << 0 >>
    PROVE  Inv'
  <1> USE DEF ExitWith, argvars
  <1>1. TypeOK'
    BY DEF Inv, TypeOK, Points, CopySteps
  <1>2. ResourceInv'
    BY DEF Inv, ResourceInv
  <1>3. ArgumentInv' /\ CallInv'
    BY DEF Inv, ArgumentInv, CallInv
  <1>4. ArgvIsExact' /\ ExitIsHonest'
    BY DEF ArgvIsExact, ExitIsHonest
  <1>5. TransportGetsWholeTexts'
    BY DEF Inv, TransportGetsWholeTexts, parse_command
  <1> QED
    BY <1>1, <1>2, <1>3, <1>4, <1>5 DEF Inv

\* The result is understood.
LEMMA ReturnedInv ==
    ASSUME Inv, Returned
    PROVE  Inv'
  <1> USE NotCodes
  <1>0. /\ at = "returned" /\ held = {} /\ heap = {}
        /\ UNCHANGED <<argvars, request, held, heap, pending, misused, calls, result>>
        /\ bridge' = bridge
        /\ \/ calls = <<>> /\ result \notin TransportCodes
           \/ calls = <<result>> /\ result \in TransportCodes
    BY DEF Returned, argvars, Inv, ResourceInv, CallInv
  <1>1. CASE pending = "yes" \/ bridge = "library"
    <2> DEFINE code == IF pending = "yes" THEN 1 ELSE result
    <2>1. ExitWith(code) /\ UNCHANGED <<text, step>>
      BY <1>1 DEF Returned
    <2>2. code \in {-1, 1} \cup TransportCodes
      BY <1>0, <1>1 DEF Inv, CallInv
    <2>3. code = 0 <=> calls = << 0 >>
      BY <1>0 DEF Inv, CallInv
    <2>4. heap' \subseteq {"host", "head", "body", "stdout"}
      BY <1>0
    <2> HIDE DEF code
    <2> QED
      BY <1>0, <2>1, <2>2, <2>3, <2>4, ExitInv
  <1>2. CASE ~(pending = "yes" \/ bridge = "library") /\ result \in TransportCodes
    <2>1. understand_transport_result(result) = result /\ result # 1
      BY <1>2 DEF understand_transport_result, KnownCodes
    <2>2. ExitWith(result) /\ UNCHANGED <<text, step>>
      BY <1>2, <2>1 DEF Returned
    <2>3. heap' \subseteq {"host", "head", "body", "stdout"} /\ (result = 0 <=> calls = << 0 >>)
      BY <1>0, <1>2
    <2> QED
      BY <1>0, <1>2, <2>2, <2>3, ExitInv
  <1>3. CASE ~(pending = "yes" \/ bridge = "library") /\ result \notin TransportCodes
    <2>1. understand_transport_result(result) = 1
      BY <1>3 DEF understand_transport_result, KnownCodes
    <2>2. at' = "copy" /\ text' = "stdout" /\ step' = 1 /\ exit' = exit
      BY <1>3, <2>1 DEF Returned, StartCopy
    <2>3. calls = <<>> /\ bridge = "dex" /\ pending = "no"
      BY <1>0, <1>3 DEF Inv, TypeOK
    <2>4. TypeOK'
      <3>1. 1 \in 1..Len(CopySteps) /\ CopySteps' = CopySteps
        BY <1>0 DEF CopySteps
      <3> QED
        BY <1>0, <2>2, <3>1 DEF Inv, TypeOK, Points, argvars
    <2>5. HeldAt' = {} /\ HeapAt' = {}
      BY <1>0, <2>2, <2>3 DEF HeldAt, HeapAt
    <2>6. ResourceInv'
      BY <1>0, <2>2, <2>3, <2>5 DEF Inv, ResourceInv, argvars
    <2>7. ArgumentInv' /\ ArgvIsExact'
      BY <1>0, <2>2, <2>3 DEF Inv, ArgumentInv, ArgvIsExact, argvars
    <2>8. CallInv' /\ TransportGetsWholeTexts' /\ ExitIsHonest'
      BY <1>0, <2>2, <2>3
         DEF Inv, CallInv, TransportGetsWholeTexts, ExitIsHonest, argvars, parse_command
    <2> QED
      BY <2>4, <2>6, <2>7, <2>8 DEF Inv
  <1> QED
    BY <1>1, <1>2, <1>3

\* The message is out.
LEMMA PutStringInv ==
    ASSUME Inv, PutString
    PROVE  Inv'
  <1>1. /\ at = "put" /\ calls = <<>> /\ ExitWith(1)
        /\ UNCHANGED <<argvars, request, text, step, held, pending, misused, calls,
                       result>>
        /\ heap' \subseteq {"host", "head", "body", "stdout"}
    BY DEF PutString, Inv, CallInv, TypeOK
  <1>2. 1 \in {-1, 1} \cup TransportCodes /\ (1 = 0 <=> calls = << 0 >>)
    BY <1>1
  <1> QED
    BY <1>1, <1>2, ExitInv

\* Every step keeps the invariant.
LEMMA NextInv == Inv /\ [Next]_vars => Inv'
  <1> SUFFICES ASSUME Inv, [Next]_vars PROVE Inv'
    OBVIOUS
  <1>1. CASE captureArguments
    BY <1>1, CaptureInv
  <1>2. CASE Main \/ idricArgumentCount
    BY <1>2, MainInv
  <1>3. CASE idricArgument
    BY <1>3, ArgumentStepInv
  <1>4. CASE run
    BY <1>4, RunInv
  <1>5. CASE nativeSend
    BY <1>5, NativeSendInv
  <1>6. CASE CopyStep
    BY <1>6, CopyStepInv
  <1>7. CASE CopyEnds
    BY <1>7, CopyEndsInv
  <1>8. CASE CopyFails \/ NullString
    BY <1>8, CopyFailsInv, NullStringInv
  <1>9. CASE Check
    BY <1>9, CheckInv
  <1>10. CASE Transport
    BY <1>10, TransportInv
  <1>11. CASE Done
    BY <1>11, DoneInv
  <1>12. CASE Returned
    BY <1>12, ReturnedInv
  <1>13. CASE PutString
    BY <1>13, PutStringInv
  <1>14. CASE UNCHANGED vars
    <2> USE <1>14 DEF vars
    <2>1. TypeOK' /\ ResourceInv'
      BY DEF Inv, TypeOK, CopySteps, ResourceInv, HeldAt, HeapAt
    <2>2. ArgumentInv' /\ ArgvIsExact' /\ ExitIsHonest'
      BY DEF Inv, ArgumentInv, ArgumentAt, ArgvIsExact, ExitIsHonest
    <2>3. CallInv' /\ TransportGetsWholeTexts'
      BY DEF Inv, CallInv, TransportGetsWholeTexts, PassedLength, parse_command
    <2> QED
      BY <2>1, <2>2, <2>3 DEF Inv
  <1> QED
    BY <1>1, <1>2, <1>3, <1>4, <1>5, <1>6, <1>7, <1>8, <1>9, <1>10, <1>11,
       <1>12, <1>13, <1>14 DEF Next

\* The invariant holds always.
LEMMA AlwaysInv == Spec => []Inv
  BY InitInv, NextInv, PTL DEF Spec

\* Both bridges keep their types: in particular the exit status is one the
\* native codes or a failure allow.
THEOREM BridgeTypeCorrect == Spec => []TypeOK
  <1>1. Inv => TypeOK
    BY DEF Inv
  <1> QED
    BY <1>1, AlwaysInv, PTL

\* No JNI function is called while an exception is pending.
THEOREM ExceptionsAreRespected == Spec => []NoCallWhilePending
  <1>1. Inv => NoCallWhilePending
    BY DEF Inv, ResourceInv, NoCallWhilePending
  <1> QED
    BY <1>1, AlwaysInv, PTL

\* Java gets control back with no reference, no characters and no buffer left.
THEOREM BridgesLeakNothing == Spec => []NothingLeaks
  <1>1. Inv => NothingLeaks
    BY DEF Inv, ResourceInv, NothingLeaks
  <1> QED
    BY <1>1, AlwaysInv, PTL

\* getArgs gets argv[0] and the Java strings, however many.
THEOREM ArgvIsJavas == Spec => []ArgvIsExact
  <1>1. Inv => ArgvIsExact
    BY DEF Inv
  <1> QED
    BY <1>1, AlwaysInv, PTL

\* Whatever failed before, the transport is called with three whole texts.
THEOREM TextsArriveWhole == Spec => []TransportGetsWholeTexts
  <1>1. Inv => TransportGetsWholeTexts
    BY DEF Inv
  <1> QED
    BY <1>1, AlwaysInv, PTL

\* An exit status of 0 and a transport that said 0 are the same thing.
THEOREM ExitsAreHonest == Spec => []ExitIsHonest
  <1>1. Inv => ExitIsHonest
    BY DEF Inv
  <1> QED
    BY <1>1, AlwaysInv, PTL

=============================================================================
