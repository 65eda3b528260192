------------------------------ MODULE Capture ------------------------------
(***************************************************************************)
(* src/Response.idric: fetch_bytes_response and fetch_response.  A call    *)
(* gets a private directory from mkdtemp, lets the native call write body  *)
(* and metadata there, reads both back, removes what it made and says what *)
(* the response was.  Callers are processes that share /tmp; each may die  *)
(* at any point and start again, and what it left on the disk stays.       *)
(*                                                                         *)
(* A response is its status, its Content-Type (or "none"), the content     *)
(* encoding read_response_head made of it, and whether its bytes are       *)
(* UTF-8.  A body file is named by the call it came from.  The native call *)
(* returns any outcome NativeResult lists.  Values with a carriage return  *)
(* inside are left out: what lines makes of one is up to the library.      *)
(***************************************************************************)
EXTENDS NativeResult

CONSTANTS
    Callers,
    Directories,    \* the names mkdtemp may pick
    Responses,      \* what servers may answer
    Tabbed,         \* the header values that have a tab inside
    Unfit,          \* the Content-Types of 256 bytes or more
    OtherCharset,   \* those with a charset that is neither UTF-8 nor ASCII
    Returned,       \* the native codes that occur
    MaxCalls        \* bound: calls that begin

Answers == [status : Statuses, content_type : STRING,
            content_encoding : STRING, utf8 : {"valid", "invalid"}]

ASSUME CaptureAssumption ==
    /\ Responses \subseteq Answers
    /\ "unknown" \notin Tabbed \cup OtherCharset /\ "none" \notin OtherCharset
    /\ Returned \subseteq Codes
    /\ MaxCalls \in Nat

VARIABLES
    begun,      \* history: calls that have begun
    disk,       \* disk[d]: the files in directory d, or Absent
    abandoned,  \* history: directories whose caller died or failed to remove
    at,         \* at[c]: control point of caller c
    local       \* local[c]: its variables, and what the server really sent

vars == <<begun, disk, abandoned, at, local>>

Points == {"idle", "mkdtemp", "fetch", "read_body", "read_metadata",
           "remove_body", "remove_metadata", "remove_directory", "decode",
           "returned"}

\* Files, as they are on the disk and as they are read.
NoFile == [file |-> "none"]
Torn == [file |-> "torn"]      \* a metadata file that was not finished
ReadError == [file |-> "unreadable"]

\* What call n has got into its body file.
BodyFile(n, extent) == [file |-> "body", call |-> n, extent |-> extent]

BodyFiles == [file : {"body"}, call : Nat, extent : {"part", "whole"}]

MetadataFiles ==
    [file : {"metadata"}, http_status : Statuses,
     content_type : STRING \cup {"unknown"}, content_encoding : STRING,
     utf8 : {"valid", "invalid"}]

Absent == [body |-> ReadError, metadata |-> ReadError]
EmptyDirectory == [body |-> NoFile, metadata |-> NoFile]

DirectoryStates ==
    [body : BodyFiles \cup {NoFile}, metadata : MetadataFiles \cup {NoFile, Torn}]
    \cup {Absent}

CaptureFailures ==
    {"InvalidRequest", "ConnectionFailure", "TLSFailure", "RequestWriteFailure",
     "MalformedResponse", "RedirectFailure", "TruncatedResponse", "Timeout",
     "ResourceLimit", "CaptureIOFailure", "InvalidUTF8", "UnsupportedEncoding",
     "ProxyFailure"}

Failure(kind) == [kind |-> "failure", failure |-> kind]

\* An Either of a CaptureFailure and an HTTPBytesResponse or HTTPResponse.
Values ==
    [kind : {"failure"}, failure : CaptureFailures]
    \cup [kind : {"bytes"}, status : Statuses, body : BodyFiles,
          encoding : STRING, content_type : STRING \cup {"unknown"},
          utf8 : {"valid", "invalid"}]
    \cup [kind : {"text"}, status : Statuses, body : BodyFiles]

NoAnswer == [status |-> 0, content_type |-> "none", content_encoding |-> "none",
             utf8 |-> "invalid"]

NoDirectory == "none"

Locals ==
    [call : Nat, want : {"bytes", "text"},
     directory : Directories \cup {NoDirectory},
     sent : Responses \cup {NoAnswer}, code : Codes \cup {1},
     body : BodyFiles \cup {ReadError},
     metadata : MetadataFiles \cup {Torn, ReadError},
     reads : {"good", "failed"}, value : Values]

Fresh(n, want) ==
    [call |-> n, want |-> want, directory |-> NoDirectory, sent |-> NoAnswer,
     code |-> 1, body |-> ReadError, metadata |-> ReadError, reads |-> "good",
     value |-> Failure("InvalidRequest")]

Init ==
    /\ begun = 0
    /\ disk = [d \in Directories |-> Absent]
    /\ abandoned = {}
    /\ at = [c \in Callers |-> "idle"]
    /\ local = [c \in Callers |-> Fresh(0, "bytes")]

GoTo(c, point) == at' = [at EXCEPT ![c] = point]

Return(c, value) ==
    /\ GoTo(c, "returned")
    /\ local' = [local EXCEPT ![c].value = value]

-----------------------------------------------------------------------------
\* fetch_response (text) or fetch_bytes_response is called; a request that
\* cannot be rendered is InvalidRequest at once.
Begin(c) ==
    /\ at[c] \in {"idle", "returned"} /\ begun < MaxCalls
    /\ begun' = begun + 1
    /\ \E want \in {"bytes", "text"} :
          local' = [local EXCEPT ![c] = Fresh(begun + 1, want)]
    /\ GoTo(c, "mkdtemp") \/ GoTo(c, "returned")
    /\ UNCHANGED <<disk, abandoned>>

\* Mutant: a directory that is there already is used as it is.
FreeDirectoriesAll == Directories

\* mkdtemp creates a directory that was not there.
FreeDirectories == {d \in Directories : disk[d] = Absent}

CreateDirectory(c) ==
    \E d \in FreeDirectories :
        /\ disk' = [disk EXCEPT ![d] = IF @ = Absent THEN EmptyDirectory ELSE @]
        /\ local' = [local EXCEPT ![c].directory = d]
        /\ GoTo(c, "fetch")

\* Mutant: the empty name is not looked at.
icu_response_directory_unchecked(c) ==
    /\ at[c] = "mkdtemp"
    /\ \/ CreateDirectory(c)
       \/ GoTo(c, "fetch") /\ UNCHANGED <<disk, local>>
    /\ UNCHANGED <<begun, abandoned>>

icu_response_directory(c) ==
    /\ at[c] = "mkdtemp"
    /\ \/ CreateDirectory(c)
       \/ Return(c, Failure("CaptureIOFailure")) /\ UNCHANGED disk
    /\ UNCHANGED <<begun, abandoned>>

\* The text write_response_metadata formats; valid_utf8_file may fail to read
\* the body again, which is written down as invalid.
Metadata(sent, utf8) ==
    [file             |-> "metadata",
     http_status      |-> sent.status,
     content_type     |-> IF sent.content_type \in Unfit \cup {"none"}
                          THEN "unknown" ELSE sent.content_type,
     content_encoding |-> sent.content_encoding,
     utf8             |-> utf8]

\* The files of the directory when a native call of c ends with outcome o, of
\* a response that was sent.  Where private_output opened a file and fdopen
\* failed, or the metadata could not be finished, a file is left as well.
FilesAfter(c, o, sent) ==
    {[body |-> b, metadata |-> m] :
        b \in IF o.body = "none"
              THEN {NoFile} \cup IF o.code = 7
                                 THEN {BodyFile(local[c].call, "part")} ELSE {}
              ELSE {BodyFile(local[c].call, o.body)},
        m \in IF o.status # 0
              THEN {Metadata(sent, u) : u \in {sent.utf8, "invalid"} \cup
                        IF o.body = "part" THEN {"valid"} ELSE {}}
              ELSE {NoFile} \cup IF o.body = "none" THEN {} ELSE {Torn}}

OutcomesOf(sent) ==
    {o \in [code : Returned, body : {"none", "part", "whole"},
            status : {0, sent.status}] : o \in CapturePromise}

\* fetch_prepared.  Both files are created with O_EXCL.
fetch_prepared(c) ==
    LET d == local[c].directory
    IN  /\ at[c] = "fetch"
        /\ \E sent \in Responses : \E o \in OutcomesOf(sent) :
              /\ local' = [local EXCEPT ![c].code = o.code,
                     ![c].sent = IF o.status = 0 THEN NoAnswer ELSE sent]
              /\ \/ disk[d] = EmptyDirectory
                    /\ \E files \in FilesAfter(c, o, sent) :
                          disk' = [disk EXCEPT ![d] = files]
                 \/ /\ disk[d] # EmptyDirectory /\ o.body = "none"
                    /\ UNCHANGED disk
        /\ GoTo(c, "read_body")
        /\ UNCHANGED <<begun, abandoned>>

-----------------------------------------------------------------------------
\* Mutant: a length that does not match is let through.
RespondedAnyLength(code) == code \in {0, 9, 10}

\* Mutant: only a success has a body.
RespondedSuccess(code) == code = 0

\* The codes that come with a response.
Responded(code) == code \in {0, 10}

\* What a read of a file may return; failed says it was there all the same.
ReadsOf(file) ==
    {[file |-> ReadError, reads |-> "failed"],
     [file |-> IF file = NoFile THEN ReadError ELSE file, reads |-> "good"]}

createBufferFromFile(c) ==
    /\ at[c] = "read_body"
    /\ IF Responded(local[c].code)
       THEN \E r \in ReadsOf(disk[local[c].directory].body) :
               local' = [local EXCEPT ![c].body = r.file, ![c].reads = r.reads]
       ELSE UNCHANGED local
    /\ GoTo(c, "read_metadata")
    /\ UNCHANGED <<begun, disk, abandoned>>

readFile(c) ==
    /\ at[c] = "read_metadata"
    /\ \E r \in ReadsOf(disk[local[c].directory].metadata) :
          local' = [local EXCEPT
                       ![c].metadata = r.file,
                       ![c].reads = IF r.reads = "failed" THEN "failed" ELSE @]
    /\ GoTo(c, "remove_body")
    /\ UNCHANGED <<begun, disk, abandoned>>

\* removeFile, which leaves the directory with these files unless it fails;
\* that is ignored.
RemoveFile(c, left) ==
    LET d == local[c].directory
    IN  \/ /\ disk' = [disk EXCEPT ![d] = IF @ = Absent THEN Absent ELSE left]
           /\ UNCHANGED abandoned
        \/ /\ disk[d] # left
           /\ abandoned' = abandoned \cup {d}
           /\ UNCHANGED disk

WithoutBody(c) == [disk[local[c].directory] EXCEPT !.body = NoFile]
WithoutMetadata(c) == [disk[local[c].directory] EXCEPT !.metadata = NoFile]

\* Mutant: without a response there is no body to remove.
RemoveBodyIfRead(c) ==
    /\ at[c] = "remove_body"
    /\ IF Responded(local[c].code) THEN RemoveFile(c, WithoutBody(c))
                                   ELSE UNCHANGED <<disk, abandoned>>
    /\ GoTo(c, "remove_metadata")
    /\ UNCHANGED <<begun, local>>

RemoveBody(c) ==
    /\ at[c] = "remove_body"
    /\ RemoveFile(c, WithoutBody(c))
    /\ GoTo(c, "remove_metadata")
    /\ UNCHANGED <<begun, local>>

RemoveMetadata(c) ==
    /\ at[c] = "remove_metadata"
    /\ RemoveFile(c, WithoutMetadata(c))
    /\ GoTo(c, "remove_directory")
    /\ UNCHANGED <<begun, local>>

capture_failure(code) ==
    CASE code \in {2, 3} -> "InvalidRequest"
      [] code = 4        -> "ConnectionFailure"
      [] code = 5        -> "TLSFailure"
      [] code = 6        -> "RequestWriteFailure"
      [] code = 8        -> "RedirectFailure"
      [] code = 9        -> "TruncatedResponse"
      [] code = 11       -> "Timeout"
      [] code = 12       -> "ResourceLimit"
      [] code = 13       -> "MalformedResponse"
      [] code = 14       -> "ProxyFailure"
      [] OTHER           -> "CaptureIOFailure"

\* All four keys are found: a row with a second tab is dropped.
metadata_fields(m) ==
    m # Torn /\ {m.content_type, m.content_encoding} \cap Tabbed = {}

understand_bytes(code, m, bytes) ==
    IF ~Responded(code) THEN Failure(capture_failure(code))
    ELSE IF metadata_fields(m) /\ m.http_status \in Statuses
    THEN [kind |-> "bytes", status |-> m.http_status, body |-> bytes,
          encoding |-> m.content_encoding, content_type |-> m.content_type,
          utf8 |-> m.utf8]
    ELSE Failure("MalformedResponse")

\* What fetch_bytes_response returns.
BytesResult(l) ==
    IF l.body # ReadError /\ l.metadata # ReadError
    THEN understand_bytes(l.code, l.metadata, l.body)
    ELSE IF Responded(l.code) THEN Failure("CaptureIOFailure")
    ELSE Failure(capture_failure(l.code))

\* removeDir, whose failure is ignored, and the value.
RemoveDirectory(c) ==
    LET d == local[c].directory
        v == BytesResult(local[c])
    IN  /\ at[c] = "remove_directory"
        /\ \/ /\ disk[d] = EmptyDirectory
              /\ disk' = [disk EXCEPT ![d] = Absent]
              /\ UNCHANGED abandoned
           \/ /\ disk[d] = EmptyDirectory
              /\ abandoned' = abandoned \cup {d}
              /\ UNCHANGED disk
           \/ /\ disk[d] # EmptyDirectory
              /\ UNCHANGED <<disk, abandoned>>
        /\ local' = [local EXCEPT ![c].value = v]
        /\ UNCHANGED begun
        /\ GoTo(c, IF local[c].want = "text" /\ v.kind = "bytes"
                   THEN "decode" ELSE "returned")

\* Mutant: the bytes are decoded whatever the check found.
response_text_unchecked(v) ==
    IF v.encoding # "identity" \/ v.content_type \in OtherCharset
    THEN Failure("UnsupportedEncoding")
    ELSE [kind |-> "text", status |-> v.status, body |-> v.body]

response_text(v) ==
    IF v.encoding # "identity" \/ v.content_type \in OtherCharset
    THEN Failure("UnsupportedEncoding")
    ELSE IF v.utf8 # "valid" THEN Failure("InvalidUTF8")
    ELSE [kind |-> "text", status |-> v.status, body |-> v.body]

\* The rest of fetch_response.
Decode(c) ==
    /\ at[c] = "decode"
    /\ Return(c, response_text(local[c].value))
    /\ UNCHANGED <<begun, disk, abandoned>>

-----------------------------------------------------------------------------
Holding == {"fetch", "read_body", "read_metadata", "remove_body",
            "remove_metadata", "remove_directory"}

\* Caller c is at work in directory d.
Holds(c, d) == at[c] \in Holding /\ local[c].directory = d

\* The process of c ends; in the native call it may have got anywhere.
Crash(c) ==
    LET d == local[c].directory
    IN  /\ at[c] \notin {"idle", "returned"}
        /\ abandoned' = IF at[c] \in Holding THEN abandoned \cup {d}
                                             ELSE abandoned
        /\ IF at[c] = "fetch" /\ disk[d] = EmptyDirectory
           THEN \E b \in {NoFile} \cup
                         {BodyFile(local[c].call, e) : e \in {"part", "whole"}},
                   m \in {NoFile, Torn} :
                   /\ b = NoFile => m = NoFile
                   /\ disk' = [disk EXCEPT ![d] = [body |-> b, metadata |-> m]]
           ELSE UNCHANGED disk
        /\ GoTo(c, "idle")
        /\ local' = [local EXCEPT ![c] = Fresh(0, "bytes")]
        /\ UNCHANGED begun

Next == \E c \in Callers :
           \/ Begin(c) \/ icu_response_directory(c) \/ fetch_prepared(c)
           \/ createBufferFromFile(c) \/ readFile(c)
           \/ RemoveBody(c) \/ RemoveMetadata(c) \/ RemoveDirectory(c)
           \/ Decode(c) \/ Crash(c)

Spec == Init /\ [][Next]_vars

-----------------------------------------------------------------------------
TypeOK ==
    /\ begun \in Nat
    /\ disk \in [Directories -> DirectoryStates]
    /\ abandoned \subseteq Directories
    /\ at \in [Callers -> Points]
    /\ local \in [Callers -> Locals]
    /\ \A c \in Callers : at[c] \in Holding => local[c].directory \in Directories

\* docs/response-capture.md: "Both files and the directory are removed before
\* returning a response/failure."  Whatever the native call left and whichever
\* read failed, a directory is on the disk only while a call is at work in it,
\* or after its caller died or a removal itself failed.
NothingLeftBehind ==
    \A d \in Directories :
        disk[d] # Absent => d \in abandoned \/ \E c \in Callers : Holds(c, d)

\* A response that is returned is that of this very call, whole and with the
\* status the server sent: not a body of the wrong length, not one that
\* another caller or an earlier, dead call left in a directory of that name.
ResponseIsOwn ==
    \A c \in Callers :
        at[c] = "returned" /\ local[c].value.kind \in {"bytes", "text"} =>
            /\ local[c].value.body = BodyFile(local[c].call, "whole")
            /\ local[c].value.status = local[c].sent.status
            /\ local[c].code = IF local[c].sent.status \in Successes
                               THEN 0 ELSE 10

\* A response the native call got is not lost on the way back, unless a file
\* could not be read or a header value with a tab made its row unreadable;
\* ResultRetainsHead is about that exception.
ResponseIsNotLost ==
    \A c \in Callers :
        at[c] = "returned" /\ local[c].code \in {0, 10} =>
            \/ local[c].value.kind # "failure"
            \/ local[c].value.failure \in {"UnsupportedEncoding", "InvalidUTF8"}
            \/ local[c].reads = "failed"
            \/ {local[c].sent.content_type, local[c].sent.content_encoding}
                  \cap Tabbed # {}

\* docs/response-capture.md: "response_text rejects unsupported content
\* encodings and charsets before decoding."  A text is made only of UTF-8
\* bytes in no encoding, and in no other charset the metadata could carry;
\* ResultRetainsHead is about the ones it could not.
TextIsDecodable ==
    \A c \in Callers :
        at[c] = "returned" /\ local[c].value.kind = "text" =>
            /\ local[c].sent.utf8 = "valid"
            /\ local[c].sent.content_encoding = "identity"
            /\ local[c].sent.content_type \notin OtherCharset \ Unfit

\* docs/response-capture.md: the result of fetch_bytes_response "retains a
\* Buffer, HTTP status, content encoding, content type and UTF-8 validation
\* independently."  A response the native call captured, and whose files could
\* be read, would come back with what the server said of it: neither without the
\* charset of a long Content-Type nor lost over a tab in one.
ResultRetainsHead ==
    \A c \in Callers :
        /\ at[c] = "returned" /\ local[c].want = "bytes"
        /\ local[c].code \in {0, 10} /\ local[c].reads = "good"
        => /\ local[c].value.kind = "bytes"
           /\ local[c].value.status = local[c].sent.status
           /\ local[c].value.encoding = local[c].sent.content_encoding
           /\ local[c].value.content_type =
                 IF local[c].sent.content_type = "none" THEN "unknown"
                 ELSE local[c].sent.content_type

\* What a dead caller left is nobody's: no later call reads a response from
\* it, writes into it or removes it.
LeftoversStay ==
    [][\A d \in abandoned :
          (\A c \in Callers : ~Holds(c, d)) =>
              disk'[d] = disk[d] /\ \A c \in Callers : ~Holds(c, d)']_vars

=============================================================================
