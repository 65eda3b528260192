--------------------------- MODULE CaptureProofs ---------------------------
(***************************************************************************)
(* Capture's invariants, for any number of callers, calls and directories  *)
(* and any answers.                                                        *)
(***************************************************************************)
EXTENDS Capture, TLAPS

\* A directory that a call is at work in is its own and is on the disk.
Exclusive ==
    /\ \A c, e \in Callers : \A d \in Directories :
          Holds(c, d) /\ Holds(e, d) => c = e
    /\ \A c \in Callers : \A d \in Directories : Holds(c, d) => disk[d] # Absent

\* A directory given up is still there; a caller that works on in it has left
\* a file that it could not remove.
GivenUp ==
    \A d \in abandoned :
        /\ disk[d] # Absent
        /\ \A c \in Callers : Holds(c, d) =>
              \/ at[c] = "remove_metadata" /\ disk[d].body # NoFile
              \/ at[c] = "remove_directory" /\ disk[d] # EmptyDirectory

\* The answer of a call that has one.
Answered(l) ==
    /\ l.sent \in Responses
    /\ l.code = IF l.sent.status \in Successes THEN 0 ELSE 10

MetadataOf(l) == {Metadata(l.sent, u) : u \in {l.sent.utf8, "invalid"}}

\* What is read of the body and of the metadata.
BodyRead(l) ==
    l.code \in {0, 10} =>
        \/ l.body = BodyFile(l.call, "whole")
        \/ l.body = ReadError /\ l.reads = "failed"

MetadataRead(l) ==
    l.code \in {0, 10} =>
        \/ l.metadata \in MetadataOf(l)
        \/ l.metadata = ReadError /\ l.reads = "failed"

AfterMetadata == {"remove_body", "remove_metadata", "remove_directory"}

\* How a call goes on: what its files are until it has read them, what it has
\* read, and what it has removed.
AnswerInv(c) ==
    LET l == local[c]
    IN  /\ at[c] = "remove_metadata" /\ disk[l.directory].body # NoFile =>
              l.directory \in abandoned
        /\ at[c] = "remove_directory" /\ disk[l.directory] # EmptyDirectory =>
              l.directory \in abandoned
        /\ at[c] = "fetch" => disk[l.directory] = EmptyDirectory
        /\ at[c] \in {"mkdtemp", "fetch"} => l.code = 1 /\ l.body = ReadError
        /\ at[c] \notin {"idle", "mkdtemp", "fetch"} /\ l.code \in {0, 10} =>
              Answered(l)
        /\ at[c] \in Holding /\ l.code \notin {0, 10} => l.body = ReadError
        /\ at[c] = "read_body" /\ l.code \in {0, 10} =>
              disk[l.directory].body = BodyFile(l.call, "whole")
        /\ at[c] \in {"read_body", "read_metadata"} /\ l.code \in {0, 10} =>
              disk[l.directory].metadata \in MetadataOf(l)
        /\ at[c] \in {"read_metadata"} \cup AfterMetadata => BodyRead(l)
        /\ at[c] \in AfterMetadata => MetadataRead(l)

\* What has been made of an answer.
ValueInv(c) ==
    LET l == local[c]
        v == local[c].value
    IN  /\ at[c] \in {"decode", "returned"} /\ v.kind \in {"bytes", "text"} =>
              /\ l.code \in {0, 10}
              /\ v.body = BodyFile(l.call, "whole") /\ v.status = l.sent.status
        /\ at[c] = "decode" =>
              /\ v.kind = "bytes"
              /\ v.encoding = l.sent.content_encoding
              /\ v.content_type = Metadata(l.sent, "valid").content_type
              /\ v.utf8 = "valid" => l.sent.utf8 = "valid"
        /\ at[c] = "returned" /\ v.kind = "text" =>
              /\ l.sent.utf8 = "valid" /\ l.sent.content_encoding = "identity"
              /\ l.sent.content_type \notin OtherCharset \ Unfit
        /\ at[c] = "returned" /\ l.code \in {0, 10} /\ v.kind = "failure" =>
              \/ v.failure \in {"UnsupportedEncoding", "InvalidUTF8"}
              \/ l.reads = "failed"
              \/ {l.sent.content_type, l.sent.content_encoding} \cap Tabbed # {}

Inv == /\ TypeOK /\ Exclusive /\ GivenUp /\ NothingLeftBehind
       /\ \A c \in Callers : AnswerInv(c) /\ ValueInv(c)

-----------------------------------------------------------------------------
\* A step of caller c leaves the others and the directories they hold alone.
Only(c) ==
    /\ abandoned \subseteq abandoned'
    /\ \A e \in Callers \ {c} :
          /\ at'[e] = at[e] /\ local'[e] = local[e]
          /\ \A d \in Directories : Holds(e, d) => disk'[d] = disk[d]

\* The three invariants about the disk.
DiskInv == Exclusive /\ GivenUp /\ NothingLeftBehind

\* The variables of a call that begins.
LEMMA FreshType ==
    ASSUME NEW n \in Nat, NEW want \in {"bytes", "text"}
    PROVE  Fresh(n, want) \in Locals
  BY DEF Fresh, Locals, NoDirectory, NoAnswer, ReadError, Values, Failure,
         CaptureFailures

\* At the start nobody calls and no directory is there.
LEMMA InitInv == Init => Inv
  <1> SUFFICES ASSUME Init PROVE Inv
    OBVIOUS
  <1> USE CaptureAssumption
  <1>1. Fresh(0, "bytes") \in Locals
    BY FreshType
  <1>2. TypeOK
    BY <1>1 DEF Init, TypeOK, DirectoryStates, Points, Holding
  <1>3. DiskInv
    BY DEF Init, DiskInv, Exclusive, GivenUp, NothingLeftBehind, Holds, Holding
  <1>4. \A c \in Callers : AnswerInv(c) /\ ValueInv(c)
    BY DEF Init, AnswerInv, ValueInv, Holding, AfterMetadata
  <1> QED
    BY <1>2, <1>3, <1>4 DEF Inv, DiskInv

\* What holds of the other callers goes on to hold.
LEMMA OthersInv ==
    ASSUME Inv, NEW c \in Callers, Only(c),
           TypeOK', DiskInv', AnswerInv(c)', ValueInv(c)'
    PROVE  Inv'
  <1>1. ASSUME NEW e \in Callers \ {c}
        PROVE  AnswerInv(e)' /\ ValueInv(e)'
    <2>1. at'[e] = at[e] /\ local'[e] = local[e]
      BY DEF Only
    <2>2. at[e] \in Holding =>
             disk'[local[e].directory] = disk[local[e].directory]
      BY DEF Only, Holds, Inv, TypeOK
    <2>3. AnswerInv(e) /\ ValueInv(e)
      BY DEF Inv
    <2>4. AnswerInv(e)'
      BY <2>1, <2>2, <2>3
         DEF AnswerInv, Only, Holding, AfterMetadata, BodyRead, MetadataRead,
             MetadataOf, Answered
    <2>5. ValueInv(e)'
      BY <2>1, <2>3 DEF ValueInv
    <2> QED
      BY <2>4, <2>5
  <1> QED
    BY <1>1 DEF Inv, DiskInv

\* A step that changes nothing on the disk and after which its caller holds
\* what it held; it was not removing anything.
LEMMA DiskKept ==
    ASSUME Inv, NEW c \in Callers, TypeOK',
           UNCHANGED <<disk, abandoned>>,
           \A e \in Callers \ {c} : at'[e] = at[e] /\ local'[e] = local[e],
           local'[c].directory = local[c].directory \/ at'[c] \notin Holding,
           at'[c] \in Holding <=> at[c] \in Holding,
           at[c] \notin {"remove_metadata", "remove_directory"}
    PROVE  DiskInv' /\ Only(c)
  <1>1. \A e \in Callers : \A d \in Directories : Holds(e, d)' <=> Holds(e, d)
    BY DEF Holds
  <1>2. Exclusive'
    BY <1>1 DEF Exclusive, Inv
  <1>3. GivenUp'
    BY <1>1 DEF GivenUp, Inv, Holds, Holding
  <1>4. NothingLeftBehind'
    BY <1>1 DEF NothingLeftBehind, Inv
  <1>5. Only(c)
    BY DEF Only
  <1> QED
    BY <1>2, <1>3, <1>4, <1>5 DEF DiskInv

\* The control point moves for one caller alone.
LEMMA Moves ==
    ASSUME TypeOK, NEW c \in Callers, NEW point \in Points, GoTo(c, point)
    PROVE  /\ at' \in [Callers -> Points] /\ at'[c] = point
           /\ \A e \in Callers \ {c} : at'[e] = at[e]
  BY DEF TypeOK, GoTo

\* A value is returned.
LEMMA Returns ==
    ASSUME TypeOK, NEW c \in Callers, NEW v \in Values, Return(c, v),
           begun' = begun, UNCHANGED <<disk, abandoned>>
    PROVE  /\ TypeOK' /\ at'[c] = "returned"
           /\ local'[c] = [local[c] EXCEPT !.value = v]
           /\ \A e \in Callers \ {c} : at'[e] = at[e] /\ local'[e] = local[e]
  <1>1. local[c] \in Locals
    BY DEF TypeOK
  <1>2. [local[c] EXCEPT !.value = v] \in Locals
    BY <1>1 DEF Locals
  <1>3. /\ local' \in [Callers -> Locals]
        /\ local'[c] = [local[c] EXCEPT !.value = v]
        /\ \A e \in Callers \ {c} : local'[e] = local[e]
    BY <1>2 DEF TypeOK, Return
  <1>4. /\ at' \in [Callers -> Points] /\ at'[c] = "returned"
        /\ \A e \in Callers \ {c} : at'[e] = at[e]
    BY Moves DEF Return, Points
  <1> QED
    BY <1>3, <1>4 DEF TypeOK, Holding

\* A call begins.
LEMMA BeginInv ==
    ASSUME Inv, NEW c \in Callers, Begin(c)
    PROVE  Inv'
  <1> USE CaptureAssumption
  <1>1. PICK want \in {"bytes", "text"} :
           local' = [local EXCEPT ![c] = Fresh(begun + 1, want)]
    BY DEF Begin
  <1>2. Fresh(begun + 1, want) \in Locals
    <2>1. begun + 1 \in Nat
      BY DEF Inv, TypeOK
    <2> QED
      BY <2>1, FreshType
  <1>3. /\ local' \in [Callers -> Locals] /\ local'[c] = Fresh(begun + 1, want)
        /\ \A e \in Callers \ {c} : local'[e] = local[e]
    BY <1>1, <1>2 DEF Inv, TypeOK
  <1>4. /\ at' \in [Callers -> Points] /\ at'[c] \in {"mkdtemp", "returned"}
        /\ \A e \in Callers \ {c} : at'[e] = at[e]
    BY Moves DEF Begin, Points, Inv
  <1>5. TypeOK'
    BY <1>3, <1>4 DEF Begin, Inv, TypeOK, Holding
  <1>6. DiskInv' /\ Only(c)
    BY <1>3, <1>4, <1>5, DiskKept DEF Begin, Holding
  <1>7. AnswerInv(c)' /\ ValueInv(c)'
    BY <1>3, <1>4
       DEF AnswerInv, ValueInv, Fresh, Failure, Holding, AfterMetadata
  <1> QED
    BY <1>5, <1>6, <1>7, OthersInv

\* mkdtemp creates a directory or fails.
LEMMA DirectoryInv ==
    ASSUME Inv, NEW c \in Callers, icu_response_directory(c)
    PROVE  Inv'
  <1> USE CaptureAssumption
  <1>a. /\ at[c] = "mkdtemp" /\ TypeOK /\ local[c] \in Locals
        /\ local[c].code = 1 /\ local[c].body = ReadError
    BY DEF icu_response_directory, Inv, TypeOK, AnswerInv
  <1>1. CASE Return(c, Failure("CaptureIOFailure")) /\ UNCHANGED disk
    <2>1. Failure("CaptureIOFailure") \in Values
      BY DEF Failure, Values, CaptureFailures
    <2>2. /\ TypeOK' /\ at'[c] = "returned"
          /\ local'[c] = [local[c] EXCEPT !.value = Failure("CaptureIOFailure")]
          /\ \A e \in Callers \ {c} : at'[e] = at[e] /\ local'[e] = local[e]
      BY <1>1, <1>a, <2>1, Returns DEF icu_response_directory
    <2>3. /\ local'[c].code = 1 /\ local'[c].body = ReadError
          /\ local'[c].value = [kind |-> "failure", failure |-> "CaptureIOFailure"]
          /\ local'[c].directory = local[c].directory
      BY <2>2, <1>a DEF Locals, Failure
    <2>4. DiskInv' /\ Only(c)
      BY <1>1, <1>a, <2>2, <2>3, DiskKept DEF icu_response_directory, Holding
    <2>5. AnswerInv(c)' /\ ValueInv(c)'
      BY <2>2, <2>3 DEF AnswerInv, ValueInv, Holding, AfterMetadata
    <2> QED
      BY <2>2, <2>4, <2>5, OthersInv
  <1>2. CASE CreateDirectory(c)
    <2>1. PICK d \in FreeDirectories :
             /\ disk' = [disk EXCEPT ![d] = IF @ = Absent THEN EmptyDirectory ELSE @]
             /\ local' = [local EXCEPT ![c].directory = d]
             /\ GoTo(c, "fetch")
      BY <1>2 DEF CreateDirectory
    <2>2. /\ d \in Directories /\ disk[d] = Absent /\ disk'[d] = EmptyDirectory
          /\ \A x \in Directories \ {d} : disk'[x] = disk[x]
      BY <2>1, <1>a DEF FreeDirectories, TypeOK
    <2>3. [local[c] EXCEPT !.directory = d] \in Locals
      BY <1>a, <2>2 DEF Locals
    <2>4. /\ local' \in [Callers -> Locals]
          /\ local'[c] = [local[c] EXCEPT !.directory = d]
          /\ \A e \in Callers \ {c} : local'[e] = local[e]
      BY <2>1, <2>3, <1>a DEF TypeOK
    <2>5. /\ at' \in [Callers -> Points] /\ at'[c] = "fetch"
          /\ \A e \in Callers \ {c} : at'[e] = at[e]
      BY <2>1, <1>a, Moves DEF Points
    <2>6. EmptyDirectory # Absent /\ EmptyDirectory \in DirectoryStates
      BY DEF EmptyDirectory, Absent, DirectoryStates, NoFile, ReadError
    <2>7. /\ local'[c].directory = d /\ local'[c].code = 1
          /\ local'[c].body = ReadError
      BY <2>4, <1>a DEF Locals
    <2>8. TypeOK'
      BY <2>1, <2>2, <2>4, <2>5, <2>6, <2>7, <1>a
         DEF TypeOK, icu_response_directory
    <2>9. /\ \A e \in Callers \ {c} : \A x \in Directories :
                Holds(e, x)' <=> Holds(e, x)
          /\ \A x \in Directories : Holds(c, x)' <=> x = d
          /\ \A x \in Directories : ~Holds(c, x)
          /\ \A e \in Callers : ~Holds(e, d)
          /\ d \notin abandoned /\ abandoned' = abandoned
      BY <2>2, <2>4, <2>5, <2>7, <1>a
         DEF Holds, Holding, Inv, Exclusive, GivenUp, icu_response_directory
    <2>10. Exclusive'
      BY <2>2, <2>6, <2>9 DEF Exclusive, Inv
    <2>11. GivenUp'
      BY <2>2, <2>5, <2>9, <1>a DEF GivenUp, Inv, TypeOK
    <2>12. NothingLeftBehind'
      BY <2>2, <2>9 DEF NothingLeftBehind, Inv
    <2>13. Only(c)
      BY <2>2, <2>4, <2>5, <2>9 DEF Only
    <2>14. AnswerInv(c)' /\ ValueInv(c)'
      BY <2>2, <2>5, <2>7 DEF AnswerInv, ValueInv, Holding, AfterMetadata
    <2> QED
      BY <2>8, <2>10, <2>11, <2>12, <2>13, <2>14, OthersInv DEF DiskInv
  <1> QED
    BY <1>1, <1>2 DEF icu_response_directory

\* A finished metadata file.
LEMMA MetadataType ==
    ASSUME NEW sent \in Responses, NEW u \in {"valid", "invalid"}
    PROVE  /\ Metadata(sent, u) \in MetadataFiles
           /\ Metadata(sent, u) \notin {NoFile, Torn, ReadError}
  <1>1. sent \in Answers
    BY CaptureAssumption
  <1> QED
    BY <1>1 DEF Answers, Metadata, MetadataFiles, NoFile, Torn, ReadError

\* What the native call leaves are files of a directory that is there, and
\* what it leaves when there is a response is all of it.
LEMMA FilesAfterType ==
    ASSUME TypeOK, NEW c \in Callers, NEW sent \in Responses,
           NEW o \in OutcomesOf(sent), NEW files \in FilesAfter(c, o, sent)
    PROVE  /\ files \in DirectoryStates /\ files # Absent
           /\ o.code \in Codes
           /\ o.code \in {0, 10} =>
                 /\ o.status = sent.status
                 /\ o.code = IF sent.status \in Successes THEN 0 ELSE 10
                 /\ o.status # 0
                 /\ files.body = BodyFile(local[c].call, "whole")
                 /\ files.metadata \in {Metadata(sent, u) : u \in {sent.utf8, "invalid"}}
  <1> USE CaptureAssumption
  <1>1. sent \in Answers /\ sent.status \in Statuses /\ sent.status # 0
    BY DEF Answers, Statuses
  <1>2. /\ o \in [code : Returned, body : {"none", "part", "whole"},
                  status : {0, sent.status}]
        /\ o \in CapturePromise
    BY DEF OutcomesOf
  <1>3. o.code \in {0, 10} =>
           /\ o.body = "whole" /\ o.status # 0
           /\ o.code = IF o.status \in Successes THEN 0 ELSE 10
    BY <1>2 DEF CapturePromise, NoResponse, Interrupted, Statuses, Successes
  <1>4. PICK b, m :
           /\ files = [body |-> b, metadata |-> m]
           /\ b \in IF o.body = "none"
              THEN {NoFile} \cup IF o.code = 7
                                 THEN {BodyFile(local[c].call, "part")} ELSE {}
              ELSE {BodyFile(local[c].call, o.body)}
           /\ m \in IF o.status # 0
              THEN {Metadata(sent, u) : u \in {sent.utf8, "invalid"} \cup
                        IF o.body = "part" THEN {"valid"} ELSE {}}
              ELSE {NoFile} \cup IF o.body = "none" THEN {} ELSE {Torn}
    BY DEF FilesAfter
  <1>5. local[c].call \in Nat
    BY DEF TypeOK, Locals
  <1>6. b \in BodyFiles \cup {NoFile}
    BY <1>2, <1>4, <1>5 DEF BodyFile, BodyFiles
  <1>7. m \in MetadataFiles \cup {NoFile, Torn}
    BY <1>1, <1>4, MetadataType DEF Answers
  <1>8. files \in DirectoryStates
    BY <1>4, <1>6, <1>7 DEF DirectoryStates
  <1>9. files # Absent
    BY <1>4, <1>6 DEF Absent, BodyFiles, NoFile, ReadError
  <1> QED
    BY <1>2, <1>3, <1>4, <1>8, <1>9

\* The directory of a call that is at work in it takes on new contents.
LEMMA ContentsChange ==
    ASSUME Inv, NEW c \in Callers, TypeOK',
           at[c] \in Holding, at'[c] \in Holding,
           local'[c].directory = local[c].directory,
           \A e \in Callers \ {c} : at'[e] = at[e] /\ local'[e] = local[e],
           \A d \in Directories \ {local[c].directory} : disk'[d] = disk[d],
           disk'[local[c].directory] # Absent,
           abandoned' \in {abandoned, abandoned \cup {local[c].directory}},
           local[c].directory \in abandoned' =>
              \/ /\ at'[c] = "remove_metadata"
                 /\ disk'[local[c].directory].body # NoFile
              \/ /\ at'[c] = "remove_directory"
                 /\ disk'[local[c].directory] # EmptyDirectory
    PROVE  DiskInv' /\ Only(c)
  <1>0. PICK d \in Directories : d = local[c].directory
    BY DEF Inv, TypeOK
  <1>1. Holds(c, d)
    BY <1>0 DEF Holds
  <1>2. /\ \A e \in Callers : \A x \in Directories : Holds(e, x)' <=> Holds(e, x)
        /\ \A e \in Callers : Holds(e, d) => e = c
    BY <1>0, <1>1 DEF Holds, Inv, Exclusive
  <1>3. Exclusive'
    BY <1>0, <1>2 DEF Exclusive, Inv
  <1>4. GivenUp'
    <2>1. ASSUME NEW x \in abandoned', x # d
          PROVE  /\ disk'[x] # Absent
                 /\ \A e \in Callers : Holds(e, x)' =>
                       \/ at'[e] = "remove_metadata" /\ disk'[x].body # NoFile
                       \/ at'[e] = "remove_directory" /\ disk'[x] # EmptyDirectory
      <3>1. x \in abandoned /\ x \in Directories /\ disk'[x] = disk[x]
        BY <2>1, <1>0 DEF Inv, TypeOK
      <3>2. ~Holds(c, x)
        BY <2>1, <1>0 DEF Holds
      <3> QED
        BY <3>1, <3>2, <1>2 DEF Inv, GivenUp
    <2>2. ASSUME d \in abandoned'
          PROVE  /\ disk'[d] # Absent
                 /\ \A e \in Callers : Holds(e, d)' =>
                       \/ at'[e] = "remove_metadata" /\ disk'[d].body # NoFile
                       \/ at'[e] = "remove_directory" /\ disk'[d] # EmptyDirectory
      BY <2>2, <1>0, <1>1, <1>2
    <2> QED
      BY <2>1, <2>2 DEF GivenUp
  <1>5. NothingLeftBehind'
    BY <1>0, <1>1, <1>2 DEF NothingLeftBehind, Inv
  <1>6. Only(c)
    BY <1>0, <1>1, <1>2 DEF Only
  <1> QED
    BY <1>3, <1>4, <1>5, <1>6 DEF DiskInv

\* The native call has written what it wrote.
LEMMA FetchInv ==
    ASSUME Inv, NEW c \in Callers, fetch_prepared(c)
    PROVE  Inv'
  <1> USE CaptureAssumption
  <1>0. PICK d \in Directories : d = local[c].directory
    BY DEF Inv, TypeOK, fetch_prepared, Holding
  <1>1. /\ at[c] = "fetch" /\ TypeOK /\ local[c] \in Locals
        /\ disk[d] = EmptyDirectory /\ local[c].body = ReadError
        /\ d \notin abandoned
    BY <1>0 DEF fetch_prepared, Inv, TypeOK, AnswerInv, GivenUp, Holds, Holding
  <1>a. PICK sent \in Responses : \E o \in OutcomesOf(sent) :
           /\ local' = [local EXCEPT ![c].code = o.code,
                  ![c].sent = IF o.status = 0 THEN NoAnswer ELSE sent]
           /\ \E files \in FilesAfter(c, o, sent) :
                 disk' = [disk EXCEPT ![d] = files]
    BY <1>0, <1>1 DEF fetch_prepared
  <1>2. PICK o \in OutcomesOf(sent) :
           /\ local' = [local EXCEPT ![c].code = o.code,
                  ![c].sent = IF o.status = 0 THEN NoAnswer ELSE sent]
           /\ \E files \in FilesAfter(c, o, sent) :
                 disk' = [disk EXCEPT ![d] = files]
    BY <1>a
  <1>3. PICK files \in FilesAfter(c, o, sent) : disk' = [disk EXCEPT ![d] = files]
    BY <1>2
  <1>4. /\ files \in DirectoryStates /\ files # Absent
        /\ o.code \in Codes
        /\ o.code \in {0, 10} =>
              /\ o.code = IF sent.status \in Successes THEN 0 ELSE 10
              /\ o.status # 0
              /\ files.body = BodyFile(local[c].call, "whole")
              /\ files.metadata \in {Metadata(sent, u) : u \in {sent.utf8, "invalid"}}
    BY <1>1, FilesAfterType
  <1>5. /\ disk' \in [Directories -> DirectoryStates] /\ disk'[d] = files
        /\ \A x \in Directories \ {d} : disk'[x] = disk[x]
    BY <1>1, <1>3, <1>4 DEF TypeOK
  <1> DEFINE s == IF o.status = 0 THEN NoAnswer ELSE sent
  <1>6. [local[c] EXCEPT !.code = o.code, !.sent = s] \in Locals
    BY <1>1, <1>4 DEF Locals
  <1>7. /\ local' \in [Callers -> Locals]
        /\ local'[c] = [local[c] EXCEPT !.code = o.code, !.sent = s]
        /\ \A e \in Callers \ {c} : local'[e] = local[e]
    BY <1>1, <1>2, <1>6 DEF TypeOK
  <1>8. /\ at' \in [Callers -> Points] /\ at'[c] = "read_body"
        /\ \A e \in Callers \ {c} : at'[e] = at[e]
    BY <1>1, Moves DEF fetch_prepared, Points
  <1>9. /\ local'[c].directory = d /\ local'[c].body = ReadError
        /\ local'[c].code = o.code /\ local'[c].call = local[c].call
        /\ o.code \in {0, 10} => local'[c].sent = sent
    BY <1>0, <1>1, <1>4, <1>7 DEF Locals
  <1>10. TypeOK'
    BY <1>1, <1>5, <1>7, <1>8, <1>9 DEF TypeOK, fetch_prepared
  <1>11. DiskInv' /\ Only(c)
    BY <1>0, <1>1, <1>4, <1>5, <1>7, <1>8, <1>9, <1>10, ContentsChange
       DEF Holding, fetch_prepared
  <1>12. AnswerInv(c)' /\ ValueInv(c)'
    BY <1>4, <1>5, <1>8, <1>9
       DEF AnswerInv, ValueInv, AfterMetadata, Answered, MetadataOf
  <1> QED
    BY <1>10, <1>11, <1>12, OthersInv

\* The body is read, or is not.
LEMMA ReadBodyInv ==
    ASSUME Inv, NEW c \in Callers, createBufferFromFile(c)
    PROVE  Inv'
  <1>0. PICK d \in Directories : d = local[c].directory
    BY DEF Inv, TypeOK, createBufferFromFile, Holding
  <1>1. /\ at[c] = "read_body" /\ TypeOK /\ local[c] \in Locals
        /\ disk[d] \in DirectoryStates /\ disk[d] # Absent
        /\ AnswerInv(c)
    BY <1>0 DEF createBufferFromFile, Inv, TypeOK, Exclusive, Holds, Holding
  <1>2. PICK body \in BodyFiles \cup {ReadError}, reads \in {"good", "failed"} :
           /\ local' = [local EXCEPT ![c].body = body, ![c].reads = reads]
           /\ local[c].code \notin {0, 10} => body = ReadError
           /\ local[c].code \in {0, 10} =>
                 \/ body = BodyFile(local[c].call, "whole")
                 \/ body = ReadError /\ reads = "failed"
    <2>1. CASE local[c].code \in {0, 10}
      <3>1. PICK r \in ReadsOf(disk[d].body) :
               local' = [local EXCEPT ![c].body = r.file, ![c].reads = r.reads]
        BY <1>0, <2>1 DEF createBufferFromFile, Responded
      <3>2. disk[d].body = BodyFile(local[c].call, "whole")
        BY <1>0, <1>1, <2>1 DEF AnswerInv
      <3>3. disk[d].body \in BodyFiles /\ disk[d].body # NoFile
        BY <1>1, <3>2 DEF BodyFile, BodyFiles, NoFile, Locals
      <3>4. \/ r.file = ReadError /\ r.reads = "failed"
            \/ r.file = disk[d].body /\ r.reads = "good"
        BY <3>3 DEF ReadsOf
      <3>5. r.file \in BodyFiles \cup {ReadError} /\ r.reads \in {"good", "failed"}
        BY <3>3, <3>4
      <3> QED
        BY <2>1, <3>1, <3>2, <3>4, <3>5
    <2>2. CASE local[c].code \notin {0, 10}
      <3>1. local' = local /\ local[c].body = ReadError
        BY <1>1, <2>2 DEF createBufferFromFile, Responded, AnswerInv, Holding
      <3>2. local' = [local EXCEPT ![c].body = local[c].body,
                                   ![c].reads = local[c].reads]
        BY <1>1, <3>1 DEF TypeOK, Locals
      <3>3. local[c].reads \in {"good", "failed"}
        BY <1>1 DEF Locals
      <3> QED
        BY <2>2, <3>1, <3>2, <3>3
    <2> QED
      BY <2>1, <2>2
  <1>3. [local[c] EXCEPT !.body = body, !.reads = reads] \in Locals
    BY <1>1 DEF Locals
  <1>4. /\ local' \in [Callers -> Locals]
        /\ local'[c] = [local[c] EXCEPT !.body = body, !.reads = reads]
        /\ \A e \in Callers \ {c} : local'[e] = local[e]
    BY <1>1, <1>2, <1>3 DEF TypeOK
  <1>5. /\ at' \in [Callers -> Points] /\ at'[c] = "read_metadata"
        /\ \A e \in Callers \ {c} : at'[e] = at[e]
    BY <1>1, Moves DEF createBufferFromFile, Points
  <1>6. /\ local'[c].directory = d /\ local'[c].code = local[c].code
        /\ local'[c].sent = local[c].sent /\ local'[c].call = local[c].call
        /\ local'[c].body = body /\ local'[c].reads = reads
    BY <1>0, <1>1, <1>4 DEF Locals
  <1>7. TypeOK'
    BY <1>1, <1>4, <1>5, <1>6 DEF TypeOK, createBufferFromFile
  <1>8. DiskInv' /\ Only(c)
    BY <1>0, <1>1, <1>4, <1>5, <1>6, <1>7, DiskKept
       DEF Holding, createBufferFromFile
  <1>9. disk' = disk
    BY DEF createBufferFromFile
  <1>10. AnswerInv(c)' /\ ValueInv(c)'
    BY <1>0, <1>1, <1>2, <1>5, <1>6, <1>9
       DEF AnswerInv, ValueInv, AfterMetadata, Answered, MetadataOf, BodyRead
  <1> QED
    BY <1>7, <1>8, <1>10, OthersInv

\* The metadata is read, or is not.
LEMMA ReadMetadataInv ==
    ASSUME Inv, NEW c \in Callers, readFile(c)
    PROVE  Inv'
  <1>0. PICK d \in Directories : d = local[c].directory
    BY DEF Inv, TypeOK, readFile, Holding
  <1>1. /\ at[c] = "read_metadata" /\ TypeOK /\ local[c] \in Locals
        /\ disk[d] \in DirectoryStates /\ disk[d] # Absent
        /\ AnswerInv(c)
    BY <1>0 DEF readFile, Inv, TypeOK, Exclusive, Holds, Holding
  <1>2. PICK r \in ReadsOf(disk[d].metadata) :
           local' = [local EXCEPT
                       ![c].metadata = r.file,
                       ![c].reads = IF r.reads = "failed" THEN "failed" ELSE @]
    BY <1>0 DEF readFile
  <1>a. disk[d].metadata \in MetadataFiles \cup {NoFile, Torn}
    BY <1>1 DEF DirectoryStates
  <1>b. \/ r.file = ReadError /\ r.reads = "failed"
        \/ /\ r.reads = "good"
           /\ r.file = IF disk[d].metadata = NoFile THEN ReadError
                                                    ELSE disk[d].metadata
    BY DEF ReadsOf
  <1> DEFINE reads == IF r.reads = "failed" THEN "failed" ELSE local[c].reads
  <1>3. [local[c] EXCEPT !.metadata = r.file, !.reads = reads] \in Locals
    BY <1>1, <1>a, <1>b DEF Locals
  <1>4. /\ local' \in [Callers -> Locals]
        /\ local'[c] = [local[c] EXCEPT !.metadata = r.file, !.reads = reads]
        /\ \A e \in Callers \ {c} : local'[e] = local[e]
    BY <1>1, <1>2, <1>3 DEF TypeOK
  <1>5. /\ at' \in [Callers -> Points] /\ at'[c] = "remove_body"
        /\ \A e \in Callers \ {c} : at'[e] = at[e]
    BY <1>1, Moves DEF readFile, Points
  <1>6. /\ local'[c].directory = d /\ local'[c].code = local[c].code
        /\ local'[c].sent = local[c].sent /\ local'[c].call = local[c].call
        /\ local'[c].body = local[c].body /\ local'[c].metadata = r.file
        /\ local'[c].reads = reads
    BY <1>0, <1>1, <1>4 DEF Locals
  <1>7. TypeOK'
    BY <1>1, <1>4, <1>5, <1>6 DEF TypeOK, readFile
  <1>8. DiskInv' /\ Only(c)
    BY <1>0, <1>1, <1>4, <1>5, <1>6, <1>7, DiskKept DEF Holding, readFile
  <1>9. local[c].code \in {0, 10} =>
           /\ disk[d].metadata \in MetadataOf(local[c])
           /\ disk[d].metadata # NoFile
    <2>1. local[c].code \in {0, 10} =>
             Answered(local[c]) /\ disk[d].metadata \in MetadataOf(local[c])
      BY <1>0, <1>1 DEF AnswerInv
    <2>2. Answered(local[c]) =>
             local[c].sent \in Responses /\ local[c].sent.utf8 \in {"valid", "invalid"}
      BY CaptureAssumption DEF Answered, Answers
    <2> QED
      BY <2>1, <2>2, MetadataType DEF MetadataOf
  <1>10. AnswerInv(c)' /\ ValueInv(c)'
    BY <1>0, <1>1, <1>b, <1>5, <1>6, <1>9
       DEF AnswerInv, ValueInv, AfterMetadata, Answered, MetadataOf, BodyRead,
           MetadataRead, Holding
  <1> QED
    BY <1>7, <1>8, <1>10, OthersInv

\* A directory that is there and has no files is the empty one.
LEMMA NoFilesLeft ==
    ASSUME NEW files \in DirectoryStates, files # Absent
    PROVE  /\ files = [body |-> files.body, metadata |-> files.metadata]
           /\ [files EXCEPT !.body = NoFile] \in DirectoryStates \ {Absent}
           /\ [files EXCEPT !.body = NoFile].body = NoFile
           /\ [files EXCEPT !.metadata = NoFile] \in DirectoryStates \ {Absent}
           /\ [files EXCEPT !.metadata = NoFile].body = files.body
           /\ files.body = NoFile =>
                 [files EXCEPT !.metadata = NoFile] = EmptyDirectory
           /\ [files EXCEPT !.body = NoFile] # files => files.body # NoFile
           /\ [files EXCEPT !.metadata = NoFile] # files => files # EmptyDirectory
           /\ EmptyDirectory.body = NoFile
  <1>1. /\ files.body \in BodyFiles \cup {NoFile}
        /\ files.metadata \in MetadataFiles \cup {NoFile, Torn}
        /\ files = [body |-> files.body, metadata |-> files.metadata]
    BY DEF DirectoryStates
  <1>2. files.body # ReadError /\ NoFile # ReadError
    BY <1>1 DEF BodyFiles, NoFile, ReadError
  <1>3. [files EXCEPT !.body = NoFile] = [body |-> NoFile, metadata |-> files.metadata]
    BY <1>1
  <1>4. [files EXCEPT !.metadata = NoFile] = [body |-> files.body, metadata |-> NoFile]
    BY <1>1
  <1>5. /\ [files EXCEPT !.body = NoFile] \in DirectoryStates \ {Absent}
        /\ [files EXCEPT !.metadata = NoFile] \in DirectoryStates \ {Absent}
    BY <1>1, <1>2, <1>3, <1>4 DEF DirectoryStates, Absent
  <1> QED
    BY <1>1, <1>3, <1>4, <1>5 DEF EmptyDirectory

\* A file is removed, or its removal fails and the directory is given up.
LEMMA RemoveFileInv ==
    ASSUME Inv, NEW c \in Callers, NEW left \in DirectoryStates \ {Absent},
           RemoveFile(c, left), UNCHANGED <<begun, local>>,
           NEW point \in {"remove_metadata", "remove_directory"},
           GoTo(c, point),
           at[c] \in {"remove_body", "remove_metadata"},
           disk[local[c].directory] # left =>
              IF point = "remove_metadata"
              THEN disk[local[c].directory].body # NoFile
              ELSE disk[local[c].directory] # EmptyDirectory,
           IF point = "remove_metadata"
           THEN at[c] = "remove_body" /\ left.body = NoFile
           ELSE /\ at[c] = "remove_metadata"
                /\ left.body = disk[local[c].directory].body
                /\ left.body = NoFile => left = EmptyDirectory
    PROVE  Inv'
  <1>0. PICK d \in Directories : d = local[c].directory
    BY DEF Inv, TypeOK, Holding
  <1>1. /\ TypeOK /\ local[c] \in Locals /\ disk[d] # Absent
        /\ AnswerInv(c) /\ Holds(c, d)
    BY <1>0 DEF Inv, TypeOK, Exclusive, Holds, Holding
  <1>2. \/ /\ disk' = [disk EXCEPT ![d] = left] /\ abandoned' = abandoned
        \/ /\ disk' = disk /\ disk[d] # left
           /\ abandoned' = abandoned \cup {d}
    BY <1>0, <1>1 DEF RemoveFile
  <1>3. /\ disk' \in [Directories -> DirectoryStates] /\ disk'[d] # Absent
        /\ \/ disk'[d] = left
           \/ disk'[d] = disk[d] /\ disk[d] # left /\ d \in abandoned'
        /\ \A x \in Directories \ {d} : disk'[x] = disk[x]
        /\ abandoned' \subseteq Directories
        /\ abandoned' \in {abandoned, abandoned \cup {d}}
    BY <1>1, <1>2 DEF TypeOK
  <1>4. /\ at' \in [Callers -> Points] /\ at'[c] = point
        /\ \A e \in Callers \ {c} : at'[e] = at[e]
    BY <1>1, Moves DEF Points
  <1>5. TypeOK'
    BY <1>1, <1>3, <1>4, <1>0 DEF TypeOK
  <1>6. d \in abandoned =>
           at[c] = "remove_metadata" /\ disk[d].body # NoFile
    BY <1>1 DEF Inv, GivenUp
  <1>7. EmptyDirectory.body = NoFile
    BY DEF EmptyDirectory
  <1>8. d \in abandoned' =>
              \/ at'[c] = "remove_metadata" /\ disk'[d].body # NoFile
              \/ at'[c] = "remove_directory" /\ disk'[d] # EmptyDirectory
    BY <1>0, <1>2, <1>3, <1>4, <1>6, <1>7
  <1>9. DiskInv' /\ Only(c)
    BY <1>0, <1>1, <1>3, <1>4, <1>5, <1>8, ContentsChange DEF Holding
  <1>10. /\ at'[c] = "remove_metadata" /\ disk'[d].body # NoFile => d \in abandoned'
         /\ at'[c] = "remove_directory" /\ disk'[d] # EmptyDirectory =>
               d \in abandoned'
    BY <1>0, <1>1, <1>2, <1>3, <1>4 DEF AnswerInv
  <1>11. AnswerInv(c)'
    BY <1>0, <1>1, <1>4, <1>10
       DEF AnswerInv, AfterMetadata, Answered, MetadataOf, BodyRead,
           MetadataRead, Holding
  <1>12. ValueInv(c)'
    BY <1>4 DEF ValueInv
  <1> QED
    BY <1>5, <1>9, <1>11, <1>12, OthersInv

\* The body is removed.
LEMMA RemoveBodyInv ==
    ASSUME Inv, NEW c \in Callers, RemoveBody(c)
    PROVE  Inv'
  <1>1. /\ disk[local[c].directory] \in DirectoryStates
        /\ disk[local[c].directory] # Absent
    BY DEF RemoveBody, Inv, TypeOK, Exclusive, Holds, Holding
  <1>2. /\ WithoutBody(c) \in DirectoryStates \ {Absent}
        /\ WithoutBody(c).body = NoFile
        /\ disk[local[c].directory] # WithoutBody(c) =>
              disk[local[c].directory].body # NoFile
    BY <1>1, NoFilesLeft DEF WithoutBody
  <1> QED
    BY <1>2, RemoveFileInv DEF RemoveBody

\* The metadata is removed.
LEMMA RemoveMetadataInv ==
    ASSUME Inv, NEW c \in Callers, RemoveMetadata(c)
    PROVE  Inv'
  <1>1. /\ disk[local[c].directory] \in DirectoryStates
        /\ disk[local[c].directory] # Absent
    BY DEF RemoveMetadata, Inv, TypeOK, Exclusive, Holds, Holding
  <1>2. /\ WithoutMetadata(c) \in DirectoryStates \ {Absent}
        /\ WithoutMetadata(c).body = disk[local[c].directory].body
        /\ WithoutMetadata(c).body = NoFile => WithoutMetadata(c) = EmptyDirectory
        /\ disk[local[c].directory] # WithoutMetadata(c) =>
              disk[local[c].directory] # EmptyDirectory
    BY <1>1, NoFilesLeft DEF WithoutMetadata
  <1> QED
    BY <1>2, RemoveFileInv DEF RemoveMetadata

\* The directory of a call is let go: it is gone from the disk, or it is
\* still there and given up.
LEMMA DirectoryReleased ==
    ASSUME Inv, NEW c \in Callers, TypeOK', NEW d \in Directories,
           Holds(c, d), at'[c] \notin Holding,
           \A e \in Callers \ {c} : at'[e] = at[e] /\ local'[e] = local[e],
           \A x \in Directories \ {d} : disk'[x] = disk[x],
           \/ disk'[d] = Absent /\ d \notin abandoned /\ abandoned' = abandoned
           \/ disk'[d] # Absent /\ abandoned' = abandoned \cup {d}
    PROVE  DiskInv' /\ Only(c)
  <1>1. /\ \A e \in Callers \ {c} : \A x \in Directories :
              Holds(e, x)' <=> Holds(e, x)
        /\ \A x \in Directories : ~Holds(c, x)'
        /\ \A x \in Directories : Holds(c, x) => x = d
        /\ \A e \in Callers : Holds(e, d) => e = c
    BY DEF Holds, Inv, Exclusive
  <1>2. Exclusive'
    BY <1>1 DEF Exclusive, Inv
  <1>3. GivenUp'
    <2>1. ASSUME NEW x \in abandoned', x # d
          PROVE  /\ disk'[x] # Absent
                 /\ \A e \in Callers : Holds(e, x)' =>
                       \/ at'[e] = "remove_metadata" /\ disk'[x].body # NoFile
                       \/ at'[e] = "remove_directory" /\ disk'[x] # EmptyDirectory
      <3>1. x \in abandoned /\ x \in Directories /\ disk'[x] = disk[x]
        BY <2>1 DEF Inv, TypeOK
      <3> QED
        BY <3>1, <1>1 DEF Inv, GivenUp
    <2>2. d \in abandoned' =>
             disk'[d] # Absent /\ \A e \in Callers : ~Holds(e, d)'
      BY <1>1
    <2> QED
      BY <2>1, <2>2 DEF GivenUp
  <1>4. NothingLeftBehind'
    BY <1>1 DEF NothingLeftBehind, Inv
  <1>5. Only(c)
    BY <1>1 DEF Only
  <1> QED
    BY <1>2, <1>3, <1>4, <1>5 DEF DiskInv

\* What fetch_bytes_response makes of what it read.
LEMMA BytesResultType ==
    ASSUME NEW l \in Locals, l.code \in {0, 10} => Answered(l),
           l.code \notin {0, 10} => l.body = ReadError,
           BodyRead(l), MetadataRead(l)
    PROVE  LET v == BytesResult(l)
           IN  /\ v \in Values /\ v.kind \in {"bytes", "failure"}
               /\ v.kind = "bytes" =>
                     /\ l.code \in {0, 10}
                     /\ v.body = BodyFile(l.call, "whole")
                     /\ v.status = l.sent.status
                     /\ v.encoding = l.sent.content_encoding
                     /\ v.content_type = Metadata(l.sent, "valid").content_type
                     /\ v.utf8 = "valid" => l.sent.utf8 = "valid"
               /\ v.kind = "failure" /\ l.code \in {0, 10} =>
                     \/ l.reads = "failed"
                     \/ {l.sent.content_type, l.sent.content_encoding}
                           \cap Tabbed # {}
  <1> USE CaptureAssumption
  <1> DEFINE v == BytesResult(l)
  <1>1. CASE l.code \notin {0, 10}
    <2>1. v = Failure(capture_failure(l.code))
      BY <1>1 DEF BytesResult, Responded
    <2>2. capture_failure(l.code) \in CaptureFailures
      BY <1>1 DEF capture_failure, CaptureFailures
    <2>3. v \in Values /\ v.kind = "failure"
      BY <2>1, <2>2 DEF Failure, Values
    <2> QED
      BY <1>1, <2>3
  <1>2. CASE l.code \in {0, 10} /\ (l.body = ReadError \/ l.metadata = ReadError)
    <2>1. v = Failure("CaptureIOFailure")
      BY <1>2 DEF BytesResult, Responded
    <2>2. v \in Values /\ v.kind = "failure"
      BY <2>1 DEF Failure, Values, CaptureFailures
    <2>3. Answered(l) /\ l.sent \in Answers
      BY <1>2 DEF Answered
    <2>4. \A u \in {l.sent.utf8, "invalid"} : Metadata(l.sent, u) # ReadError
      BY <2>3, MetadataType DEF Answered, Answers
    <2>5. l.reads = "failed"
      BY <1>2, <2>4
         DEF BodyRead, MetadataRead, MetadataOf, BodyFile, ReadError
    <2> QED
      BY <1>2, <2>2, <2>5
  <1>3. CASE l.code \in {0, 10} /\ l.body # ReadError /\ l.metadata # ReadError
    <2>1. l.body = BodyFile(l.call, "whole") /\ l.metadata \in MetadataOf(l)
      BY <1>3 DEF BodyRead, MetadataRead
    <2>2. l.sent \in Responses /\ l.sent \in Answers
      BY <1>3 DEF Answered
    <2>3. PICK u \in {l.sent.utf8, "invalid"} : l.metadata = Metadata(l.sent, u)
      BY <2>1 DEF MetadataOf
    <2>4. u \in {"valid", "invalid"} /\ (u = "valid" => l.sent.utf8 = "valid")
      BY <2>2 DEF Answers
    <2>5. /\ l.metadata.http_status = l.sent.status
          /\ l.metadata.content_encoding = l.sent.content_encoding
          /\ l.metadata.content_type = Metadata(l.sent, "valid").content_type
          /\ l.metadata.content_type \in {l.sent.content_type, "unknown"}
          /\ l.metadata.utf8 = u
      BY <2>3 DEF Metadata
    <2>6. l.metadata \in MetadataFiles /\ l.metadata # Torn
      BY <2>2, <2>3, <2>4, MetadataType
    <2>7. l.metadata.http_status \in Statuses
      BY <2>6 DEF MetadataFiles
    <2>8. v = understand_bytes(l.code, l.metadata, l.body)
      BY <1>3 DEF BytesResult
    <2>9. CASE metadata_fields(l.metadata)
      <3>1. v = [kind |-> "bytes", status |-> l.metadata.http_status,
                 body |-> l.body, encoding |-> l.metadata.content_encoding,
                 content_type |-> l.metadata.content_type,
                 utf8 |-> l.metadata.utf8]
        BY <1>3, <2>7, <2>8, <2>9 DEF understand_bytes, Responded
      <3>2. v \in Values
        BY <3>1, <2>1, <2>6 DEF Values, MetadataFiles, BodyFile, BodyFiles, Locals
      <3> HIDE DEF v
      <3> QED
        BY <1>3, <2>1, <2>4, <2>5, <3>1, <3>2 DEF v
    <2>10. CASE ~metadata_fields(l.metadata)
      <3>1. v = Failure("MalformedResponse")
        BY <1>3, <2>8, <2>10 DEF understand_bytes, Responded
      <3>2. v \in Values /\ v.kind = "failure"
        BY <3>1 DEF Failure, Values, CaptureFailures
      <3>3. {l.sent.content_type, l.sent.content_encoding} \cap Tabbed # {}
        BY <2>5, <2>6, <2>10 DEF metadata_fields
      <3> QED
        BY <3>2, <3>3
    <2> QED
      BY <2>9, <2>10
  <1> QED
    BY <1>1, <1>2, <1>3

\* The directory is removed, or is not, and the value is there.
LEMMA RemoveDirectoryInv ==
    ASSUME Inv, NEW c \in Callers, RemoveDirectory(c)
    PROVE  Inv'
  <1>0. PICK d \in Directories : d = local[c].directory
    BY DEF Inv, TypeOK, RemoveDirectory, Holding
  <1>1. /\ at[c] = "remove_directory" /\ TypeOK /\ local[c] \in Locals
        /\ disk[d] # Absent /\ AnswerInv(c) /\ Holds(c, d)
    BY <1>0 DEF RemoveDirectory, Inv, TypeOK, Exclusive, Holds, Holding
  <1>2. PICK v : v = BytesResult(local[c])
    OBVIOUS
  <1>3. /\ v \in Values /\ v.kind \in {"bytes", "failure"}
        /\ v.kind = "bytes" =>
              /\ local[c].code \in {0, 10}
              /\ v.body = BodyFile(local[c].call, "whole")
              /\ v.status = local[c].sent.status
              /\ v.encoding = local[c].sent.content_encoding
              /\ v.content_type = Metadata(local[c].sent, "valid").content_type
              /\ v.utf8 = "valid" => local[c].sent.utf8 = "valid"
        /\ v.kind = "failure" /\ local[c].code \in {0, 10} =>
              \/ local[c].reads = "failed"
              \/ {local[c].sent.content_type, local[c].sent.content_encoding}
                    \cap Tabbed # {}
    BY <1>1, <1>2, BytesResultType DEF AnswerInv, AfterMetadata, Holding
  <1>4. [local[c] EXCEPT !.value = v] \in Locals
    BY <1>1, <1>3 DEF Locals
  <1>5. /\ local' \in [Callers -> Locals]
        /\ local'[c] = [local[c] EXCEPT !.value = v]
        /\ \A e \in Callers \ {c} : local'[e] = local[e]
    BY <1>1, <1>2, <1>4 DEF TypeOK, RemoveDirectory
  <1>6. /\ at' \in [Callers -> Points] /\ at'[c] \in {"decode", "returned"}
        /\ at'[c] = "decode" => v.kind = "bytes"
        /\ \A e \in Callers \ {c} : at'[e] = at[e]
    <2>1. PICK point \in {"decode", "returned"} :
             GoTo(c, point) /\ (point = "decode" => v.kind = "bytes")
      BY <1>2 DEF RemoveDirectory
    <2> QED
      BY <1>1, <2>1, Moves DEF Points
  <1>7. /\ local'[c].value = v /\ local'[c].code = local[c].code
        /\ local'[c].sent = local[c].sent /\ local'[c].call = local[c].call
        /\ local'[c].reads = local[c].reads
    BY <1>1, <1>5 DEF Locals
  <1>8. EmptyDirectory # Absent
    BY DEF EmptyDirectory, Absent, NoFile, ReadError
  <1>9. \/ /\ disk[d] = EmptyDirectory /\ disk' = [disk EXCEPT ![d] = Absent]
           /\ abandoned' = abandoned
        \/ disk' = disk /\ abandoned' = abandoned \cup {d}
    <2>1. disk[d] # EmptyDirectory => d \in abandoned
      BY <1>0, <1>1 DEF AnswerInv
    <2>2. d \in abandoned => abandoned = abandoned \cup {d}
      OBVIOUS
    <2> QED
      BY <1>0, <2>1, <2>2 DEF RemoveDirectory
  <1>10. Absent \in DirectoryStates
    BY DEF DirectoryStates
  <1>11. /\ disk' \in [Directories -> DirectoryStates]
         /\ abandoned' \subseteq Directories
         /\ \A x \in Directories \ {d} : disk'[x] = disk[x]
    BY <1>1, <1>9, <1>10 DEF TypeOK
  <1>12. TypeOK'
    BY <1>1, <1>5, <1>6, <1>11 DEF TypeOK, Holding, RemoveDirectory
  <1>13. disk[d] = EmptyDirectory => d \notin abandoned
    BY <1>1, <1>8 DEF Inv, GivenUp
  <1>14. \/ disk'[d] = Absent /\ d \notin abandoned /\ abandoned' = abandoned
         \/ disk'[d] # Absent /\ abandoned' = abandoned \cup {d}
    BY <1>1, <1>9, <1>13 DEF TypeOK
  <1>15. DiskInv' /\ Only(c)
    BY <1>1, <1>5, <1>6, <1>11, <1>12, <1>14, DirectoryReleased DEF Holding
  <1>16. AnswerInv(c)'
    BY <1>1, <1>6, <1>7
       DEF AnswerInv, Holding, AfterMetadata, Answered
  <1>17. ValueInv(c)'
    BY <1>3, <1>6, <1>7 DEF ValueInv
  <1> QED
    BY <1>12, <1>15, <1>16, <1>17, OthersInv

\* The bytes become a text, or a failure.
LEMMA DecodeInv ==
    ASSUME Inv, NEW c \in Callers, Decode(c)
    PROVE  Inv'
  <1> USE CaptureAssumption
  <1>1. /\ at[c] = "decode" /\ TypeOK /\ local[c] \in Locals
        /\ AnswerInv(c) /\ ValueInv(c)
    BY DEF Decode, Inv, TypeOK
  <1>2. PICK b : b = local[c].value
    OBVIOUS
  <1>3. /\ b \in Values /\ b.kind = "bytes" /\ local[c].code \in {0, 10}
        /\ b.body = BodyFile(local[c].call, "whole")
        /\ b.status = local[c].sent.status
        /\ b.encoding = local[c].sent.content_encoding
        /\ b.content_type = Metadata(local[c].sent, "valid").content_type
        /\ b.utf8 = "valid" => local[c].sent.utf8 = "valid"
    BY <1>1, <1>2 DEF ValueInv, Locals
  <1>4. PICK v : v = response_text(b)
    OBVIOUS
  <1>5. \/ /\ v = [kind |-> "text", status |-> b.status, body |-> b.body]
           /\ b.encoding = "identity" /\ b.content_type \notin OtherCharset
           /\ b.utf8 = "valid"
        \/ v = Failure("UnsupportedEncoding")
        \/ v = Failure("InvalidUTF8")
    BY <1>4 DEF response_text
  <1>6. v \in Values
    <2>1. b.status \in Statuses /\ b.body \in BodyFiles
      BY <1>3 DEF Values
    <2> QED
      BY <1>5, <2>1 DEF Values, Failure, CaptureFailures
  <1>7. /\ TypeOK' /\ at'[c] = "returned"
        /\ local'[c] = [local[c] EXCEPT !.value = v]
        /\ \A e \in Callers \ {c} : at'[e] = at[e] /\ local'[e] = local[e]
    BY <1>1, <1>2, <1>4, <1>6, Returns DEF Decode
  <1>8. /\ local'[c].value = v /\ local'[c].code = local[c].code
        /\ local'[c].sent = local[c].sent /\ local'[c].call = local[c].call
        /\ local'[c].directory = local[c].directory
    BY <1>1, <1>7 DEF Locals
  <1>9. DiskInv' /\ Only(c)
    BY <1>1, <1>7, <1>8, DiskKept DEF Decode, Holding
  <1>10. AnswerInv(c)'
    BY <1>1, <1>7, <1>8 DEF AnswerInv, Holding, AfterMetadata, Answered
  <1>11. b.content_type \notin OtherCharset =>
            local[c].sent.content_type \notin OtherCharset \ Unfit
    <2>1. Answered(local[c]) /\ local[c].sent \in Answers
      BY <1>1, <1>3 DEF AnswerInv, Answered
    <2>2. SUFFICES ASSUME local[c].sent.content_type \in OtherCharset \ Unfit,
                          b.content_type \notin OtherCharset
                   PROVE  FALSE
      OBVIOUS
    <2>3. local[c].sent.content_type = "none"
      BY <1>3, <2>2 DEF Metadata
    <2> QED
      BY <2>2, <2>3
  <1>12. ValueInv(c)'
    BY <1>3, <1>5, <1>7, <1>8, <1>11 DEF ValueInv, Failure
  <1> QED
    BY <1>7, <1>9, <1>10, <1>12, OthersInv

\* The process ends; a directory it was at work in is given up.
LEMMA CrashInv ==
    ASSUME Inv, NEW c \in Callers, Crash(c)
    PROVE  Inv'
  <1>1. TypeOK /\ local[c] \in Locals /\ AnswerInv(c)
    BY DEF Inv, TypeOK
  <1>2. /\ local' \in [Callers -> Locals] /\ local'[c] = Fresh(0, "bytes")
        /\ \A e \in Callers \ {c} : local'[e] = local[e]
    BY <1>1, FreshType DEF TypeOK, Crash
  <1>3. /\ at' \in [Callers -> Points] /\ at'[c] = "idle"
        /\ \A e \in Callers \ {c} : at'[e] = at[e]
    BY <1>1, Moves DEF Crash, Points
  <1>4. AnswerInv(c)' /\ ValueInv(c)'
    BY <1>2, <1>3 DEF AnswerInv, ValueInv, Holding, AfterMetadata
  <1>5. CASE at[c] \notin Holding
    <2>1. UNCHANGED <<disk, abandoned>>
      BY <1>5 DEF Crash, Holding
    <2>2. TypeOK'
      BY <1>1, <1>2, <1>3, <2>1 DEF TypeOK, Holding, Crash
    <2>3. DiskInv' /\ Only(c)
      BY <1>2, <1>3, <1>5, <2>1, <2>2, DiskKept DEF Holding
    <2> QED
      BY <1>4, <2>2, <2>3, OthersInv
  <1>6. CASE at[c] \in Holding
    <2>0. PICK d \in Directories : d = local[c].directory
      BY <1>6 DEF Inv, TypeOK
    <2>1. Holds(c, d) /\ disk[d] # Absent /\ abandoned' = abandoned \cup {d}
      BY <1>6, <2>0 DEF Crash, Holds, Inv, Exclusive
    <2>2. PICK files \in DirectoryStates \ {Absent} :
             disk' = [disk EXCEPT ![d] = files]
      <3>1. CASE at[c] = "fetch" /\ disk[d] = EmptyDirectory
        <4>1. PICK b \in {NoFile} \cup
                      {BodyFile(local[c].call, e) : e \in {"part", "whole"}},
                   m \in {NoFile, Torn} :
                 disk' = [disk EXCEPT ![d] = [body |-> b, metadata |-> m]]
          BY <2>0, <3>1 DEF Crash
        <4>2. b \in BodyFiles \cup {NoFile} /\ b # ReadError
          BY <1>1, <4>1 DEF BodyFile, BodyFiles, Locals, NoFile, ReadError
        <4>3. [body |-> b, metadata |-> m] \in DirectoryStates \ {Absent}
          BY <4>1, <4>2 DEF DirectoryStates, Absent
        <4> QED
          BY <4>1, <4>3
      <3>2. CASE ~(at[c] = "fetch" /\ disk[d] = EmptyDirectory)
        <4>1. disk' = disk
          BY <2>0, <3>2 DEF Crash
        <4>2. disk' = [disk EXCEPT ![d] = disk[d]] /\ disk[d] \in DirectoryStates
          BY <1>1, <4>1 DEF TypeOK
        <4> QED
          BY <2>1, <4>2
      <3> QED
        BY <3>1, <3>2
    <2>3. /\ disk' \in [Directories -> DirectoryStates] /\ disk'[d] # Absent
          /\ \A x \in Directories \ {d} : disk'[x] = disk[x]
      BY <1>1, <2>2 DEF TypeOK
    <2>4. TypeOK'
      BY <1>1, <1>2, <1>3, <2>1, <2>3 DEF TypeOK, Holding, Crash
    <2>5. DiskInv' /\ Only(c)
      BY <1>2, <1>3, <2>1, <2>3, <2>4, DirectoryReleased DEF Holding
    <2> QED
      BY <1>4, <2>4, <2>5, OthersInv
  <1> QED
    BY <1>5, <1>6

-----------------------------------------------------------------------------
\* Inv is inductive.
LEMMA NextInv == Inv /\ [Next]_vars => Inv'
  <1> SUFFICES ASSUME Inv, [Next]_vars PROVE Inv'
    OBVIOUS
  <1>1. CASE Next
    BY <1>1, BeginInv, DirectoryInv, FetchInv, ReadBodyInv, ReadMetadataInv,
       RemoveBodyInv, RemoveMetadataInv, RemoveDirectoryInv, DecodeInv, CrashInv
       DEF Next
  <1>2. CASE UNCHANGED vars
    <2>1. TypeOK'
      BY <1>2 DEF vars, Inv, TypeOK
    <2>2. DiskInv'
      BY <1>2 DEF vars, Inv, DiskInv, Exclusive, GivenUp, NothingLeftBehind, Holds
    <2>3. \A c \in Callers : AnswerInv(c)' /\ ValueInv(c)'
      BY <1>2
         DEF vars, Inv, AnswerInv, ValueInv, Holding, AfterMetadata, BodyRead,
             MetadataRead, MetadataOf, Answered
    <2> QED
      BY <2>1, <2>2, <2>3 DEF Inv, DiskInv
  <1> QED
    BY <1>1, <1>2

\* It holds throughout.
LEMMA AlwaysInv == Spec => []Inv
  BY InitInv, NextInv, PTL DEF Spec

\* Every variable of the capture layer keeps its type.
THEOREM CaptureTypeCorrect == Spec => []TypeOK
  <1>1. Inv => TypeOK
    BY DEF Inv
  <1> QED
    BY <1>1, AlwaysInv, PTL

\* However a call ends, its directory is gone, unless the process died in it
\* or a removal failed: for any number of callers sharing /tmp.
THEOREM CapturesCleanUp == Spec => []NothingLeftBehind
  <1>1. Inv => NothingLeftBehind
    BY DEF Inv
  <1> QED
    BY <1>1, AlwaysInv, PTL

\* A response returned is this call's own, whole, with the server's status.
THEOREM ResponsesAreOwn == Spec => []ResponseIsOwn
  <1>1. Inv => ResponseIsOwn
    BY DEF Inv, ResponseIsOwn, AnswerInv, ValueInv, Answered
  <1> QED
    BY <1>1, AlwaysInv, PTL

\* A response is lost only to a failed read or to a tab in a header value.
THEOREM ResponsesAreNotLost == Spec => []ResponseIsNotLost
  <1>1. Inv => ResponseIsNotLost
    <2> SUFFICES ASSUME Inv, NEW c \in Callers, at[c] = "returned",
                        local[c].code \in {0, 10}, local[c].value.kind = "failure"
                 PROVE  \/ local[c].value.failure
                              \in {"UnsupportedEncoding", "InvalidUTF8"}
                        \/ local[c].reads = "failed"
                        \/ {local[c].sent.content_type,
                            local[c].sent.content_encoding} \cap Tabbed # {}
      BY DEF ResponseIsNotLost
    <2> QED
      BY DEF Inv, ValueInv
  <1> QED
    BY <1>1, AlwaysInv, PTL

\* fetch_response makes a text only of what it may decode.
THEOREM TextsAreDecodable == Spec => []TextIsDecodable
  <1>1. Inv => TextIsDecodable
    BY DEF Inv, ValueInv, TextIsDecodable
  <1> QED
    BY <1>1, AlwaysInv, PTL

\* A step of a caller that does not hold a directory which is there leaves it
\* alone: what it changes is its own directory or one it creates.
LEMMA StepElsewhere ==
    ASSUME Inv, NEW c \in Callers, NEW d \in Directories,
           ~Holds(c, d), disk[d] # Absent,
           \/ Begin(c) \/ icu_response_directory(c) \/ fetch_prepared(c)
           \/ createBufferFromFile(c) \/ readFile(c)
           \/ RemoveBody(c) \/ RemoveMetadata(c) \/ RemoveDirectory(c)
           \/ Decode(c) \/ Crash(c)
    PROVE  /\ disk'[d] = disk[d] /\ ~Holds(c, d)'
           /\ \A e \in Callers \ {c} : at'[e] = at[e] /\ local'[e] = local[e]
  <1>0. TypeOK /\ local[c] \in Locals
    BY DEF Inv, TypeOK
  <1>1. at[c] \in Holding => local[c].directory # d
    BY DEF Holds
  <1>2. CASE Begin(c)
    BY <1>0, <1>2 DEF Begin, GoTo, Holds, Holding, TypeOK
  <1>3. CASE icu_response_directory(c)
    <2>1. CASE CreateDirectory(c)
      <3>1. PICK x \in FreeDirectories :
               /\ disk' = [disk EXCEPT ![x] = IF @ = Absent THEN EmptyDirectory ELSE @]
               /\ local' = [local EXCEPT ![c].directory = x]
               /\ GoTo(c, "fetch")
        BY <2>1 DEF CreateDirectory
      <3>2. x # d /\ disk'[d] = disk[d]
        BY <1>0, <3>1 DEF FreeDirectories, TypeOK
      <3>3. local'[c].directory = x
        BY <1>0, <3>1 DEF TypeOK, Locals
      <3> QED
        BY <1>0, <3>1, <3>2, <3>3 DEF Holds, GoTo, TypeOK
    <2>2. CASE Return(c, Failure("CaptureIOFailure")) /\ UNCHANGED disk
      BY <1>0, <2>2 DEF Return, GoTo, Holds, Holding, TypeOK
    <2> QED
      BY <1>3, <2>1, <2>2 DEF icu_response_directory
  <1>4. CASE fetch_prepared(c)
    <2>1. local[c].directory # d
      BY <1>1, <1>4 DEF fetch_prepared, Holding
    <2>2. disk'[d] = disk[d]
      BY <1>0, <1>4, <2>1 DEF fetch_prepared, TypeOK
    <2>3. PICK code, s :
             local' = [local EXCEPT ![c].code = code, ![c].sent = s]
      BY <1>4 DEF fetch_prepared
    <2>4. local'[c].directory = local[c].directory
      BY <1>0, <2>3 DEF TypeOK, Locals
    <2> QED
      BY <1>0, <1>4, <2>1, <2>2, <2>3, <2>4 DEF fetch_prepared, GoTo, Holds, TypeOK
  <1>5. CASE createBufferFromFile(c)
    <2>1. local[c].directory # d
      BY <1>1, <1>5 DEF createBufferFromFile, Holding
    <2>2. \/ local' = local
          \/ \E body, reads :
                local' = [local EXCEPT ![c].body = body, ![c].reads = reads]
      BY <1>5 DEF createBufferFromFile
    <2>3. local'[c].directory = local[c].directory
      BY <1>0, <2>2 DEF TypeOK, Locals
    <2> QED
      BY <1>0, <1>5, <2>1, <2>2, <2>3
         DEF createBufferFromFile, GoTo, Holds, TypeOK
  <1>6. CASE readFile(c)
    <2>1. local[c].directory # d
      BY <1>1, <1>6 DEF readFile, Holding
    <2>2. PICK metadata, reads :
             local' = [local EXCEPT ![c].metadata = metadata, ![c].reads = reads]
      BY <1>6 DEF readFile
    <2>3. local'[c].directory = local[c].directory
      BY <1>0, <2>2 DEF TypeOK, Locals
    <2> QED
      BY <1>0, <1>6, <2>1, <2>2, <2>3 DEF readFile, GoTo, Holds, TypeOK
  <1>7. CASE RemoveBody(c) \/ RemoveMetadata(c)
    <2>1. local[c].directory # d /\ local' = local
      BY <1>1, <1>7 DEF RemoveBody, RemoveMetadata, Holding
    <2>2. disk'[d] = disk[d]
      BY <1>0, <1>7, <2>1 DEF RemoveBody, RemoveMetadata, RemoveFile, TypeOK
    <2>3. \A e \in Callers \ {c} : at'[e] = at[e]
      BY <1>0, <1>7 DEF RemoveBody, RemoveMetadata, GoTo, TypeOK
    <2> QED
      BY <2>1, <2>2, <2>3 DEF Holds
  <1>8. CASE RemoveDirectory(c)
    <2>1. local[c].directory # d
      BY <1>1, <1>8 DEF RemoveDirectory, Holding
    <2>2. disk'[d] = disk[d]
      BY <1>0, <1>8, <2>1 DEF RemoveDirectory, TypeOK
    <2>3. PICK v : local' = [local EXCEPT ![c].value = v]
      BY <1>8 DEF RemoveDirectory
    <2>4. at'[c] \notin Holding /\ \A e \in Callers \ {c} : at'[e] = at[e]
      BY <1>0, <1>8 DEF RemoveDirectory, GoTo, TypeOK, Holding
    <2> QED
      BY <1>0, <2>2, <2>3, <2>4 DEF Holds, TypeOK
  <1>9. CASE Decode(c)
    BY <1>0, <1>9 DEF Decode, Return, GoTo, Holds, Holding, TypeOK
  <1>10. CASE Crash(c)
    <2>1. disk'[d] = disk[d]
      BY <1>0, <1>1, <1>10 DEF Crash, Holding, TypeOK
    <2> QED
      BY <1>0, <1>10, <2>1 DEF Crash, GoTo, Holds, Holding, TypeOK
  <1> QED
    BY <1>2, <1>3, <1>4, <1>5, <1>6, <1>7, <1>8, <1>9, <1>10

\* What a dead caller left is not read from, written into or removed by any
\* later call.
THEOREM LeftoversAreLeft == Spec => LeftoversStay
  <1> DEFINE Stays == \A d \in abandoned :
                 (\A c \in Callers : ~Holds(c, d)) =>
                    disk'[d] = disk[d] /\ \A c \in Callers : ~Holds(c, d)'
  <1>1. Inv /\ [Next]_vars => [Stays]_vars
    <2> SUFFICES ASSUME Inv, Next, NEW d \in abandoned,
                        \A c \in Callers : ~Holds(c, d)
                 PROVE  disk'[d] = disk[d] /\ \A c \in Callers : ~Holds(c, d)'
      OBVIOUS
    <2>1. d \in Directories /\ disk[d] # Absent
      BY DEF Inv, TypeOK, GivenUp
    <2>2. PICK c \in Callers :
             \/ Begin(c) \/ icu_response_directory(c) \/ fetch_prepared(c)
             \/ createBufferFromFile(c) \/ readFile(c)
             \/ RemoveBody(c) \/ RemoveMetadata(c) \/ RemoveDirectory(c)
             \/ Decode(c) \/ Crash(c)
      BY DEF Next
    <2>3. /\ disk'[d] = disk[d] /\ ~Holds(c, d)'
          /\ \A e \in Callers \ {c} : at'[e] = at[e] /\ local'[e] = local[e]
      BY <2>1, <2>2, StepElsewhere
    <2> QED
      BY <2>3 DEF Holds
  <1> QED
    BY <1>1, AlwaysInv, PTL DEF Spec, LeftoversStay

=============================================================================
