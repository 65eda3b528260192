-------------------------- MODULE RefinementProofs --------------------------
(***************************************************************************)
(* Transport implements HttpCall.  Every step of a running call stutters,  *)
(* every return is one HttpCall permits, and the process calling again is  *)
(* CallAgain.                                                              *)
(***************************************************************************)
EXTENDS TransportProofs

\* What Inv does not say of an answer that is being used: its status was
\* checked, and the failure code is none that belongs to opening.
AnswerInv ==
    /\ pc \in {"answered"} \cup Copying => wire.status \in 100..599
    /\ pc \in {"head", "answered"} \cup Copying =>
          conn.failure_code \in {7, 11, 12, 13}

RefInv == Inv /\ AnswerInv

\* The steps of a call that do not end it.
LEMMA AnswerStep == Inv /\ AnswerInv /\ [Next]_vars => AnswerInv'
  <1> SUFFICES ASSUME Inv, AnswerInv, [Next]_vars PROVE AnswerInv'
    OBVIOUS
  <1> USE DEF Copying
  <1>1. CASE \/ NextCall \/ PeerStalls \/ BodyGoesOn \/ WriteRetries \/ Enter \/ OutOfMemory
             \/ OpenHop \/ Opening \/ OpenFailed \/ HopFailed \/ WriteFails
             \/ FollowRedirect \/ RedirectFails \/ RefuseResponse
             \/ OutputFails \/ HeadTruncated \/ HeadReadFails
    BY <1>1 DEF AnswerInv, NextCall, PeerStalls, BodyGoesOn, WriteRetries, Writing, Enter,
                OutOfMemory, OpenHop, Opening, OpenFailed, HopFailed,
                WriteFails, FollowRedirect, RedirectFails, RefuseResponse,
                OutputFails, HeadTruncated, HeadReadFails, HeadFails, Return, connvars
  <1>2. CASE Write
    <2>1. \/ pc' = "write_body"
          \/ pc' = "head" /\ conn' = [conn EXCEPT !.failure_code = 13]
      BY <1>2 DEF Write
    <2>2. conn \in Connections
      BY DEF Inv, Core, TypeOK, ConnTypeOK
    <2> QED
      BY <2>1, <2>2 DEF AnswerInv, Connections
  <1>3. CASE ReadHead
    <2>1. /\ pc = "head" /\ conn' = conn /\ wire' = wire
          /\ \/ pc' \in {"head", "hop_failed"}
             \/ pc' = "answered" /\ wire.status \in 100..599
      BY <1>3 DEF ReadHead, connvars, HeadFails
    <2> QED
      BY <2>1 DEF AnswerInv
  <1>4. CASE OpenOutput \/ CopyEnds \/ CloseOutput
    BY <1>4 DEF AnswerInv, OpenOutput, Accepted, CopyEnds, CopyFails,
                CloseOutput, connvars, wirevars
  <1>5. CASE CopyPrefix \/ CopyBody
    <2>1. /\ pc \in {"prefix", "copy"} /\ wire' = wire
          /\ conn' \in {conn, [conn EXCEPT !.failure_code = 12]}
      BY <1>5 DEF CopyPrefix, CopyBody, CopyOverflows, WriteOutput, wirevars
    <2>2. conn \in Connections
      BY DEF Inv, Core, TypeOK, ConnTypeOK
    <2> QED
      BY <2>1, <2>2 DEF AnswerInv, Connections
  <1>6. CASE CopyReadFails
    <2>1. /\ pc = "copy" /\ pc' = "close_output" /\ wire' = wire
          /\ \/ conn' = [conn EXCEPT !.failure_code = 11]
             \/ conn' = [conn EXCEPT !.failure_code = 7]
      BY <1>6 DEF CopyReadFails, ReadFails, ReadFailure, CopyFails, wirevars
    <2>2. conn \in Connections
      BY DEF Inv, Core, TypeOK, ConnTypeOK
    <2> QED
      BY <2>1, <2>2 DEF AnswerInv, Connections
  <1>7. CASE Finish
    BY <1>7, Zenon DEF Finish, Return, AnswerInv
  <1>8. CASE UNCHANGED vars
    BY <1>8 DEF AnswerInv, vars, connvars, wirevars
  <1> QED
    BY <1>1, <1>2, <1>3, <1>4, <1>5, <1>6, <1>7, <1>8 DEF Next, Step

-----------------------------------------------------------------------------
\* A call that fails before it has an output.
LEMMA FailureRefines ==
    ASSUME RefInv, NEW code, Return(code),
           pc \in {"enter", "open", "opening", "write_body", "hop_failed",
                   "answered"},
           call.capture = 1 => code \in {2, 3, 4, 5, 6, 7, 8, 11, 12, 13, 14},
           call.capture = 0 => code \in 2..8,
           UNCHANGED <<hopvars, bodyvars>>
    PROVE  Call!Return
  <1>1. stored = NoFile /\ metadata = NoMetadata /\ call.capture \in {0, 1}
    BY CallFacts DEF RefInv, Inv, Core, BodyInv, CountInv, NoBody, TypeOK
  <1>2. /\ stored' = NoFile /\ metadata'.status = 0 /\ call' = call
        /\ pc' = "returned" /\ result' = code /\ pc # "returned"
    BY <1>1 DEF hopvars, bodyvars, Return, NoMetadata
  <1>3. Delivered' = "none"
    BY <1>2 DEF Delivered
  <1> DEFINE o == [code |-> code, body |-> "none", status |-> 0]
  <1>4. o \in Call!Promise(call.capture)
    BY <1>1 DEF Call!Promise, Call!StdoutPromise, Call!CapturePromise,
                Call!NoResponse, Call!Interrupted
  <1> QED
    BY <1>2, <1>3, <1>4 DEF Call!Return

\* Every way a call fails early is one of those.
LEMMA FailingRefines ==
    ASSUME RefInv,
           \/ Enter /\ pc' = "returned"
           \/ OutOfMemory \/ OpenFailed \/ HopFailed \/ WriteFails
           \/ RedirectFails \/ RefuseResponse \/ OutputFails
    PROVE  Call!Return
  <1> USE DEF RefInv, Inv, Core
  <1>0. call.capture \in {0, 1}
    BY CallFacts DEF TypeOK
  <1>1. CASE Enter /\ pc' = "returned"
    <2>1. /\ pc = "enter" /\ (Return(2) \/ Return(3))
          /\ UNCHANGED <<hopvars, bodyvars>>
      BY <1>1 DEF Enter
    <2> QED
      BY <2>1, FailureRefines
  <1>2. CASE OutOfMemory
    BY <1>2, FailureRefines DEF OutOfMemory
  <1>3. CASE OpenFailed
    BY <1>0, <1>3, HopResultCodes, FailureRefines DEF OpenFailed
  <1>4. CASE HopFailed
    BY <1>0, <1>4, HopResultCodes, FailureRefines DEF HopFailed
  <1>5. CASE WriteFails
    BY <1>5, FailureRefines DEF WriteFails, Writing
  <1>6. CASE RedirectFails
    BY <1>6, FailureRefines DEF RedirectFails
  <1>7. CASE RefuseResponse
    <2>1. (Return(13) \/ Return(12)) /\ call.capture # 0
      BY <1>7 DEF RefuseResponse
    <2> QED
      BY <1>7, <2>1, FailureRefines DEF RefuseResponse
  <1>8. CASE OutputFails
    BY <1>8, FailureRefines DEF OutputFails, Accepted
  <1> QED
    BY <1>1, <1>2, <1>3, <1>4, <1>5, <1>6, <1>7, <1>8

\* The code at the end of send_request, by what became of body and metadata.
LEMMA FinalResultCases ==
    ASSUME RefInv, pc = "metadata", NEW written \in BOOLEAN,
           NEW r, r = FinalResult(written)
    PROVE  /\ copied = 1 /\ written /\ call.capture = 0 => r = 0
           /\ copied = 1 /\ written /\ call.capture = 1 =>
                 \/ r = 9 \/ (r = 10 /\ wire.status \notin 200..299)
                 \/ (r = 0 /\ wire.status \in 200..299)
           /\ ~(copied = 1 /\ written) => r \in {7, 11, 12, 13}
           /\ call.capture = 0 /\ ~(copied = 1 /\ written) => r = 7
  <1>1. conn.failure_code \in {7, 11, 12, 13}
    BY DEF RefInv, AnswerInv, Copying
  <1>2. call.capture \in {0, 1} /\ copied \in {0, 1}
    BY CallFacts DEF RefInv, Inv, Core, TypeOK
  <1> QED
    BY <1>1, <1>2 DEF FinalResult

\* The last step of a call that has an output.
LEMMA FinishRefines == RefInv /\ Finish => Call!Return
  <1> SUFFICES ASSUME RefInv, Finish PROVE Call!Return
    OBVIOUS
  <1>0. /\ pc = "metadata" /\ pc' = "returned"
        /\ UNCHANGED <<hopvars, wirevars, received, stored, copied>>
    BY Zenon DEF Finish, Return
  <1>1. PICK written \in BOOLEAN :
           /\ result' = FinalResult(written)
           /\ metadata' = IF written THEN write_response_metadata ELSE metadata
           /\ ~written => call.capture = 1
    <2>1. CASE /\ metadata' = write_response_metadata
               /\ Return(FinalResult(TRUE))
      <3> WITNESS TRUE \in BOOLEAN
      <3> QED
        BY <2>1, Zenon DEF Return
    <2>2. CASE /\ call.capture = 1
               /\ Return(FinalResult(FALSE))
               /\ UNCHANGED metadata
      <3> WITNESS FALSE \in BOOLEAN
      <3> QED
        BY <2>2, Zenon DEF Return
    <2> QED
      BY <2>1, <2>2, Zenon DEF Finish
  <1>2. /\ call' = call /\ wire' = wire /\ stored' = stored
        /\ stored \in Nat /\ metadata = NoMetadata
        /\ call.capture \in {0, 1} /\ copied \in {0, 1}
        /\ copied = 1 => stored = wire.size - wire.head_size /\ ~wire.endless
    BY <1>0, CallFacts DEF RefInv, Inv, Core, TypeOK, BodyInv, CountInv,
       Copying, NoFile, hopvars, wirevars
  <1>3. /\ Delivered' \in {"part", "whole"}
        /\ copied = 1 => Delivered' = "whole"
    BY <1>2 DEF Delivered, NoFile
  <1>4. wire.status \in 100..599
    BY <1>0 DEF RefInv, AnswerInv, Copying
  <1>5. /\ call.capture = 0 => metadata'.status = 0
        /\ call.capture = 1 /\ written => metadata'.status = wire.status
        /\ ~written => metadata'.status = 0
    BY <1>1, <1>2 DEF write_response_metadata, NoMetadata
  <1> DEFINE r == result'
             b == Delivered'
             s == metadata'.status
             o == [code |-> r, body |-> b, status |-> s]
  <1>6. /\ copied = 1 /\ written /\ call.capture = 0 => r = 0
        /\ copied = 1 /\ written /\ call.capture = 1 =>
              \/ r = 9 \/ (r = 10 /\ wire.status \notin 200..299)
              \/ (r = 0 /\ wire.status \in 200..299)
        /\ ~(copied = 1 /\ written) => r \in {7, 11, 12, 13}
        /\ call.capture = 0 /\ ~(copied = 1 /\ written) => r = 7
    BY <1>0, <1>1, FinalResultCases
  <1> HIDE DEF r, b, s
  <1>7. o \in Call!Promise(call.capture)
    <2> USE DEF Call!Promise, Call!Statuses, Call!Successes, Call!Interrupted
    <2>1. CASE call.capture = 0
      <3>1. s = 0 /\ b \in {"part", "whole"}
        BY <1>3, <1>5, <2>1 DEF s, b
      <3>2. r = 7 \/ (r = 0 /\ b = "whole")
        BY <1>1, <1>2, <1>3, <1>6, <2>1 DEF b
      <3> QED
        BY <2>1, <3>1, <3>2 DEF Call!StdoutPromise
    <2>2. CASE call.capture = 1 /\ copied = 1 /\ written
      <3>1. s = wire.status /\ b = "whole"
        BY <1>3, <1>5, <2>2 DEF s, b
      <3> QED
        BY <1>4, <1>6, <2>2, <3>1 DEF Call!CapturePromise
    <2>3. CASE call.capture = 1 /\ ~(copied = 1 /\ written)
      <3>1. s \in {0} \cup 100..599 /\ b \in {"part", "whole"}
        BY <1>1, <1>3, <1>4, <1>5, <2>3 DEF s, b
      <3> QED
        BY <1>6, <2>3, <3>1 DEF Call!CapturePromise
    <2> QED
      BY <1>2, <2>1, <2>2, <2>3
  <1> QED
    BY <1>0, <1>2, <1>7 DEF Call!Return, r, b, s

\* Every step of the detailed call is one of the abstract call, or none.
LEMMA StepRefines == RefInv /\ [Next]_vars => [Call!Next]_(Call!callvars)
  <1> SUFFICES ASSUME RefInv, [Next]_vars
               PROVE  Call!Next \/ UNCHANGED Call!callvars
    BY Zenon
  <1>1. CASE NextCall
    <2>1. /\ pc = "returned" /\ pc' = "enter" /\ call' \in Calls
      BY <1>1 DEF NextCall
    <2>2. call'.capture \in {0, 1}
      BY <2>1, CallFacts
    <2> QED
      BY <2>1, <2>2 DEF Call!Next, Call!CallAgain, Call!NoOutcome
  <1>2. CASE Enter /\ pc' # "returned"
    BY <1>2 DEF Enter, hopvars, Call!callvars
  <1>3. CASE \/ Enter /\ pc' = "returned"
             \/ OutOfMemory \/ OpenFailed \/ HopFailed \/ WriteFails
             \/ RedirectFails \/ RefuseResponse \/ OutputFails
    BY <1>3, FailingRefines DEF Call!Next
  <1>4. CASE \/ PeerStalls \/ BodyGoesOn \/ OpenHop \/ Opening \/ Write \/ WriteRetries
             \/ HeadTruncated \/ HeadReadFails \/ FollowRedirect
             \/ OpenOutput \/ CopyEnds \/ CopyReadFails \/ CloseOutput
    <2>1. pc # "returned" /\ pc' # "returned" /\ call' = call
      BY <1>4 DEF PeerStalls, BodyGoesOn, OpenHop, Opening, Write, WriteRetries, Writing,
                  HeadTruncated, HeadReadFails, HeadFails, FollowRedirect,
                  OpenOutput, Accepted, CopyEnds, CopyReadFails, CopyFails,
                  CloseOutput, hopvars
    <2> QED
      BY <2>1 DEF Call!callvars
  <1>5. CASE ReadHead \/ CopyPrefix \/ CopyBody
    <2>1. pc # "returned" /\ pc' # "returned" /\ call' = call
      BY <1>5 DEF ReadHead, HeadFails, CopyPrefix, CopyBody, CopyOverflows,
                  CopyFails, WriteOutput, hopvars
    <2> QED
      BY <2>1 DEF Call!callvars
  <1>6. CASE Finish
    BY <1>6, FinishRefines DEF Call!Next
  <1>7. CASE UNCHANGED vars
    <2>1. UNCHANGED <<pc, call, result, metadata, stored, wire>>
      BY <1>7 DEF vars, hopvars, wirevars, bodyvars
    <2> QED
      BY <2>1 DEF Call!callvars, Delivered
  <1> QED
    BY <1>1, <1>2, <1>3, <1>4, <1>5, <1>6, <1>7 DEF Next, Step

\* Whatever the peers, the network and the files do, native calls behave as
\* HttpCall promises: the code a call returns says what its output holds.
THEOREM CallsKeepTheirPromise == Spec => ImplementsHttpCall
  <1>1. Init => AnswerInv
    BY DEF Init, AnswerInv, Copying
  <1>2. Spec => []RefInv
    BY <1>1, AnswerStep, Invariant, PTL DEF Spec, RefInv
  <1>3. Init => Call!Init
    BY CallFacts DEF Init, Call!Init, Call!NoOutcome
  <1> QED
    BY <1>2, <1>3, StepRefines, PTL DEF Spec, ImplementsHttpCall, Call!Spec

=============================================================================
