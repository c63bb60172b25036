------------------------------ MODULE FileIOProofs ------------------------------
(***************************************************************************)
(* The answers of ReadConfig and what is left in the files, for any number *)
(* of files and calls and queues of any length.                            *)
(***************************************************************************)
EXTENDS FileIO, SequenceTheorems, TLAPS

LEMMA PushType ==
  ASSUME NEW S, NEW q \in Seq(S), NEW x \in S
  PROVE  Push(q, x) \in Seq(S)
  BY DEF Push

LEMMA PopType ==
  ASSUME NEW S, NEW q \in Seq(S), q # <<>>
  PROVE  Head(q) \in S /\ Tail(q) \in Seq(S)
  OBVIOUS

(* The logger's variables keep their types, whoever logs.                  *)
LEMMA LogStep ==
  ASSUME LogTypeOK, LogMessage \/ LogNext \/ UNCHANGED logVars
  PROVE  LogTypeOK'
  <1> USE DEF LogTypeOK
  <1>1. CASE LogMessage
    BY <1>1 DEF LogMessage
  <1>2. CASE PrintHead /\ UNCHANGED <<logged, unheard, logging, logger, printer>>
    BY <1>2, PopType DEF PrintHead
  <1>3. CASE UNCHANGED <<logQueue, printed, logged, unheard, logging, logger>> /\ printer' \in {"drain", "done"}
    BY <1>3
  <1>4. CASE StopLogging \/ JoinPrinter \/ UNCHANGED logVars
    BY <1>4 DEF StopLogging, JoinPrinter, logVars
  <1> QED BY <1>1, <1>2, <1>3, <1>4 DEF LogNext, ProcessMessages, PopMessage, Drain

(* A change of a file keeps the types of the files and of the record.      *)
LEMMA ChangeType ==
  ASSUME TypeOK, NEW p \in Paths, NEW c \in Contents, ChangeFile(p, c)
  PROVE  file' \in [Paths -> Contents] /\ seen' \subseteq Contents
  BY DEF TypeOK, ChangeFile

LEMMA WriteTextType ==
  ASSUME TypeOK, NEW p \in Paths, NEW v \in Nat, WriteText(p, v)
  PROVE  file' \in [Paths -> Contents] /\ seen' \subseteq Contents
  <1>1. v \in Contents /\ Torn \in Contents
    BY DEF Contents
  <1> QED BY <1>1, ChangeType DEF WriteText

-----------------------------------------------------------------------------
LEMMA InitType == Init => TypeOK
  <1> SUFFICES ASSUME Init PROVE TypeOK
    OBVIOUS
  <1>1. LogTypeOK
    BY DEF Init, LogInit, LogTypeOK
  <1>2. file \in [Paths -> Contents] /\ newest \in [Paths -> Nat \cup {Missing}]
    BY DEF Init, Contents
  <1> QED BY <1>1, <1>2 DEF Init, TypeOK, Polling, At, Answers

LEMMA StepType == TypeOK /\ [Next]_vars => TypeOK'
  <1> SUFFICES ASSUME TypeOK, [Next]_vars PROVE TypeOK'
    OBVIOUS
  <1> USE DEF TypeOK, Call, At, Polling
  <1>1. ASSUME NEW p \in Paths, ReadConfig(p) PROVE TypeOK'
    <2>1. readRequests' \in Seq(Paths) /\ seen' \subseteq Contents
      BY <1>1, PushType DEF ReadConfig
    <2> QED BY <1>1, <2>1, LogStep DEF ReadConfig
  <1>2. ASSUME NEW p \in Paths, ReadConfigSync(p) PROVE TypeOK'
    <2>1. Readable(file[p]) => file[p] \in Answers
      BY DEF Readable, Contents, Answers
    <2>2. LogTypeOK'
      BY <1>2, LogStep DEF ReadConfigSync
    <2> QED BY <1>2, <2>1, <2>2 DEF ReadConfigSync
  <1>3. ASSUME NEW p \in Paths, WriteConfig(p) PROVE TypeOK'
    <2>1. calls + 1 \in Nat /\ [path |-> p, text |-> calls + 1] \in [path : Paths, text : Nat]
      OBVIOUS
    <2>2. writeRequests' \in Seq([path : Paths, text : Nat])
      BY <1>3, <2>1, PushType DEF WriteConfig
    <2>3. newest' \in [Paths -> Nat \cup {Missing}]
      BY <1>3, <2>1 DEF WriteConfig
    <2> QED BY <1>3, <2>1, <2>2, <2>3, LogStep DEF WriteConfig
  <1>4. ASSUME NEW p \in Paths, WriteConfigSync(p) PROVE TypeOK'
    <2>1. LogTypeOK'
      BY <1>4, LogStep DEF WriteConfigSync
    <2>2. file' \in [Paths -> Contents] /\ seen' \subseteq Contents
      BY <1>4, ChangeType DEF WriteConfigSync, OpenForWriting, Contents
    <2>3. newest' \in [Paths -> Nat \cup {Missing}] /\ mixed' \subseteq Paths
      BY <1>4 DEF WriteConfigSync
    <2> QED BY <1>4, <2>1, <2>2, <2>3 DEF WriteConfigSync
  <1>5. CASE PopFileReadResponse
    <2>1. answer' \in Answers /\ readResponses' \in Seq(Answers)
      BY <1>5, PopType DEF PopFileReadResponse
    <2> QED BY <1>5, <2>1, LogStep DEF PopFileReadResponse
  <1>6. CASE FinishWriteSync
    <2>1. file' \in [Paths -> Contents] /\ seen' \subseteq Contents
      BY <1>6, WriteTextType DEF FinishWriteSync
    <2> QED BY <1>6, <2>1, LogStep DEF FinishWriteSync
  <1>7. CASE Destroy
    BY <1>7, LogStep DEF Destroy
  <1>17. CASE Join
    BY <1>17, LogStep DEF Join
  <1>8. CASE EndReading \/ EndWriting
    BY <1>8, LogStep DEF EndReading, EndWriting
  <1>9. CASE PopReadRequest
    <2>1. Head(readRequests) \in Paths /\ readRequests' \in Seq(Paths)
      BY <1>9, PopType DEF PopReadRequest
    <2> QED BY <1>9, <2>1, LogStep DEF PopReadRequest, Answers
  <1>10. CASE ReadFile
    <2>1. Parsed(file[reader.path]) \subseteq Answers
      BY <1>10 DEF ReadFile, Parsed, Readable, Contents, Answers
    <2>2. LogTypeOK'
      BY <1>10, LogStep DEF ReadFile
    <2> QED BY <1>10, <2>1, <2>2 DEF ReadFile
  <1>11. CASE Respond
    <2>1. readResponses' \in Seq(Answers)
      BY <1>11, PushType DEF Respond
    <2> QED BY <1>11, <2>1, LogStep DEF Respond
  <1>12. CASE PopWriteRequest
    <2>1. Head(writeRequests) \in [path : Paths, text : Nat]
          /\ writeRequests' \in Seq([path : Paths, text : Nat])
      BY <1>12, PopType DEF PopWriteRequest
    <2> QED BY <1>12, <2>1, LogStep DEF PopWriteRequest
  <1>13. CASE OpenFile
    <2>1. LogTypeOK'
      BY <1>13, LogStep DEF OpenFile
    <2>2. file' \in [Paths -> Contents] /\ seen' \subseteq Contents
      BY <1>13, ChangeType DEF OpenFile, OpenForWriting, FileUnchanged, Contents
    <2>3. writer' \in [at : {"open", "write"}, path : Paths, text : Nat]
                     \cup [at : {"poll", "done"}, path : {NoPath}, text : {0}]
      BY <1>13 DEF OpenFile
    <2> QED BY <1>13, <2>1, <2>2, <2>3 DEF OpenFile
  <1>14. CASE WriteFile
    <2>1. file' \in [Paths -> Contents] /\ seen' \subseteq Contents
      BY <1>14, WriteTextType DEF WriteFile
    <2> QED BY <1>14, <2>1, LogStep DEF WriteFile
  <1>15. CASE LogNext /\ UNCHANGED ioVars
    BY <1>15, LogStep DEF ioVars
  <1>16. CASE UNCHANGED vars
    BY <1>16, LogStep DEF vars, ioVars
  <1> QED BY <1>1, <1>2, <1>3, <1>4, <1>5, <1>6, <1>7, <1>8, <1>9, <1>10, <1>11, <1>12, <1>13,
             <1>14, <1>15, <1>16, <1>17
          DEF Next, Caller, ProcessFileReadRequests, ProcessFileWriteRequests

(* Every variable stays what it is said to be.                             *)
THEOREM TypeCorrect == Spec => []TypeOK
  BY InitType, StepType, PTL DEF Spec

-----------------------------------------------------------------------------
(* A call of ReadConfig has one request, one path in hand or one response, *)
(* and a thread that makes no such call has none.                          *)
NoneInHand == reader.at \in {"poll", "done"}
Asked == readRequests = <<caller.path>> /\ NoneInHand /\ readResponses = <<>>
InHand ==
  /\ readRequests = <<>> /\ readResponses = <<>>
  /\ ~NoneInHand /\ reader.path = caller.path
  /\ reader.at = "respond" => Truthful(reader.text)
Responded ==
  /\ readRequests = <<>> /\ NoneInHand
  /\ readResponses = <<Head(readResponses)>> /\ Truthful(Head(readResponses))
ReadInv ==
  /\ caller.at = "reading" => file[caller.path] \in seen /\ (Asked \/ InHand \/ Responded)
  /\ caller.at # "reading" => readRequests = <<>> /\ NoneInHand /\ readResponses = <<>>

(* The record only grows while the reading goes on, and never lacks the    *)
(* present content.                                                        *)
LEMMA RecordGrows ==
  ASSUME TypeOK, ReadInv, NEW p, NEW c, ChangeFile(p, c), UNCHANGED caller
  PROVE  caller.at = "reading" => seen \subseteq seen' /\ file'[caller.path] \in seen'
  BY DEF TypeOK, ReadInv, ChangeFile

LEMMA TextRecordGrows ==
  ASSUME TypeOK, ReadInv, NEW p, NEW v, WriteText(p, v), UNCHANGED caller
  PROVE  caller.at = "reading" => seen \subseteq seen' /\ file'[caller.path] \in seen'
  BY RecordGrows DEF WriteText

(* A step of the caller that is no read, or of another thread.             *)
LEMMA ReadUndisturbed ==
  ASSUME ReadInv, UNCHANGED <<readRequests, readResponses, reader>>,
         \/ caller.at # "reading" /\ caller'.at # "reading"
         \/ /\ UNCHANGED caller
            /\ caller.at = "reading" => seen \subseteq seen' /\ file'[caller.path] \in seen'
  PROVE  ReadInv'
  BY DEF ReadInv, Asked, InHand, Responded, NoneInHand, Truthful

LEMMA StepRead == TypeOK /\ ReadInv /\ [Next]_vars => ReadInv'
  <1> SUFFICES ASSUME TypeOK, ReadInv, [Next]_vars PROVE ReadInv'
    OBVIOUS
  <1>1. ASSUME NEW p \in Paths, ReadConfig(p) PROVE ReadInv'
    <2>1. readRequests = <<>> /\ Len(<<>>) < QueueCap /\ Append(<<>>, p) = <<p>>
      BY <1>1, FileIOAssumption DEF ReadConfig, Call, ReadInv
    <2>2. /\ readRequests' = <<p>> /\ caller' = [at |-> "reading", path |-> p]
          /\ seen' = {file[p]} /\ UNCHANGED <<file, reader, readResponses>>
      BY <1>1, <2>1 DEF ReadConfig, Call, Push
    <2>3. NoneInHand /\ readResponses = <<>>
      BY <1>1 DEF ReadConfig, Call, ReadInv
    <2> QED BY <2>2, <2>3 DEF ReadInv, Asked, NoneInHand
  <1>2. ASSUME NEW p \in Paths, ReadConfigSync(p) \/ WriteConfig(p) \/ WriteConfigSync(p)
        PROVE  ReadInv'
    <2>1. /\ caller.at # "reading" /\ caller'.at # "reading"
          /\ UNCHANGED <<readRequests, readResponses, reader>>
      BY <1>2 DEF ReadConfigSync, WriteConfig, WriteConfigSync, Call
    <2> QED BY <2>1, ReadUndisturbed
  <1>3. CASE PopFileReadResponse
    <2>1. Responded
      BY <1>3 DEF PopFileReadResponse, ReadInv, Asked, InHand
    <2>2. Tail(readResponses) = <<>>
      <3>1. PICK x : readResponses = <<x>>
        BY <2>1 DEF Responded
      <3> QED BY <3>1
    <2> QED BY <1>3, <2>1, <2>2 DEF PopFileReadResponse, ReadInv, Responded, NoneInHand, At
  <1>4. CASE FinishWriteSync \/ Destroy \/ Join
    <2>1. /\ caller.at # "reading" /\ caller'.at # "reading"
          /\ UNCHANGED <<readRequests, readResponses, reader>>
      BY <1>4 DEF FinishWriteSync, Destroy, Join, At
    <2> QED BY <2>1, ReadUndisturbed
  <1>5. CASE EndReading
    BY <1>5 DEF EndReading, ReadInv, Asked, InHand, Responded, NoneInHand, Polling, Truthful
  <1>6. CASE PopReadRequest
    <2>1. caller.at = "reading" /\ Asked /\ file[caller.path] \in seen
      BY <1>6 DEF PopReadRequest, ReadInv, InHand, Responded
    <2>2. Head(readRequests) = caller.path /\ Tail(readRequests) = <<>>
      BY <2>1 DEF Asked
    <2> QED BY <1>6, <2>1, <2>2 DEF PopReadRequest, ReadInv, Asked, InHand, NoneInHand
  <1>7. CASE ReadFile
    <2>1. caller.at = "reading" /\ InHand /\ file[caller.path] \in seen
      BY <1>7 DEF ReadFile, ReadInv, Asked, Responded, NoneInHand
    <2>2. reader'.text \in Parsed(file[caller.path]) /\ reader'.at = "respond"
          /\ reader'.path = caller.path
      BY <1>7, <2>1 DEF ReadFile, InHand
    <2>3. Truthful(reader'.text)
      BY <2>1, <2>2 DEF Truthful, Parsed
    <2>4. UNCHANGED <<seen, file, caller, readRequests, readResponses>>
      BY <1>7 DEF ReadFile
    <2> QED BY <2>1, <2>2, <2>3, <2>4 DEF ReadInv, InHand, NoneInHand, Truthful
  <1>8. CASE Respond
    <2>1. caller.at = "reading" /\ InHand /\ file[caller.path] \in seen
      BY <1>8 DEF Respond, ReadInv, Asked, Responded, NoneInHand
    <2>2. readResponses' = <<reader.text>> /\ Truthful(reader.text)
      <3>1. readResponses = <<>> /\ Len(<<>>) < QueueCap /\ Append(<<>>, reader.text) = <<reader.text>>
        BY <2>1, FileIOAssumption DEF InHand
      <3> QED BY <1>8, <2>1, <3>1 DEF Respond, Push, InHand
    <2>3. Head(readResponses') = reader.text
      BY <2>2
    <2>4. UNCHANGED <<seen, file, caller, readRequests>> /\ reader'.at \in {"poll", "done"}
      BY <1>8 DEF Respond, Polling
    <2> QED BY <2>1, <2>2, <2>3, <2>4 DEF ReadInv, InHand, Responded, NoneInHand, Truthful
  <1>9. CASE EndWriting \/ PopWriteRequest
    BY <1>9, ReadUndisturbed DEF EndWriting, PopWriteRequest, ReadInv
  <1>10. CASE OpenFile
    BY <1>10, RecordGrows, ReadUndisturbed DEF OpenFile, OpenForWriting, FileUnchanged, ReadInv
  <1>11. CASE WriteFile
    BY <1>11, TextRecordGrows, ReadUndisturbed DEF WriteFile
  <1>12. CASE LogNext /\ UNCHANGED ioVars
    BY <1>12, ReadUndisturbed DEF ioVars, ReadInv
  <1>13. CASE UNCHANGED vars
    BY <1>13, ReadUndisturbed DEF vars, ioVars, ReadInv
  <1> QED BY <1>1, <1>2, <1>3, <1>4, <1>5, <1>6, <1>7, <1>8, <1>9, <1>10, <1>11, <1>12, <1>13
          DEF Next, Caller, ProcessFileReadRequests, ProcessFileWriteRequests

(* The response that ends a call is the one to its own request.            *)
LEMMA StepAnswer ==
  TypeOK /\ ReadInv /\ [Next]_vars
    => [caller.at = "reading" /\ caller'.at = "idle" => Truthful(answer')]_vars
  <1> SUFFICES ASSUME TypeOK, ReadInv, Next, caller.at = "reading", caller'.at = "idle"
               PROVE  Truthful(answer')
    OBVIOUS
  <1>1. PopFileReadResponse
    BY DEF Next, Caller, ProcessFileReadRequests, ProcessFileWriteRequests, ReadConfig,
           ReadConfigSync, WriteConfig, WriteConfigSync, Call, FinishWriteSync, Destroy, Join,
           EndReading, PopReadRequest, ReadFile, Respond, EndWriting, PopWriteRequest,
           OpenFile, WriteFile, ioVars
  <1>2. Responded
    BY <1>1 DEF PopFileReadResponse, ReadInv, Asked, InHand
  <1> QED BY <1>1, <1>2 DEF PopFileReadResponse, Responded, TypeOK

(* ReadConfig returns what the file held during the call.                  *)
THEOREM ReadsAreCurrent == Spec => ReadIsCurrent
  <1>1. Init => ReadInv
    BY DEF Init, At, Polling, ReadInv, NoneInHand
  <1> QED BY <1>1, InitType, StepType, StepRead, StepAnswer, PTL DEF Spec, ReadIsCurrent

-----------------------------------------------------------------------------
(* NewestStays of one path that has had no write on the spot beside a      *)
(* queued one: the last of the writes on their way to the file, or the     *)
(* file if there are none, has the newest text, and a file is torn just    *)
(* while one thread writes to it.                                          *)
Queued(p) == \E i \in DOMAIN writeRequests : writeRequests[i].path = p
Last(p, i) ==
  /\ writeRequests[i].path = p
  /\ \A j \in DOMAIN writeRequests : j > i => writeRequests[j].path # p
Taken(p) == writer.at \in {"open", "write"} /\ writer.path = p
OnTheSpot(p) == caller.at = "writing" /\ caller.path = p
NewestOf(p) ==
  /\ \A i \in DOMAIN writeRequests : Last(p, i) => writeRequests[i].text = newest[p]
  /\ Taken(p) /\ ~Queued(p) => writer.text = newest[p]
  /\ Taken(p) /\ writer.at = "write" => file[p] = Torn
  /\ OnTheSpot(p) => ~Taken(p) /\ ~Queued(p) /\ file[p] = Torn /\ newest[p] = calls
  /\ ~Taken(p) /\ ~Queued(p) /\ ~OnTheSpot(p) => file[p] = newest[p]
NewestInv == \A p \in Paths \ ReadOnly : p \notin mixed => NewestOf(p)

LEMMA PushedWrite ==
  ASSUME TypeOK, NEW p \in Paths, NEW q \in Paths, NEW t \in Nat,
         writeRequests' = Append(writeRequests, [path |-> q, text |-> t])
  PROVE  /\ Queued(p)' <=> (Queued(p) \/ p = q)
         /\ p # q => \A i \in DOMAIN writeRequests' :
              Last(p, i)' => /\ i \in DOMAIN writeRequests /\ Last(p, i)
                            /\ writeRequests'[i] = writeRequests[i]
         /\ \A i \in DOMAIN writeRequests' : Last(q, i)' => writeRequests'[i].text = t
  <1> DEFINE n == Len(writeRequests)
  <1>1. /\ n \in Nat /\ DOMAIN writeRequests = 1..n /\ DOMAIN writeRequests' = 1..(n + 1)
        /\ writeRequests'[n + 1] = [path |-> q, text |-> t]
        /\ \A i \in 1..n : writeRequests'[i] = writeRequests[i]
    BY DEF TypeOK
  <1> HIDE DEF n
  <1>2. \A i \in 1..(n + 1) : i = n + 1 \/ i \in 1..n
    BY <1>1
  <1>3. 1..n \subseteq 1..(n + 1) /\ n + 1 \in 1..(n + 1) /\ \A i \in 1..n : n + 1 > i
    BY <1>1
  <1> QED BY <1>1, <1>2, <1>3 DEF Queued, Last

LEMMA PoppedWrite ==
  ASSUME TypeOK, NEW p \in Paths, writeRequests # <<>>,
         writeRequests' = Tail(writeRequests)
  PROVE  /\ Queued(p) <=> (Queued(p)' \/ Head(writeRequests).path = p)
         /\ \A i \in DOMAIN writeRequests' :
              Last(p, i)' => /\ i + 1 \in DOMAIN writeRequests /\ Last(p, i + 1)
                            /\ writeRequests'[i] = writeRequests[i + 1]
         /\ Head(writeRequests).path = p /\ ~Queued(p)'
              => /\ 1 \in DOMAIN writeRequests /\ Last(p, 1)
                 /\ Head(writeRequests) = writeRequests[1]
  <1> DEFINE n == Len(writeRequests)
  <1>1. /\ n \in Nat /\ n >= 1 /\ DOMAIN writeRequests = 1..n
        /\ DOMAIN writeRequests' = 1..(n - 1)
        /\ \A i \in 1..(n - 1) : writeRequests'[i] = writeRequests[i + 1]
        /\ Head(writeRequests) = writeRequests[1]
    BY DEF TypeOK
  <1> HIDE DEF n
  <1>2. \A i \in 1..n : i = 1 \/ (i - 1 \in 1..(n - 1) /\ i = (i - 1) + 1)
    BY <1>1
  <1>3. 1 \in 1..n /\ \A i \in 1..(n - 1) : i + 1 \in 1..n
    BY <1>1
  <1>4. Queued(p) <=> (Queued(p)' \/ Head(writeRequests).path = p)
    <2>1. ASSUME NEW i \in 1..n, writeRequests[i].path = p
          PROVE  Queued(p)' \/ Head(writeRequests).path = p
      <3>1. i # 1 => writeRequests'[i - 1] = writeRequests[i] /\ i - 1 \in 1..(n - 1)
        BY <1>1, <1>2
      <3> QED BY <1>1, <2>1, <3>1 DEF Queued
    <2>2. ASSUME NEW i \in 1..(n - 1), writeRequests'[i].path = p
          PROVE  Queued(p)
      BY <1>1, <1>3, <2>2 DEF Queued
    <2> QED BY <1>1, <1>3, <2>1, <2>2 DEF Queued
  <1>5. ASSUME NEW i \in 1..(n - 1), Last(p, i)'
        PROVE  Last(p, i + 1)
    <2>1. ASSUME NEW j \in 1..n, j > i + 1 PROVE writeRequests[j].path # p
      <3>1. j - 1 \in 1..(n - 1) /\ j - 1 > i /\ (j - 1) + 1 = j
        BY <1>1, <2>1
      <3> QED BY <1>1, <1>5, <3>1 DEF Last
    <2> QED BY <1>1, <1>5, <2>1 DEF Last
  <1>6. ASSUME writeRequests[1].path = p, ~Queued(p)' PROVE Last(p, 1)
    <2>1. ASSUME NEW j \in 1..n, j > 1 PROVE writeRequests[j].path # p
      <3>1. j - 1 \in 1..(n - 1) /\ (j - 1) + 1 = j
        BY <1>1, <2>1
      <3> QED BY <1>1, <1>6, <3>1 DEF Queued
    <2> QED BY <1>1, <1>6, <2>1 DEF Last
  <1> QED BY <1>1, <1>3, <1>4, <1>5, <1>6

(* A step that leaves the writes, the writing threads and the file alone.  *)
LEMMA WriteUndisturbed ==
  ASSUME NEW p \in Paths, NewestOf(p), UNCHANGED <<writeRequests, writer, newest>>,
         file'[p] = file[p],
         \/ UNCHANGED <<caller, calls>>
         \/ ~OnTheSpot(p) /\ ~OnTheSpot(p)'
  PROVE  NewestOf(p)'
  BY DEF NewestOf, Last, Queued, Taken, OnTheSpot

(* Writing one file leaves the others as they are.                         *)
LEMMA OtherFile ==
  ASSUME TypeOK, NEW p \in Paths, NEW q, NEW c, ChangeFile(q, c), p # q
  PROVE  file'[p] = file[p]
  BY DEF TypeOK, ChangeFile

(* A text that is written over a file that is torn is there.               *)
LEMMA TextIsThere ==
  ASSUME TypeOK, NEW p \in Paths, NEW v, WriteText(p, v), file[p] = Torn
  PROVE  file'[p] = v
  BY DEF TypeOK, WriteText, ChangeFile

LEMMA StepNewest ==
  ASSUME TypeOK, NEW p \in Paths \ ReadOnly, NewestOf(p), [Next]_vars,
         p \notin mixed'
  PROVE  NewestOf(p)'
  <1> USE DEF At
  <1>1. ASSUME NEW q \in Paths, ReadConfig(q) PROVE NewestOf(p)'
    BY <1>1, WriteUndisturbed DEF ReadConfig, Call, OnTheSpot
  <1>2. ASSUME NEW q \in Paths, ReadConfigSync(q) PROVE NewestOf(p)'
    BY <1>2, WriteUndisturbed DEF ReadConfigSync, Call, OnTheSpot
  <1>3. ASSUME NEW q \in Paths, WriteConfig(q) PROVE NewestOf(p)'
    <2>1. /\ ~OnTheSpot(p) /\ ~OnTheSpot(p)' /\ calls + 1 \in Nat
          /\ UNCHANGED <<file, writer>>
      BY <1>3 DEF WriteConfig, Call, OnTheSpot, TypeOK
    <2>2. CASE Len(writeRequests) < QueueCap
      <3>1. /\ writeRequests' = Append(writeRequests, [path |-> q, text |-> calls + 1])
            /\ newest' = [newest EXCEPT ![q] = calls + 1]
        BY <1>3, <2>2 DEF WriteConfig, Push
      <3>2. newest'[q] = calls + 1 /\ (p # q => newest'[p] = newest[p])
        BY <3>1 DEF TypeOK
      <3>3. CASE p = q
        <4>1. /\ Queued(p)'
              /\ \A i \in DOMAIN writeRequests' : Last(p, i)' => writeRequests'[i].text = calls + 1
          BY <2>1, <3>1, <3>3, PushedWrite
        <4>2. Taken(p)' <=> Taken(p)
          BY <2>1 DEF Taken
        <4> QED BY <2>1, <3>2, <3>3, <4>1, <4>2 DEF NewestOf
      <3>4. CASE p # q
        <4>1. Queued(p)' <=> Queued(p)
          BY <2>1, <3>1, <3>4, PushedWrite
        <4>2. \A i \in DOMAIN writeRequests' :
                Last(p, i)' => /\ i \in DOMAIN writeRequests /\ Last(p, i)
                              /\ writeRequests'[i] = writeRequests[i]
          BY <2>1, <3>1, <3>4, PushedWrite
        <4>3. Taken(p)' <=> Taken(p)
          BY <2>1 DEF Taken
        <4> QED BY <2>1, <3>2, <3>4, <4>1, <4>2, <4>3 DEF NewestOf
      <3> QED BY <3>3, <3>4
    <2>3. CASE ~(Len(writeRequests) < QueueCap)
      BY <1>3, <2>1, <2>3, WriteUndisturbed DEF WriteConfig, Push
    <2> QED BY <2>2, <2>3
  <1>4. ASSUME NEW q \in Paths, WriteConfigSync(q) PROVE NewestOf(p)'
    <2>1. ~OnTheSpot(p) /\ UNCHANGED <<writeRequests, writer>>
      BY <1>4 DEF WriteConfigSync, Call, OnTheSpot
    <2>2. CASE q \in ReadOnly \/ p # q
      <3>1. UNCHANGED newest \/ newest' = [newest EXCEPT ![q] = calls + 1]
        BY <1>4 DEF WriteConfigSync
      <3>2. newest'[p] = newest[p] /\ file'[p] = file[p] /\ ~OnTheSpot(p)'
        BY <1>4, <2>1, <2>2, <3>1, OtherFile DEF WriteConfigSync, Call, OnTheSpot, OpenForWriting, TypeOK
      <3> QED BY <2>1, <3>2 DEF NewestOf, Last, Queued, Taken
    <2>3. CASE q \notin ReadOnly /\ p = q
      <3>1. ~Pending(p)
        BY <1>4, <2>3 DEF WriteConfigSync
      <3>2. ~Taken(p) /\ ~Queued(p)
        BY <3>1 DEF Pending, Taken, Queued
      <3>3. newest'[p] = calls' /\ file'[p] = Torn /\ OnTheSpot(p)'
        BY <1>4, <2>3 DEF WriteConfigSync, Call, OnTheSpot, OpenForWriting, ChangeFile, TypeOK
      <3> QED BY <2>1, <3>2, <3>3 DEF NewestOf, Last, Queued, Taken
    <2> QED BY <2>2, <2>3
  <1>5. CASE PopFileReadResponse
    BY <1>5, WriteUndisturbed DEF PopFileReadResponse, OnTheSpot
  <1>6. CASE FinishWriteSync
    <2>1. UNCHANGED <<writeRequests, writer, newest, calls>> /\ ~OnTheSpot(p)'
      BY <1>6 DEF FinishWriteSync, OnTheSpot
    <2>2. CASE OnTheSpot(p)
      <3>1. file'[p] = calls
        BY <1>6, <2>2, TextIsThere DEF FinishWriteSync, OnTheSpot, NewestOf
      <3> QED BY <2>1, <2>2, <3>1 DEF NewestOf, Last, Queued, Taken
    <2>3. CASE ~OnTheSpot(p)
      <3>1. file'[p] = file[p]
        BY <1>6, <2>3, OtherFile DEF FinishWriteSync, OnTheSpot, WriteText
      <3> QED BY <2>1, <2>3, <3>1, WriteUndisturbed
    <2> QED BY <2>2, <2>3
  <1>7. CASE Destroy
    BY <1>7, WriteUndisturbed DEF Destroy, OnTheSpot
  <1>8. CASE Join
    BY <1>8, WriteUndisturbed DEF Join, OnTheSpot
  <1>9. CASE EndReading \/ PopReadRequest \/ ReadFile \/ Respond
    BY <1>9, WriteUndisturbed DEF EndReading, PopReadRequest, ReadFile, Respond
  <1>10. CASE EndWriting
    BY <1>10 DEF EndWriting, Polling, NewestOf, Last, Queued, Taken, OnTheSpot
  <1>11. CASE PopWriteRequest
    <2>1. /\ writeRequests # <<>> /\ writeRequests' = Tail(writeRequests)
          /\ writer.at = "poll" /\ writer'.at = "open"
          /\ writer'.path = Head(writeRequests).path /\ writer'.text = Head(writeRequests).text
          /\ UNCHANGED <<file, newest, caller, calls>>
      BY <1>11 DEF PopWriteRequest
    <2>2. ~Taken(p) /\ (Taken(p)' <=> Head(writeRequests).path = p)
      BY <2>1 DEF Taken
    <2>3. Queued(p) <=> (Queued(p)' \/ Taken(p)')
      BY <2>1, <2>2, PoppedWrite
    <2>4. \A i \in DOMAIN writeRequests' :
            Last(p, i)' => /\ i + 1 \in DOMAIN writeRequests /\ Last(p, i + 1)
                          /\ writeRequests'[i] = writeRequests[i + 1]
      BY <2>1, PoppedWrite
    <2>5. Taken(p)' /\ ~Queued(p)' => writer'.text = newest[p]
      BY <2>1, <2>2, PoppedWrite DEF NewestOf
    <2>6. OnTheSpot(p)' <=> OnTheSpot(p)
      BY <2>1 DEF OnTheSpot
    <2> QED BY <2>1, <2>2, <2>3, <2>4, <2>5, <2>6 DEF NewestOf
  <1>12. CASE OpenFile
    <2>1. UNCHANGED <<writeRequests, newest, caller, calls>> /\ writer.at = "open"
      BY <1>12 DEF OpenFile
    <2>2. CASE writer.path # p
      <3>1. file'[p] = file[p]
        BY <1>12, <2>2, OtherFile DEF OpenFile, FileUnchanged, OpenForWriting
      <3>2. ~Taken(p) /\ ~Taken(p)'
        BY <1>12, <2>2 DEF OpenFile, Taken, Polling, TypeOK
      <3> QED BY <2>1, <3>1, <3>2 DEF NewestOf, Last, Queued, OnTheSpot
    <2>3. CASE writer.path = p
      <3>1. /\ file'[p] = Torn /\ writer'.at = "write" /\ writer'.path = p
            /\ writer'.text = writer.text
        BY <1>12, <2>3 DEF OpenFile, OpenForWriting, ChangeFile, TypeOK
      <3>2. Taken(p) /\ Taken(p)' /\ ~OnTheSpot(p)
        BY <2>1, <2>3, <3>1 DEF Taken, NewestOf
      <3> QED BY <2>1, <3>1, <3>2 DEF NewestOf, Last, Queued, OnTheSpot
    <2> QED BY <2>2, <2>3
  <1>13. CASE WriteFile
    <2>1. /\ UNCHANGED <<writeRequests, newest, caller, calls>> /\ writer.at = "write"
          /\ writer'.at \in {"poll", "done"}
      BY <1>13 DEF WriteFile, Polling
    <2>2. CASE writer.path # p
      <3>1. file'[p] = file[p]
        BY <1>13, <2>2, OtherFile DEF WriteFile, WriteText
      <3>2. ~Taken(p) /\ ~Taken(p)'
        BY <2>1, <2>2 DEF Taken
      <3> QED BY <2>1, <3>1, <3>2 DEF NewestOf, Last, Queued, OnTheSpot
    <2>3. CASE writer.path = p
      <3>1. Taken(p) /\ ~Taken(p)' /\ ~OnTheSpot(p) /\ file[p] = Torn
        BY <2>1, <2>3 DEF Taken, NewestOf
      <3>2. file'[p] = writer.text
        BY <1>13, <2>3, <3>1, TextIsThere DEF WriteFile
      <3> QED BY <2>1, <3>1, <3>2 DEF NewestOf, Last, Queued, OnTheSpot
    <2> QED BY <2>2, <2>3
  <1>14. CASE LogNext /\ UNCHANGED ioVars
    BY <1>14, WriteUndisturbed DEF ioVars
  <1>15. CASE UNCHANGED vars
    BY <1>15, WriteUndisturbed DEF vars, ioVars
  <1> QED BY <1>1, <1>2, <1>3, <1>4, <1>5, <1>6, <1>7, <1>8, <1>9, <1>10, <1>11, <1>12, <1>13,
             <1>14, <1>15
          DEF Next, Caller, ProcessFileReadRequests, ProcessFileWriteRequests

(* A path's writes on the spot and queued ones may have met for good.      *)
LEMMA MixedForGood == [Next]_vars => mixed \subseteq mixed'
  BY DEF Next, vars, ioVars, Caller, ProcessFileReadRequests, ProcessFileWriteRequests,
         ReadConfig, ReadConfigSync, WriteConfig, WriteConfigSync, PopFileReadResponse,
         FinishWriteSync, Destroy, Join, EndReading, PopReadRequest, ReadFile, Respond,
         EndWriting, PopWriteRequest, OpenFile, WriteFile

(* A file holds the newest text that was written to it, and is whole, once *)
(* its writes are through.                                                 *)
THEOREM NewestStaysHolds == Spec => []NewestStays
  <1>1. Init => NewestInv
    BY DEF Init, At, Polling, NewestInv, NewestOf, Last, Queued, Taken, OnTheSpot
  <1>2. TypeOK /\ NewestInv /\ [Next]_vars => NewestInv'
    BY StepNewest, MixedForGood DEF NewestInv
  <1>3. NewestInv => NewestStays
    BY DEF NewestInv, NewestOf, NewestStays, Pending, Taken, Queued, OnTheSpot
  <1> QED BY <1>1, <1>2, <1>3, InitType, StepType, PTL DEF Spec

-----------------------------------------------------------------------------
(* Entries are printed in the order they were logged, each once and none   *)
(* left out: what was printed and what is queued, one after the other, are *)
(* all entries in order. Until the printing thread has ended every entry   *)
(* is heard; after that exactly those not printed are not.                 *)
Numbers(n) == [i \in 1..n |-> i]
EntriesInOrder ==
  /\ printed \o logQueue = Numbers(logged)
  /\ unheard = IF printer = "done" THEN (Len(printed) + 1)..logged ELSE {}

LEMMA NextNumber ==
  ASSUME NEW n \in Nat
  PROVE  /\ Numbers(n) \in Seq(Nat) /\ Len(Numbers(n)) = n
         /\ Append(Numbers(n), n + 1) = Numbers(n + 1)
  <1> DEFINE s == Append(Numbers(n), n + 1)
             t == Numbers(n + 1)
  <1>1. Numbers(n) \in Seq(Nat) /\ Len(Numbers(n)) = n
    BY DEF Numbers
  <1>2. /\ s \in Seq(Nat) /\ Len(s) = n + 1 /\ s[n + 1] = n + 1
        /\ \A i \in 1..n : s[i] = Numbers(n)[i]
    BY <1>1
  <1>3. t \in Seq(Nat) /\ Len(t) = n + 1 /\ \A i \in 1..(n + 1) : t[i] = i
    BY DEF Numbers
  <1>4. \A i \in 1..n : Numbers(n)[i] = i
    BY DEF Numbers
  <1> HIDE DEF s, t
  <1>5. s = t
    <2>1. \A i \in 1..Len(s) : s[i] = t[i]
      BY <1>2, <1>3, <1>4
    <2> QED BY <1>2, <1>3, <2>1, SeqEqual
  <1> QED BY <1>1, <1>5 DEF s, t

(* What a push at the end and a print at the front do to the whole.        *)
LEMMA PushedAndPrinted ==
  ASSUME NEW S, NEW s \in Seq(S), NEW t \in Seq(S)
  PROVE  /\ \A e \in S : s \o Append(t, e) = Append(s \o t, e)
         /\ t # <<>> => Append(s, Head(t)) \o Tail(t) = s \o t
         /\ Len(s \o t) = Len(s) + Len(t) /\ s \o t \in Seq(S)
  <1>1. ASSUME NEW e \in S PROVE s \o Append(t, e) = Append(s \o t, e)
    <2>1. <<e>> \in Seq(S) /\ s \o t \in Seq(S)
      OBVIOUS
    <2>2. s \o Append(t, e) = s \o (t \o <<e>>)
      BY AppendIsConcat
    <2>3. s \o (t \o <<e>>) = (s \o t) \o <<e>>
      BY <2>1, ConcatAssociative
    <2> QED BY <2>1, <2>2, <2>3, AppendIsConcat
  <1>2. ASSUME t # <<>> PROVE Append(s, Head(t)) \o Tail(t) = s \o t
    <2>1. Head(t) \in S /\ Tail(t) \in Seq(S) /\ <<Head(t)>> \in Seq(S)
      BY <1>2, PopType
    <2>2. <<Head(t)>> \o Tail(t) = t
      BY <1>2
    <2>3. Append(s, Head(t)) \o Tail(t) = (s \o <<Head(t)>>) \o Tail(t)
      BY <2>1, AppendIsConcat
    <2>4. (s \o <<Head(t)>>) \o Tail(t) = s \o (<<Head(t)>> \o Tail(t))
      BY <2>1, ConcatAssociative
    <2> QED BY <2>2, <2>3, <2>4
  <1>3. Len(s \o t) = Len(s) + Len(t) /\ s \o t \in Seq(S)
    OBVIOUS
  <1> QED BY <1>1, <1>2, <1>3

LEMMA StepEntries ==
  ASSUME LogTypeOK, EntriesInOrder, LogMessage \/ LogNext \/ UNCHANGED logVars
  PROVE  EntriesInOrder'
  <1>1. /\ printed \in Seq(Nat) /\ logQueue \in Seq(Nat) /\ logged \in Nat
        /\ Len(printed) \in Nat /\ Len(logQueue) \in Nat
    BY DEF LogTypeOK
  <1>2. logged = Len(printed) + Len(logQueue)
    <2>1. Len(printed \o logQueue) = Len(printed) + Len(logQueue)
      BY <1>1, PushedAndPrinted
    <2>2. Len(Numbers(logged)) = logged
      BY <1>1, NextNumber
    <2> QED BY <2>1, <2>2 DEF EntriesInOrder
  <1>3. CASE LogMessage
    <2>1. logQueue' = Append(logQueue, logged + 1) /\ logged' = logged + 1
          /\ unheard' = (IF printer = "done" THEN unheard \cup {logged + 1} ELSE unheard)
          /\ UNCHANGED <<printed, printer>>
      BY <1>3 DEF LogMessage
    <2>2. printed' \o logQueue' = Numbers(logged')
      <3>1. printed \o Append(logQueue, logged + 1) = Append(printed \o logQueue, logged + 1)
        BY <1>1, PushedAndPrinted
      <3> QED BY <1>1, <2>1, <3>1, NextNumber DEF EntriesInOrder
    <2>3. ((Len(printed) + 1)..logged) \cup {logged + 1} = (Len(printed) + 1)..(logged + 1)
      BY <1>1, <1>2
    <2> QED BY <2>1, <2>2, <2>3 DEF EntriesInOrder
  <1>4. CASE PrintHead /\ printer # "done" /\ UNCHANGED <<logged, unheard, printer>>
    <2>1. printed' \o logQueue' = printed \o logQueue
      BY <1>1, <1>4, PushedAndPrinted DEF PrintHead
    <2> QED BY <1>4, <2>1 DEF EntriesInOrder
  <1>5. CASE /\ logQueue = <<>> /\ printer # "done" /\ printer' \in {"drain", "done"}
             /\ UNCHANGED <<logQueue, printed, logged, unheard>>
    <2>1. (Len(printed) + 1)..logged = {}
      BY <1>1, <1>2, <1>5
    <2> QED BY <1>5, <2>1 DEF EntriesInOrder
  <1>6. CASE StopLogging \/ JoinPrinter \/ UNCHANGED logVars
    BY <1>6 DEF StopLogging, JoinPrinter, logVars, EntriesInOrder
  <1> QED BY <1>3, <1>4, <1>5, <1>6 DEF LogNext, ProcessMessages, PopMessage, Drain

(* A step of FileIO logs one entry, is the logger's own, or leaves the log *)
(* alone.                                                                  *)
LEMMA WhoLogs == [Next]_vars => LogMessage \/ LogNext \/ UNCHANGED logVars
  BY DEF Next, vars, Caller, ProcessFileReadRequests, ProcessFileWriteRequests,
         ReadConfig, ReadConfigSync, WriteConfig, WriteConfigSync, PopFileReadResponse,
         FinishWriteSync, Destroy, Join, EndReading, PopReadRequest, ReadFile, Respond,
         EndWriting, PopWriteRequest, OpenFile, WriteFile

(* No entry is lost, printed twice or overtaken while threads log and the  *)
(* singleton is destroyed: the drain leaves nothing that was queued.       *)
THEOREM EntriesAreInOrder == Spec => []EntriesInOrder
  <1>1. Init => EntriesInOrder
    <2> SUFFICES ASSUME Init PROVE EntriesInOrder
      OBVIOUS
    <2>1. printed = <<>> /\ logQueue = <<>> /\ logged = 0 /\ unheard = {} /\ printer = "loop"
      BY DEF Init, LogInit
    <2>2. <<>> \o <<>> = Numbers(0)
      <3>1. Numbers(0) \in Seq(Nat) /\ Len(Numbers(0)) = 0
        BY NextNumber
      <3>2. Numbers(0) = <<>>
        BY <3>1
      <3> QED BY <3>2
    <2> QED BY <2>1, <2>2 DEF EntriesInOrder
  <1>2. TypeOK /\ EntriesInOrder /\ [Next]_vars => EntriesInOrder'
    BY WhoLogs, StepEntries DEF TypeOK
  <1> QED BY <1>1, <1>2, InitType, StepType, PTL DEF Spec
=============================================================================
