--------------------------------- MODULE FileIO ---------------------------------
(***************************************************************************)
(* ConfigManager over FileIO and FileIOMessaging: reads and writes of      *)
(* configuration files are requests to a reading and a writing thread, a   *)
(* read waits for its response, a write does not, and either may also be   *)
(* done on the spot, beside what the threads are doing to the same file.   *)
(* Errors are logged, the entries about one error counting as one.         *)
(*                                                                         *)
(* One thread makes the calls: the queues between it and the two threads   *)
(* allow one producer and one consumer. A write is known by its number.    *)
(***************************************************************************)
EXTENDS Logger, Integers

CONSTANTS
  Paths,    \* the configuration files
  ReadOnly, \* those that cannot be opened for writing
  QueueCap, \* capacity of the request and response queues, 1024 in the code
  MaxCalls  \* bound on the calls made

Torn == -1     \* a file whose text is not all there, or is two in one; a part of it
Missing == -2  \* no file
Null == -3     \* the JSON null ReadConfig returns for a file it could not read
Empty == -4    \* the empty object ReadConfigSync returns for such a file
NoPath == "none"

ASSUME FileIOAssumption ==
  /\ ReadOnly \subseteq Paths /\ NoPath \notin Paths
  /\ QueueCap \in Nat \ {0} /\ MaxCalls \in Nat

VARIABLES
  file,          \* what each file holds
  readRequests, readResponses, writeRequests, \* FileIOMessaging's queues
  running,       \* running_ of FileIOMessaging
  reader,        \* readThread_: where it is, the path in hand, what it has read
  writer,        \* writeThread_: where it is, the path and the text in hand
  caller,        \* the calling thread: where it is and the path of its call
  answer,        \* what its last read returned
  calls,         \* calls made; the text of a write is the number of its call
  newest,        \* history: the last write of each path that was not dropped
  mixed,         \* history: paths with a write on the spot beside a queued one
  seen           \* history: what the file has held since the read under way began

ioVars == <<file, readRequests, readResponses, writeRequests, running, reader, writer,
            caller, answer, calls, newest, mixed, seen>>
vars == <<logVars, ioVars>>

Readable(content) == content \notin {Torn, Missing}

Push(queue, x) == IF Len(queue) < QueueCap THEN Append(queue, x) ELSE queue

(* Every change of a file goes on the record of the read under way.        *)
ChangeFile(p, content) ==
  /\ file' = [file EXCEPT ![p] = content]
  /\ seen' = IF caller.at = "reading" /\ caller.path = p THEN seen \cup {content} ELSE seen
FileUnchanged == UNCHANGED <<file, seen>>

(* Opening for writing truncates. A text written over another that came    *)
(* after the truncation may leave the longer one's rest behind.            *)
OpenForAppending(p) == FileUnchanged
OpenForWriting(p) == ChangeFile(p, Torn)
WriteText(p, v) ==
  \/ ChangeFile(p, v)
  \/ file[p] # Torn /\ ChangeFile(p, Torn)

(* A thread at the end of its loop, which tests running_; one with nothing *)
(* in hand.                                                                *)
Polling(isRunning, nothing) ==
  [at |-> IF isRunning THEN "poll" ELSE "done", path |-> NoPath, text |-> nothing]
At(place) == [at |-> place, path |-> NoPath]

Init ==
  /\ file \in [Paths -> {0, Missing}]
  /\ readRequests = <<>> /\ readResponses = <<>> /\ writeRequests = <<>>
  /\ running = TRUE
  /\ reader = Polling(TRUE, Null) /\ writer = Polling(TRUE, 0) /\ caller = At("idle")
  /\ answer = Null /\ calls = 0 /\ newest = file /\ mixed = {} /\ seen = {}
  /\ LogInit

-----------------------------------------------------------------------------
(* ConfigManager's calls.                                                  *)
Call(p, at) ==
  /\ caller.at = "idle" /\ calls < MaxCalls
  /\ calls' = calls + 1
  /\ caller' = IF at = "idle" THEN caller ELSE [at |-> at, path |-> p]

ReadConfig(p) ==
  /\ Call(p, "reading")
  /\ readRequests' = Push(readRequests, p)
  /\ seen' = {file[p]}
  /\ UNCHANGED <<file, readResponses, writeRequests, running, reader, writer, answer,
                 newest, mixed, logVars>>

PopFileReadResponseOnce ==
  /\ caller.at = "reading"
  /\ answer' = IF readResponses = <<>> THEN Null ELSE Head(readResponses)
  /\ readResponses' = IF readResponses = <<>> THEN <<>> ELSE Tail(readResponses)
  /\ caller' = At("idle")
  /\ seen' = {}
  /\ UNCHANGED <<file, readRequests, writeRequests, running, reader, writer, calls,
                 newest, mixed, logVars>>
PopFileReadResponse ==
  /\ caller.at = "reading" /\ readResponses # <<>>
  /\ answer' = Head(readResponses)
  /\ readResponses' = Tail(readResponses)
  /\ caller' = At("idle")
  /\ seen' = {}
  /\ UNCHANGED <<file, readRequests, writeRequests, running, reader, writer, calls,
                 newest, mixed, logVars>>

ReadConfigSync(p) ==
  /\ Call(p, "idle")
  /\ answer' = IF Readable(file[p]) THEN file[p] ELSE Empty
  /\ IF Readable(file[p]) THEN UNCHANGED logVars ELSE LogMessage
  /\ UNCHANGED <<file, readRequests, readResponses, writeRequests, running, reader,
                 writer, newest, mixed, seen>>

WriteConfig(p) ==
  /\ Call(p, "idle")
  /\ writeRequests' = Push(writeRequests, [path |-> p, text |-> calls + 1])
  /\ newest' = IF Len(writeRequests) < QueueCap THEN [newest EXCEPT ![p] = calls + 1]
                                                ELSE newest
  /\ UNCHANGED <<file, readRequests, readResponses, running, reader, writer, answer,
                 mixed, seen, logVars>>

(* Is a write of p waiting or under way in the writing thread?             *)
Pending(p) ==
  \/ writer.at \in {"open", "write"} /\ writer.path = p
  \/ \E i \in DOMAIN writeRequests : writeRequests[i].path = p

WriteConfigSync(p) ==
  /\ \/ /\ p \in ReadOnly
        /\ Call(p, "idle") /\ LogMessage
        /\ UNCHANGED <<file, newest, mixed, seen>>
     \/ /\ p \notin ReadOnly
        /\ Call(p, "writing") /\ UNCHANGED logVars
        /\ OpenForWriting(p)
        /\ newest' = [newest EXCEPT ![p] = calls + 1]
        /\ mixed' = IF Pending(p) THEN mixed \cup {p} ELSE mixed
  /\ UNCHANGED <<readRequests, readResponses, writeRequests, running, reader, writer, answer>>

FinishWriteSync ==
  /\ caller.at = "writing"
  /\ WriteText(caller.path, calls)
  /\ caller' = At("idle")
  /\ UNCHANGED <<readRequests, readResponses, writeRequests, running, reader, writer,
                 answer, calls, newest, mixed, logVars>>

(* ~FileIOMessaging: what is queued then is not written any more.          *)
Destroy ==
  /\ caller.at = "idle"
  /\ running' = FALSE
  /\ caller' = At("joining")
  /\ UNCHANGED <<file, readRequests, readResponses, writeRequests, reader, writer,
                 answer, calls, newest, mixed, seen, logVars>>

Join ==
  /\ caller.at = "joining" /\ reader.at = "done" /\ writer.at = "done"
  /\ caller' = At("gone")
  /\ UNCHANGED <<file, readRequests, readResponses, writeRequests, running, reader,
                 writer, answer, calls, newest, mixed, seen, logVars>>

-----------------------------------------------------------------------------
(* ProcessFileReadRequests. running_ is tested at the head of the loop; a  *)
(* thread that saw it set may take one more request after it is cleared.   *)
EndReading ==
  /\ reader.at = "poll" /\ ~running
  /\ reader' = Polling(FALSE, Null)
  /\ UNCHANGED <<file, readRequests, readResponses, writeRequests, running, writer,
                 caller, answer, calls, newest, mixed, seen, logVars>>

PopReadRequest ==
  /\ reader.at = "poll" /\ readRequests # <<>>
  /\ reader' = [at |-> "read", path |-> Head(readRequests), text |-> Null]
  /\ readRequests' = Tail(readRequests)
  /\ UNCHANGED <<file, readResponses, writeRequests, running, writer, caller, answer,
                 calls, newest, mixed, seen, logVars>>

(* A parser that throws leaves in the response what it has read so far,    *)
(* and ReadConfig returns it without a look at success.                    *)
Parsed(content) ==
  IF Readable(content) THEN {content} ELSE IF content = Torn THEN {Null, Torn} ELSE {Null}

ReadFile ==
  /\ reader.at = "read"
  /\ \E content \in Parsed(file[reader.path]) :
       reader' = [at |-> "respond", path |-> reader.path, text |-> content]
  /\ IF Readable(file[reader.path]) THEN UNCHANGED logVars ELSE LogMessage
  /\ UNCHANGED <<file, readRequests, readResponses, writeRequests, running, writer,
                 caller, answer, calls, newest, mixed, seen>>

RespondOnSuccess ==
  /\ reader.at = "respond"
  /\ readResponses' = IF reader.text = Null THEN readResponses
                                               ELSE Push(readResponses, reader.text)
  /\ reader' = Polling(running, Null)
  /\ UNCHANGED <<file, readRequests, writeRequests, running, writer, caller, answer,
                 calls, newest, mixed, seen, logVars>>
Respond ==
  /\ reader.at = "respond"
  /\ readResponses' = Push(readResponses, reader.text)
  /\ reader' = Polling(running, Null)
  /\ UNCHANGED <<file, readRequests, writeRequests, running, writer, caller, answer,
                 calls, newest, mixed, seen, logVars>>

ProcessFileReadRequests == EndReading \/ PopReadRequest \/ ReadFile \/ Respond

-----------------------------------------------------------------------------
(* ProcessFileWriteRequests. Its responses are never popped by             *)
(* ConfigManager, and a full queue of them changes nothing.                *)
EndWriting ==
  /\ writer.at = "poll" /\ ~running
  /\ writer' = Polling(FALSE, 0)
  /\ UNCHANGED <<file, readRequests, readResponses, writeRequests, running, reader,
                 caller, answer, calls, newest, mixed, seen, logVars>>

PopWriteRequest ==
  /\ writer.at = "poll" /\ writeRequests # <<>>
  /\ writer' = [at |-> "open", path |-> Head(writeRequests).path,
                text |-> Head(writeRequests).text]
  /\ writeRequests' = Tail(writeRequests)
  /\ UNCHANGED <<file, readRequests, readResponses, running, reader, caller, answer,
                 calls, newest, mixed, seen, logVars>>

OpenFile ==
  /\ writer.at = "open"
  /\ \/ /\ writer.path \in ReadOnly
        /\ writer' = Polling(running, 0)
        /\ LogMessage /\ FileUnchanged
     \/ /\ writer.path \notin ReadOnly
        /\ writer' = [writer EXCEPT !.at = "write"]
        /\ OpenForWriting(writer.path) /\ UNCHANGED logVars
  /\ UNCHANGED <<readRequests, readResponses, writeRequests, running, reader, caller,
                 answer, calls, newest, mixed>>

WriteFile ==
  /\ writer.at = "write"
  /\ WriteText(writer.path, writer.text)
  /\ writer' = Polling(running, 0)
  /\ UNCHANGED <<readRequests, readResponses, writeRequests, running, reader, caller,
                 answer, calls, newest, mixed, logVars>>

ProcessFileWriteRequests == EndWriting \/ PopWriteRequest \/ OpenFile \/ WriteFile

-----------------------------------------------------------------------------
Caller == PopFileReadResponse \/ FinishWriteSync \/ Join

Next ==
  \/ \E p \in Paths : ReadConfig(p) \/ ReadConfigSync(p) \/ WriteConfig(p) \/ WriteConfigSync(p)
  \/ Destroy \/ Caller \/ ProcessFileReadRequests \/ ProcessFileWriteRequests
  \/ LogNext /\ UNCHANGED ioVars

Spec == Init /\ [][Next]_vars

(* The threads run, and a call that is under way polls on. Nobody has to   *)
(* make a call, nor to destroy anything.                                   *)
FairSpec ==
  /\ Spec /\ LogFairness
  /\ WF_vars(ProcessFileReadRequests) /\ WF_vars(ProcessFileWriteRequests)
  /\ WF_vars(Caller)

-----------------------------------------------------------------------------
Contents == Nat \cup {Torn, Missing}
Answers == Nat \cup {Torn, Null}

TypeOK ==
  /\ LogTypeOK
  /\ file \in [Paths -> Contents] /\ newest \in [Paths -> Nat \cup {Missing}]
  /\ readRequests \in Seq(Paths) /\ readResponses \in Seq(Answers)
  /\ writeRequests \in Seq([path : Paths, text : Nat])
  /\ running \in BOOLEAN
  /\ reader \in [at : {"read", "respond"}, path : Paths, text : Answers]
                 \cup [at : {"poll", "done"}, path : {NoPath}, text : {Null}]
  /\ writer \in [at : {"open", "write"}, path : Paths, text : Nat]
                 \cup [at : {"poll", "done"}, path : {NoPath}, text : {0}]
  /\ caller \in [at : {"reading", "writing"}, path : Paths]
                 \cup [at : {"idle", "joining", "gone"}, path : {NoPath}]
  /\ answer \in Answers \cup {Empty} /\ calls \in Nat
  /\ mixed \subseteq Paths /\ seen \subseteq Contents

(* ReadConfig returns what the file held at some time during the call, and *)
(* null or a part of a document only if there was a time when it held      *)
(* nothing whole: a response of an earlier call is never taken for the     *)
(* present one's.                                                          *)
Truthful(content) ==
  \/ content \in seen
  \/ content = Null /\ \E c \in seen : ~Readable(c)
ReadIsCurrent ==
  [][caller.at = "reading" /\ caller'.at = "idle" => Truthful(answer')]_vars

(* Once the queue is empty a file holds the last text written to it and is *)
(* whole, unless a write on the spot ran beside a queued one (which may be *)
(* overtaken, or mixed with it for ever), or the write was dropped.        *)
NewestStays ==
  \A p \in Paths \ ReadOnly :
    ~Pending(p) /\ ~(caller.at = "writing" /\ caller.path = p) /\ p \notin mixed
      => file[p] = newest[p]

(* ReadConfig comes back, for a file that is missing or torn as well: the  *)
(* reading thread answers every request.                                   *)
ReadReturns == caller.at = "reading" ~> caller.at = "idle"

(* Every entry is printed in the end but those logged after the printing   *)
(* thread has gone: Stop loses none that was there before it.              *)
LoggedIsPrinted ==
  \A n \in 1..MaxCalls : logged >= n ~> (IsPrinted(n) \/ n \in unheard)
=============================================================================
