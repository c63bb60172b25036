--------------------------------- MODULE Logger ---------------------------------
(***************************************************************************)
(* Logger: any thread of the program puts an entry on a queue without      *)
(* waiting, one thread prints them. The singleton is destroyed at the end  *)
(* of the process, when other threads may still log. A component that logs *)
(* EXTENDS this module and makes LogMessage part of its steps. An entry is *)
(* its number; the queue grows when it is full, so a push always succeeds. *)
(***************************************************************************)
EXTENDS Naturals, Sequences

VARIABLES
  logQueue, \* messageQueue: the entries not yet printed
  logged,   \* history: how many entries were logged
  printed,  \* history: the entries printed
  unheard,  \* history: the entries logged when the printing thread had ended
  logging,  \* running
  printer,  \* where ProcessMessages is
  logger    \* the life of the singleton

logVars == <<logQueue, logged, printed, unheard, logging, printer, logger>>

LogInit ==
  /\ logQueue = <<>> /\ logged = 0 /\ printed = <<>> /\ unheard = {}
  /\ logging = TRUE /\ printer = "loop" /\ logger = "alive"

LogMessage ==
  /\ logQueue' = Append(logQueue, logged + 1)
  /\ logged' = logged + 1
  /\ unheard' = IF printer = "done" THEN unheard \cup {logged + 1} ELSE unheard
  /\ UNCHANGED <<printed, logging, printer, logger>>

-----------------------------------------------------------------------------
(* ProcessMessages: the loop, and what is left in the queue at its end.    *)
PrintHead ==
  /\ logQueue # <<>>
  /\ printed' = Append(printed, Head(logQueue))
  /\ logQueue' = Tail(logQueue)

PopMessage ==
  /\ printer = "loop"
  /\ \/ PrintHead /\ UNCHANGED printer
     \/ logQueue = <<>> /\ ~logging /\ printer' = "drain" /\ UNCHANGED <<logQueue, printed>>
  /\ UNCHANGED <<logged, unheard, logging, logger>>

DrainNothing ==
  /\ printer = "drain"
  /\ printer' = "done"
  /\ UNCHANGED <<logQueue, logged, printed, unheard, logging, logger>>
Drain ==
  /\ printer = "drain"
  /\ \/ PrintHead /\ UNCHANGED printer
     \/ logQueue = <<>> /\ printer' = "done" /\ UNCHANGED <<logQueue, printed>>
  /\ UNCHANGED <<logged, unheard, logging, logger>>

ProcessMessages == PopMessage \/ Drain

(* ~Logger: Stop waits for the thread.                                     *)
StopLogging ==
  /\ logger = "alive"
  /\ logging' = FALSE /\ logger' = "joining"
  /\ UNCHANGED <<logQueue, logged, printed, unheard, printer>>

JoinPrinter ==
  /\ logger = "joining" /\ printer = "done"
  /\ logger' = "gone"
  /\ UNCHANGED <<logQueue, logged, printed, unheard, logging, printer>>

LogNext == ProcessMessages \/ StopLogging \/ JoinPrinter

LogFairness == WF_logVars(ProcessMessages) /\ WF_logVars(JoinPrinter)

-----------------------------------------------------------------------------
LogTypeOK ==
  /\ logQueue \in Seq(Nat) /\ printed \in Seq(Nat)
  /\ logged \in Nat /\ unheard \subseteq Nat
  /\ logging \in BOOLEAN
  /\ printer \in {"loop", "drain", "done"}
  /\ logger \in {"alive", "joining", "gone"}

IsPrinted(n) == \E i \in DOMAIN printed : printed[i] = n
=============================================================================
