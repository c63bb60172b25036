-------------------------- MODULE ParameterSyncProofs --------------------------
(***************************************************************************)
(* The two windows in which a saved document is lost or undone, and no     *)
(* other: for any number of saves of both kinds, requests under way at     *)
(* once, failures, and settings that cannot be read.                       *)
(***************************************************************************)
EXTENDS ParameterSync, TLAPS

(* What the arguments below need of TypeOK.                                *)
Types ==
  /\ db \in [Kinds -> Versions] /\ held \in [Kinds -> Versions]
  /\ asked \in [Kinds -> Nat] /\ answers \in [Kinds -> [Versions -> Nat]]
  /\ queue \in Seq(Kinds)
  /\ study \in Stages
  /\ reply \in [come : BOOLEAN, success : BOOLEAN, version : Versions]
  /\ crowded \in [Kinds -> BOOLEAN]
  /\ stale \in BOOLEAN /\ overtaken \in BOOLEAN

LEMMA ConstantFacts ==
  /\ Versions \subseteq Nat /\ 0 \in Versions
  /\ Kinds = {"system", "group"}
  /\ \A v \in Versions : v + 1 <= MaxVersion => v + 1 \in Versions
  /\ \A k \in Kinds : Saves(k) <= MaxVersion /\ Saves(k) \in Nat
  <1>1. MaxVersion \in Nat /\ MaxGroups \in Nat /\ MaxGroups <= MaxVersion
    BY ParameterSyncAssumption
  <1>2. Versions \subseteq Nat /\ 0 \in Versions
    BY <1>1 DEF Versions
  <1>3. \A v \in Versions : v + 1 <= MaxVersion => v + 1 \in Versions
    BY <1>1 DEF Versions
  <1>4. \A k \in Kinds : Saves(k) <= MaxVersion /\ Saves(k) \in Nat
    BY <1>1 DEF Saves
  <1> QED BY <1>2, <1>3, <1>4 DEF Kinds

LEMMA OneMoreOrLess ==
  ASSUME NEW n \in Nat
  PROVE  n + 1 \in Nat /\ (n > 0 => n - 1 \in Nat)
  OBVIOUS

LEMMA InitTypes == Init => Types
  <1> SUFFICES ASSUME Init PROVE Types
    OBVIOUS
  <1>1. /\ db \in [Kinds -> Versions] /\ held \in [Kinds -> Versions]
        /\ asked \in [Kinds -> Nat] /\ queue \in Seq(Kinds)
    BY ConstantFacts DEF Init
  <1>2. [v \in Versions |-> 0] \in [Versions -> Nat]
    OBVIOUS
  <1>3. answers \in [Kinds -> [Versions -> Nat]]
    BY <1>2 DEF Init
  <1>4. study \in Stages /\ stale \in BOOLEAN /\ overtaken \in BOOLEAN
    BY DEF Init, Stages
  <1>5. reply \in [come : BOOLEAN, success : BOOLEAN, version : Versions]
    BY ConstantFacts DEF Init, NoReply
  <1>6. crowded \in [Kinds -> BOOLEAN]
    BY DEF Init
  <1> QED BY <1>1, <1>3, <1>4, <1>5, <1>6 DEF Types

(* Request and Store keep the types of what they change.                   *)
LEMMA RequestType ==
  ASSUME Types, NEW k \in Kinds, Request(k)
  PROVE  /\ crowded' \in [Kinds -> BOOLEAN]
         /\ crowded'[k] = (crowded[k] \/ Busy(k))
         /\ \A j \in Kinds : j # k => crowded'[j] = crowded[j]
  <1>1. Busy(k) \in BOOLEAN /\ (crowded[k] \/ Busy(k)) \in BOOLEAN
    BY DEF Busy
  <1> QED BY <1>1 DEF Request, Types

LEMMA StoreResult ==
  ASSUME Types, NEW k \in Kinds, NEW v \in Versions, Store(k, v)
  PROVE  /\ held' \in [Kinds -> Versions] /\ held'[k] = v
         /\ \A j \in Kinds : j # k => held'[j] = held[j]
         /\ stale' \in BOOLEAN /\ overtaken' \in BOOLEAN
         /\ k = "system" => stale'
         /\ k = "system" /\ PastCopy => overtaken'
         /\ stale => stale'
         /\ overtaken => overtaken'
  BY DEF Store, Types

LEMMA StepTypes == Types /\ [Next]_vars => Types'
  <1> SUFFICES ASSUME Types, [Next]_vars PROVE Types'
    OBVIOUS
  <1> USE ConstantFacts DEF Types, remote, local, InitializeParameters, PrepareForBacktest,
             SetBarPeriod, SetBarPeriodThrows
  <1>1. ASSUME NEW k \in Kinds, Save(k) PROVE Types'
    <2>1. db[k] + 1 \in Versions
      <3>1. /\ db[k] < Saves(k) /\ db[k] \in Versions /\ db[k] \in Nat
            /\ Saves(k) \in Nat /\ Saves(k) <= MaxVersion /\ MaxVersion \in Nat
        BY <1>1, ParameterSyncAssumption DEF Save
      <3>2. \A a, b, c \in Nat : a < b /\ b <= c => a + 1 <= c
        OBVIOUS
      <3> QED BY <3>1, <3>2
    <2> QED BY <1>1, <2>1 DEF Save
  <1>2. ASSUME NEW k \in Kinds, HandleRequest(k) PROVE Types'
    BY <1>2 DEF HandleRequest
  <1>3. ASSUME NEW k \in Kinds, AnswerRequest(k) PROVE Types'
    <2>1. asked[k] \in Nat /\ asked[k] > 0 /\ answers[k][db[k]] \in Nat
      BY <1>3 DEF AnswerRequest
    <2>2. asked[k] - 1 \in Nat /\ answers[k][db[k]] + 1 \in Nat
      BY <2>1, OneMoreOrLess
    <2>3. asked' \in [Kinds -> Nat]
      BY <1>3, <2>2 DEF AnswerRequest
    <2>4. answers' \in [Kinds -> [Versions -> Nat]]
      BY <1>3, <2>2 DEF AnswerRequest
    <2> QED BY <1>3, <2>3, <2>4 DEF AnswerRequest
  <1>4. ASSUME NEW k \in Kinds, FailRequest(k) PROVE Types'
    <2>1. asked[k] - 1 \in Nat
      BY <1>4, OneMoreOrLess DEF FailRequest
    <2> QED BY <1>4, <2>1 DEF FailRequest
  <1>5. ASSUME NEW k \in Kinds, NEW v \in Versions, FetchCallback(k, v) PROVE Types'
    <2>1. answers[k] \in [Versions -> Nat]
      OBVIOUS
    <2>2. answers[k][v] \in Nat
      BY <2>1
    <2>3. answers[k][v] > 0
      BY <1>5 DEF FetchCallback
    <2>4. answers[k][v] - 1 \in Nat
      BY <2>2, <2>3, OneMoreOrLess
    <2>5. answers' \in [Kinds -> [Versions -> Nat]]
      BY <1>5, <2>4 DEF FetchCallback, Taken
    <2>6. held' \in [Kinds -> Versions] /\ stale' \in BOOLEAN /\ overtaken' \in BOOLEAN
      BY <1>5, StoreResult DEF FetchCallback
    <2> QED BY <1>5, <2>5, <2>6 DEF FetchCallback
  <1>6. CASE ProcessRequest
    <2>1. Head(queue) \in Kinds /\ Tail(queue) \in Seq(Kinds)
      BY <1>6 DEF ProcessRequest
    <2>2. crowded' \in [Kinds -> BOOLEAN]
      BY <1>6, <2>1, RequestType DEF ProcessRequest
    <2>3. asked[Head(queue)] + 1 \in Nat
      BY <2>1, OneMoreOrLess
    <2>4. asked' \in [Kinds -> Nat]
      BY <1>6, <2>1, <2>3 DEF ProcessRequest
    <2> QED BY <1>6, <2>1, <2>2, <2>4 DEF ProcessRequest
  <1>7. CASE AnswerStudy
    <2>1. db[study] \in Versions
      BY <1>7 DEF AnswerStudy
    <2>2. PICK ok \in BOOLEAN : reply' = [come |-> TRUE, success |-> ok, version |-> db[study]]
      BY <1>7 DEF AnswerStudy
    <2>3. reply' \in [come : BOOLEAN, success : BOOLEAN, version : Versions]
      BY <2>1, <2>2
    <2> QED BY <1>7, <2>3 DEF AnswerStudy
  <1>8. CASE ProcessNotReady
    BY <1>8 DEF ProcessNotReady, Stages
  <1>9. CASE Initialize
    <2>1. crowded' \in [Kinds -> BOOLEAN]
      BY <1>9, RequestType DEF Initialize
    <2> QED BY <1>9, <2>1 DEF Initialize, Stages
  <1>10. CASE FutureGet
    <2>1. crowded' \in [Kinds -> BOOLEAN]
      BY <1>10, RequestType DEF FutureGet
    <2>2. /\ held' \in [Kinds -> Versions] /\ stale' \in BOOLEAN /\ overtaken' \in BOOLEAN
      BY <1>10, StoreResult DEF FutureGet
    <2>3. study' \in Stages /\ reply' \in [come : BOOLEAN, success : BOOLEAN, version : Versions]
      BY <1>10 DEF FutureGet, Stages, NoReply
    <2> QED BY <1>10, <2>1, <2>2, <2>3 DEF FutureGet
  <1>11. CASE CopyTradingSystem \/ FinishCopy \/ ApplySettings \/ ResetTradeSystemStaleStatus
    BY <1>11 DEF CopyTradingSystem, FinishCopy, ApplySettings, ResetTradeSystemStaleStatus, Stages
  <1>12. CASE UNCHANGED vars
    BY <1>12 DEF vars
  <1> QED BY <1>1, <1>2, <1>3, <1>4, <1>5, <1>6, <1>7, <1>8, <1>9, <1>10, <1>11, <1>12
          DEF Next, Study

(* The rest of TypeOK.                                                     *)
Rest ==
  /\ context \in Contexts
  /\ posts \in [Kinds -> Nat]
  /\ copy \in Versions \cup {Torn} /\ applied \in Versions \cup {Torn}
  /\ prepared \in BOOLEAN

LEMMA StepRest == Types /\ Rest /\ [Next]_vars => Rest'
  <1> SUFFICES ASSUME Types, Rest, [Next]_vars PROVE Rest'
    OBVIOUS
  <1> USE DEF Rest, remote, local, InitializeParameters, PrepareForBacktest,
             SetBarPeriod, SetBarPeriodThrows
  <1>1. ASSUME NEW k \in Kinds, Save(k) \/ HandleRequest(k) PROVE Rest'
    <2>1. posts[k] + 1 \in Nat /\ (posts[k] > 0 => posts[k] - 1 \in Nat)
      BY OneMoreOrLess
    <2> QED BY <1>1, <2>1 DEF Save, HandleRequest
  <1>2. ASSUME NEW k \in Kinds, AnswerRequest(k) \/ FailRequest(k) PROVE Rest'
    BY <1>2 DEF AnswerRequest, FailRequest
  <1>3. ASSUME NEW k \in Kinds, NEW v \in Versions, FetchCallback(k, v) PROVE Rest'
    BY <1>3 DEF FetchCallback
  <1>4. CASE ProcessRequest \/ AnswerStudy \/ ProcessNotReady \/ Initialize \/ FutureGet
    BY <1>4 DEF ProcessRequest, AnswerStudy, ProcessNotReady, Initialize, FutureGet
  <1>5. CASE CopyTradingSystem
    <2>1. held["system"] \in Versions
      BY ConstantFacts DEF Types
    <2> QED BY <1>5, <2>1 DEF CopyTradingSystem
  <1>6. CASE FinishCopy \/ ApplySettings \/ ResetTradeSystemStaleStatus
    BY <1>6 DEF FinishCopy, ApplySettings, ResetTradeSystemStaleStatus
  <1>7. CASE UNCHANGED vars
    BY <1>7 DEF vars
  <1> QED BY <1>1, <1>2, <1>3, <1>4, <1>5, <1>6, <1>7 DEF Next, Study

(* Every variable stays what it is said to be, however many saves and      *)
(* requests there are.                                                     *)
THEOREM TypeCorrect == Spec => []TypeOK
  <1>1. Init => Rest
    BY ConstantFacts DEF Init, Rest
  <1>2. Types /\ Rest => TypeOK
    BY DEF Types, Rest, TypeOK
  <1> QED BY <1>1, <1>2, InitTypes, StepTypes, StepRest, PTL DEF Spec

-----------------------------------------------------------------------------
(* A trading system that is stored and not applied raises the flag, which  *)
(* stays up until the reset; only what is stored after the copy escapes.   *)
LostInv ==
  /\ study \in Kinds \cup {"initialize", "copy"} => stale \/ applied = held["system"]
  /\ stale \/ overtaken \/ applied = held["system"]
  /\ study \in {"copying", "apply"} => overtaken \/ copy = held["system"]
  /\ study = "reset" => overtaken \/ applied = held["system"]

LEMMA StepLost == Types /\ LostInv /\ [Next]_vars => LostInv'
  <1> SUFFICES ASSUME Types, LostInv, [Next]_vars PROVE LostInv'
    OBVIOUS
  <1> USE ConstantFacts DEF LostInv, remote, local, InitializeParameters, PrepareForBacktest,
             SetBarPeriod, SetBarPeriodThrows
  <1>1. ASSUME NEW k \in Kinds, Save(k) \/ HandleRequest(k) \/ AnswerRequest(k) \/ FailRequest(k)
        PROVE  LostInv'
    BY <1>1 DEF Save, HandleRequest, AnswerRequest, FailRequest
  <1>2. ASSUME NEW k \in Kinds, NEW v \in Versions, FetchCallback(k, v)
        PROVE  LostInv'
    <2>1. Store(k, v) /\ study' = study /\ applied' = applied
      BY <1>2 DEF FetchCallback
    <2>2. CASE k = "group"
      <3>1. held'["system"] = held["system"] /\ copy' = copy
        BY <1>2, <2>1, <2>2, StoreResult DEF FetchCallback
      <3> QED BY <2>1, <3>1, StoreResult
    <2>3. CASE k = "system"
      BY <2>1, <2>3, StoreResult DEF PastCopy
    <2> QED BY <2>2, <2>3
  <1>3. CASE ProcessRequest \/ AnswerStudy
    BY <1>3 DEF ProcessRequest, AnswerStudy
  <1>4. CASE ProcessNotReady
    BY <1>4 DEF ProcessNotReady
  <1>5. CASE Initialize
    BY <1>5 DEF Initialize
  <1>6. CASE FutureGet
    <2>1. /\ study \in Kinds /\ study' \in {"group", "copy"} /\ reply.version \in Versions
          /\ applied' = applied /\ copy' = copy
      BY <1>6 DEF FutureGet, Types
    <2>2. stale' \/ applied' = held'["system"]
      <3>1. CASE reply.success
        <4>1. Store(study, reply.version)
          BY <1>6, <3>1 DEF FutureGet
        <4>2. study = "system" => stale'
          BY <2>1, <4>1, StoreResult
        <4>3. study = "group" => held'["system"] = held["system"] /\ (stale => stale')
          BY <2>1, <4>1, StoreResult
        <4> QED BY <2>1, <4>2, <4>3
      <3>2. CASE ~reply.success
        BY <1>6, <2>1, <3>2 DEF FutureGet
      <3> QED BY <3>1, <3>2
    <2> QED BY <2>1, <2>2
  <1>7. CASE CopyTradingSystem
    BY <1>7 DEF CopyTradingSystem
  <1>8. CASE FinishCopy
    BY <1>8 DEF FinishCopy
  <1>9. CASE ApplySettings
    BY <1>9 DEF ApplySettings
  <1>10. CASE ResetTradeSystemStaleStatus
    BY <1>10 DEF ResetTradeSystemStaleStatus
  <1>11. CASE UNCHANGED vars
    BY <1>11 DEF vars
  <1> QED BY <1>1, <1>2, <1>3, <1>4, <1>5, <1>6, <1>7, <1>8, <1>9, <1>10, <1>11 DEF Next, Study

(* A stored trading system is lost only where it came after the last copy  *)
(* and before its reset.                                                   *)
THEOREM LossIsOvertaking == Spec => []LostOnlyWhenOvertaken
  <1>1. Init => LostInv
    BY ConstantFacts DEF Init, LostInv
  <1>2. LostInv => LostOnlyWhenOvertaken
    BY DEF LostInv, LostOnlyWhenOvertaken
  <1> QED BY <1>1, <1>2, InitTypes, StepTypes, StepLost, PTL DEF Spec

-----------------------------------------------------------------------------
(* As long as a kind was never requested twice at once, its one request is *)
(* asked, or answered, or waited for by the study, and its answer is no    *)
(* older than what is held: nothing else stores in the meantime.           *)
Waits(k, v) == answers[k][v] > 0
Alone(k) ==
  /\ asked[k] > 0 => asked[k] = 1 /\ study # k /\ \A v \in Versions : ~Waits(k, v)
  /\ study = k => \A v \in Versions : ~Waits(k, v)
  /\ \A v, w \in Versions : Waits(k, v) /\ Waits(k, w) => v = w /\ answers[k][v] = 1
  /\ \A v \in Versions : Waits(k, v) => held[k] <= v
  /\ study = k /\ reply.come => held[k] <= reply.version
OrderInv ==
  /\ \A k \in Kinds :
       /\ held[k] <= db[k]
       /\ \A v \in Versions : Waits(k, v) => v <= db[k]
       /\ study = k /\ reply.come => reply.version <= db[k]
       /\ ~crowded[k] => Alone(k)
  /\ study \notin Kinds => ~reply.come

LEMMA InitOrder == Init => OrderInv
  <1> SUFFICES ASSUME Init PROVE OrderInv
    OBVIOUS
  <1>1. \A k \in Kinds : /\ asked[k] = 0 /\ held[k] = 0 /\ db[k] = 0 /\ study # k
                         /\ \A v \in Versions : ~Waits(k, v)
    BY ConstantFacts DEF Init, Waits
  <1>2. ~reply.come
    BY DEF Init, NoReply
  <1> QED BY <1>1, <1>2 DEF OrderInv, Alone

(* What OrderInv says of one kind; it depends on that kind's counters, on  *)
(* what is held of it and saved of it, and on the study's own request.     *)
OrderOf(k) ==
  /\ held[k] <= db[k]
  /\ \A v \in Versions : Waits(k, v) => v <= db[k]
  /\ study = k /\ reply.come => reply.version <= db[k]
  /\ ~crowded[k] => Alone(k)

(* A request may be the only one of its kind only if none was under way.   *)
LEMMA NotBusy ==
  ASSUME Types, NEW k \in Kinds, ~Busy(k)
  PROVE  asked[k] = 0 /\ study # k /\ \A v \in Versions : ~Waits(k, v)
  <1>1. asked[k] \in Nat /\ ~(asked[k] > 0)
    BY DEF Busy, Types
  <1> QED BY <1>1 DEF Busy, Waits

LEMMA KindFacts ==
  ASSUME Types, NEW k \in Kinds
  PROVE  /\ held[k] \in Nat /\ db[k] \in Nat /\ asked[k] \in Nat
         /\ held[k] \in Versions /\ db[k] \in Versions
         /\ reply.version \in Nat /\ reply.version \in Versions
         /\ \A v \in Versions : v \in Nat /\ answers[k][v] \in Nat
  <1>1. held[k] \in Versions /\ db[k] \in Versions /\ asked[k] \in Nat /\ reply.version \in Versions
    BY DEF Types
  <1>2. answers[k] \in [Versions -> Nat]
    BY DEF Types
  <1> QED BY <1>1, <1>2, ConstantFacts

LEMMA StepOrder == Types /\ OrderInv /\ [Next]_vars => OrderInv'
  <1> SUFFICES ASSUME Types, OrderInv, [Next]_vars
               PROVE  OrderInv'
    OBVIOUS
  <1>0. \A k \in Kinds : OrderOf(k)
    BY DEF OrderInv, OrderOf
  <1> SUFFICES /\ \A k \in Kinds : OrderOf(k)'
               /\ (study \notin Kinds => ~reply.come)'
    BY DEF OrderInv, OrderOf
  <1>n. study \notin Kinds => ~reply.come
    BY DEF OrderInv
  <1> USE DEF remote, local, InitializeParameters, PrepareForBacktest,
             SetBarPeriod, SetBarPeriodThrows
  <1>1. ASSUME NEW k \in Kinds, Save(k)
        PROVE  /\ \A j \in Kinds : OrderOf(j)'
               /\ (study \notin Kinds => ~reply.come)'
    <2>1. /\ db'[k] = db[k] + 1 /\ \A j \in Kinds : j # k => db'[j] = db[j]
          /\ UNCHANGED <<held, asked, answers, crowded, reply, study>>
      BY <1>1 DEF Save, Types
    <2>2. \A j \in Kinds : db[j] <= db'[j] /\ db[j] \in Nat /\ db'[j] \in Nat
      BY <2>1, KindFacts
    <2>3. ASSUME NEW j \in Kinds PROVE OrderOf(j)'
      <3>1. \A n \in Nat : n <= db[j] => n <= db'[j]
        BY <2>2
      <3>2. /\ (held[j] <= db[j])'
            /\ (\A v \in Versions : Waits(j, v) => v <= db[j])'
            /\ (study = j /\ reply.come => reply.version <= db[j])'
        BY <1>0, <2>1, <3>1, KindFacts DEF OrderOf, Waits
      <3>3. (~crowded[j] => Alone(j))'
        BY <1>0, <2>1 DEF OrderOf, Alone, Waits
      <3> QED BY <3>2, <3>3 DEF OrderOf
    <2> QED BY <1>n, <2>1, <2>3
  <1>2. ASSUME NEW k \in Kinds, HandleRequest(k)
        PROVE  /\ \A j \in Kinds : OrderOf(j)'
               /\ (study \notin Kinds => ~reply.come)'
    BY <1>0, <1>n, <1>2 DEF HandleRequest, OrderOf, Alone, Waits
  <1>3. ASSUME NEW k \in Kinds, AnswerRequest(k)
        PROVE  /\ \A j \in Kinds : OrderOf(j)'
               /\ (study \notin Kinds => ~reply.come)'
    <2>1. /\ asked[k] > 0 /\ asked'[k] = asked[k] - 1
          /\ \A j \in Kinds : j # k => asked'[j] = asked[j] /\ answers'[j] = answers[j]
          /\ answers'[k] = [answers[k] EXCEPT ![db[k]] = @ + 1]
          /\ UNCHANGED <<db, held, crowded, reply, study>>
      BY <1>3 DEF AnswerRequest, Types
    <2>2. /\ answers[k] \in [Versions -> Nat] /\ db[k] \in Versions /\ db[k] \in Nat
          /\ asked[k] \in Nat
      BY KindFacts DEF Types
    <2>3. \A v \in Versions : answers'[k][v] = answers[k][v] + IF v = db[k] THEN 1 ELSE 0
      BY <2>1, <2>2
    <2>4. \A v \in Versions : Waits(k, v)' => v = db[k] \/ Waits(k, v)
      BY <2>2, <2>3 DEF Waits
    <2>5. OrderOf(k)'
      <3>1. /\ (held[k] <= db[k])'
            /\ (\A v \in Versions : Waits(k, v) => v <= db[k])'
            /\ (study = k /\ reply.come => reply.version <= db[k])'
        BY <1>0, <2>1, <2>2, <2>4 DEF OrderOf
      <3>2. ASSUME ~crowded[k] PROVE Alone(k)'
        <4>1. /\ asked[k] = 1 /\ study # k /\ \A v \in Versions : ~Waits(k, v)
              /\ held[k] <= db[k]
          BY <1>0, <2>1, <3>2 DEF OrderOf, Alone
        <4>2. asked'[k] = 0 /\ ~(asked'[k] > 0)
          BY <2>1, <4>1
        <4>3. \A v \in Versions : Waits(k, v)' => v = db[k]
          BY <2>4, <4>1
        <4>4. answers'[k][db[k]] = 1
          BY <2>2, <2>3, <4>1 DEF Waits
        <4> QED BY <2>1, <4>1, <4>2, <4>3, <4>4 DEF Alone
      <3> QED BY <2>1, <3>1, <3>2 DEF OrderOf
    <2>6. \A j \in Kinds : j # k => OrderOf(j)'
      BY <1>0, <2>1 DEF OrderOf, Alone, Waits
    <2> QED BY <1>n, <2>1, <2>5, <2>6
  <1>4. ASSUME NEW k \in Kinds, FailRequest(k)
        PROVE  /\ \A j \in Kinds : OrderOf(j)'
               /\ (study \notin Kinds => ~reply.come)'
    <2>1. /\ asked[k] > 0 /\ asked'[k] = asked[k] - 1
          /\ \A j \in Kinds : j # k => asked'[j] = asked[j]
          /\ UNCHANGED <<db, held, answers, crowded, reply, study>>
      BY <1>4 DEF FailRequest, Types
    <2>2. asked[k] = 1 => ~(asked'[k] > 0)
      BY <2>1
    <2>3. OrderOf(k)'
      <3>1. ASSUME ~crowded[k] PROVE Alone(k)'
        BY <1>0, <2>1, <2>2, <3>1 DEF OrderOf, Alone, Waits
      <3> QED BY <1>0, <2>1, <3>1 DEF OrderOf, Waits
    <2>4. \A j \in Kinds : j # k => OrderOf(j)'
      BY <1>0, <2>1 DEF OrderOf, Alone, Waits
    <2> QED BY <1>n, <2>1, <2>3, <2>4
  <1>5. ASSUME NEW k \in Kinds, NEW v \in Versions, FetchCallback(k, v)
        PROVE  /\ \A j \in Kinds : OrderOf(j)'
               /\ (study \notin Kinds => ~reply.come)'
    <2>1. /\ answers[k][v] > 0 /\ answers'[k] = [answers[k] EXCEPT ![v] = @ - 1]
          /\ \A j \in Kinds : j # k => answers'[j] = answers[j]
          /\ UNCHANGED <<db, asked, crowded, reply, study>>
      BY <1>5 DEF FetchCallback, Taken, Types
    <2>2. held'[k] = v /\ \A j \in Kinds : j # k => held'[j] = held[j]
      BY <1>5, StoreResult DEF FetchCallback
    <2>3. answers[k] \in [Versions -> Nat] /\ Waits(k, v)
      BY <2>1 DEF Types, Waits
    <2>4. \A w \in Versions : Waits(k, w)' => Waits(k, w)
      BY <2>1, <2>3 DEF Waits
    <2>5. OrderOf(k)'
      <3>1. /\ (held[k] <= db[k])'
            /\ (\A w \in Versions : Waits(k, w) => w <= db[k])'
            /\ (study = k /\ reply.come => reply.version <= db[k])'
        BY <1>0, <2>1, <2>2, <2>3, <2>4 DEF OrderOf
      <3>2. ASSUME ~crowded[k] PROVE Alone(k)'
        <4>1. /\ \A w \in Versions : Waits(k, w) => w = v
              /\ answers[k][v] = 1 /\ study # k /\ ~(asked[k] > 0)
          BY <1>0, <2>3, <3>2 DEF OrderOf, Alone
        <4>2. answers'[k][v] = 0
          BY <2>1, <2>3, <4>1
        <4>3. \A w \in Versions : ~Waits(k, w)'
          BY <2>4, <4>1, <4>2 DEF Waits
        <4> QED BY <2>1, <4>1, <4>3 DEF Alone
      <3> QED BY <2>1, <3>1, <3>2 DEF OrderOf
    <2>6. \A j \in Kinds : j # k => OrderOf(j)'
      BY <1>0, <2>1, <2>2 DEF OrderOf, Alone, Waits
    <2> QED BY <1>n, <2>1, <2>5, <2>6
  <1>6. CASE ProcessRequest
    <2>0. PICK k \in Kinds : k = Head(queue)
      BY <1>6 DEF ProcessRequest, Types
    <2>1. k \in Kinds /\ Request(k)
      BY <1>6, <2>0 DEF ProcessRequest
    <2>2. /\ asked'[k] = asked[k] + 1 /\ \A j \in Kinds : j # k => asked'[j] = asked[j]
          /\ UNCHANGED <<db, held, answers, reply, study>>
      BY <1>6, <2>0 DEF ProcessRequest, Types
    <2>3. /\ crowded'[k] = (crowded[k] \/ Busy(k))
          /\ \A j \in Kinds : j # k => crowded'[j] = crowded[j]
      BY <2>1, RequestType
    <2>4. OrderOf(k)'
      <3>1. ASSUME ~crowded'[k] PROVE Alone(k)'
        <4>1. asked[k] = 0 /\ study # k /\ \A v \in Versions : ~Waits(k, v)
          BY <2>1, <2>3, <3>1, NotBusy
        <4> QED BY <2>2, <4>1 DEF Alone, Waits
      <3> QED BY <1>0, <2>1, <2>2, <3>1 DEF OrderOf, Waits
    <2>5. \A j \in Kinds : j # k => OrderOf(j)'
      BY <1>0, <2>2, <2>3 DEF OrderOf, Alone, Waits
    <2> QED BY <1>n, <2>2, <2>4, <2>5
  <1>7. CASE AnswerStudy
    <2>1. study \in Kinds
      BY <1>7 DEF AnswerStudy
    <2>2. /\ reply'.version = db[study]
          /\ UNCHANGED <<db, held, asked, answers, crowded, study>>
      BY <1>7 DEF AnswerStudy
    <2>3. ASSUME NEW j \in Kinds PROVE OrderOf(j)'
      <3>1. study = j => held[j] <= reply'.version /\ reply'.version <= db[j]
        BY <1>0, <2>2, KindFacts DEF OrderOf
      <3> QED BY <1>0, <2>2, <3>1 DEF OrderOf, Alone, Waits
    <2> QED BY <2>1, <2>2, <2>3
  <1>8. CASE Initialize
    <2>1. /\ study = "initialize" /\ ~reply.come /\ reply' = reply
          /\ UNCHANGED <<db, held, asked, answers>>
      BY <1>8, <1>n, ConstantFacts DEF Initialize
    <2>2. CASE study' = "copy" /\ crowded' = crowded
      BY <1>0, <2>1, <2>2, ConstantFacts DEF OrderOf, Alone, Waits
    <2>3. CASE study' = "system" /\ Request("system")
      <3>1. /\ crowded'["system"] = (crowded["system"] \/ Busy("system"))
            /\ crowded'["group"] = crowded["group"]
        BY <2>3, RequestType, ConstantFacts
      <3>2. ASSUME ~crowded'["system"] PROVE Alone("system")'
        <4>1. asked["system"] = 0 /\ \A v \in Versions : ~Waits("system", v)
          BY <3>1, <3>2, NotBusy, ConstantFacts
        <4> QED BY <2>1, <4>1 DEF Alone, Waits
      <3>3. OrderOf("system")'
        BY <1>0, <2>1, <3>2, ConstantFacts DEF OrderOf, Waits
      <3>4. OrderOf("group")'
        BY <1>0, <2>1, <2>3, <3>1, ConstantFacts DEF OrderOf, Alone, Waits
      <3> QED BY <2>1, <2>3, <3>3, <3>4, ConstantFacts
    <2> QED BY <1>8, <2>2, <2>3 DEF Initialize
  <1>9. CASE FutureGet
    <2>1. /\ study \in Kinds /\ reply.come /\ reply' = NoReply /\ ~reply'.come
          /\ study' = (IF study = "system" THEN "group" ELSE "copy")
          /\ UNCHANGED <<db, asked, answers>>
      BY <1>9 DEF FutureGet, NoReply
    <2>2. \A j \in Kinds : held'[j] <= db[j] /\ (j # study => held'[j] = held[j])
      <3>1. CASE reply.success
        <4>1. Store(study, reply.version) /\ reply.version \in Versions
          BY <1>9, <2>1, <3>1, KindFacts DEF FutureGet
        <4>2. held'[study] = reply.version /\ \A j \in Kinds : j # study => held'[j] = held[j]
          BY <2>1, <4>1, StoreResult
        <4> QED BY <1>0, <2>1, <4>2 DEF OrderOf
      <3>2. CASE ~reply.success
        BY <1>0, <1>9, <3>2 DEF FutureGet, OrderOf
      <3> QED BY <3>1, <3>2
    <2>3. ~crowded[study] => ~(asked[study] > 0) /\ \A v \in Versions : ~Waits(study, v)
      BY <1>0, <2>1 DEF OrderOf, Alone
    <2>4. CASE study = "system"
      <3>1. /\ crowded'["group"] = (crowded["group"] \/ Busy("group"))
            /\ crowded'["system"] = crowded["system"]
        BY <1>9, <2>4, RequestType, ConstantFacts DEF FutureGet
      <3>2. ASSUME ~crowded'["group"] PROVE Alone("group")'
        <4>1. asked["group"] = 0 /\ \A v \in Versions : ~Waits("group", v)
          BY <3>1, <3>2, NotBusy, ConstantFacts
        <4> QED BY <2>1, <4>1 DEF Alone, Waits
      <3>3. OrderOf("group")'
        BY <1>0, <2>1, <2>2, <3>2, ConstantFacts DEF OrderOf, Waits
      <3>4. OrderOf("system")'
        BY <1>0, <2>1, <2>2, <2>3, <2>4, <3>1, ConstantFacts DEF OrderOf, Alone, Waits
      <3> QED BY <2>1, <3>3, <3>4, ConstantFacts
    <2>5. CASE study = "group"
      <3>1. crowded' = crowded /\ study' = "copy"
        BY <1>9, <2>1, <2>5 DEF FutureGet
      <3>2. OrderOf("group")'
        BY <1>0, <2>1, <2>2, <2>3, <2>5, <3>1, ConstantFacts DEF OrderOf, Alone, Waits
      <3>3. OrderOf("system")'
        BY <1>0, <2>1, <2>2, <2>5, <3>1, ConstantFacts DEF OrderOf, Alone, Waits
      <3> QED BY <2>1, <3>2, <3>3, ConstantFacts
    <2> QED BY <2>1, <2>4, <2>5, ConstantFacts
  <1>10. CASE \/ ProcessNotReady \/ CopyTradingSystem \/ FinishCopy
              \/ ApplySettings \/ ResetTradeSystemStaleStatus
    <2>1. /\ UNCHANGED <<db, held, asked, answers, crowded, reply>>
          /\ study \notin Kinds /\ study' \notin Kinds
      BY <1>10, ConstantFacts DEF ProcessNotReady, CopyTradingSystem, FinishCopy, ApplySettings,
                                  ResetTradeSystemStaleStatus
    <2> QED BY <1>0, <1>n, <2>1 DEF OrderOf, Alone, Waits
  <1>11. CASE UNCHANGED vars
    BY <1>0, <1>n, <1>11 DEF vars, OrderOf, Alone, Waits
  <1> QED BY <1>1, <1>2, <1>3, <1>4, <1>5, <1>6, <1>7, <1>8, <1>9, <1>10, <1>11 DEF Next, Study

(* A step that puts an older document in place of a newer one is an answer *)
(* to one of two requests that were under way at once.                     *)
LEMMA StepBack ==
  Types /\ OrderInv /\ [Next]_vars => [\A k \in Kinds : held'[k] < held[k] => crowded[k]]_vars
  <1> SUFFICES ASSUME Types, OrderInv, Next, NEW k \in Kinds, ~crowded[k]
               PROVE  ~(held'[k] < held[k])
    OBVIOUS
  <1>1. Alone(k)
    BY DEF OrderInv
  <1> SUFFICES held[k] <= held'[k] /\ held'[k] \in Nat
    BY KindFacts
  <1>2. CASE held'[k] = held[k]
    BY <1>2, KindFacts
  <1>3. ASSUME NEW j \in Kinds, NEW v \in Versions, FetchCallback(j, v)
        PROVE  held[k] <= held'[k] /\ held'[k] \in Nat
    <2>1. Store(j, v) /\ Waits(j, v)
      BY <1>3 DEF FetchCallback, Waits
    <2> QED BY <1>1, <1>2, <2>1, StoreResult, KindFacts DEF Alone
  <1>4. ASSUME FutureGet
        PROVE  held[k] <= held'[k] /\ held'[k] \in Nat
    <2>1. study \in Kinds /\ reply.come
      BY <1>4 DEF FutureGet
    <2>2. CASE reply.success
      <3>1. Store(study, reply.version) /\ reply.version \in Versions
        BY <1>4, <2>2, KindFacts DEF FutureGet
      <3> QED BY <1>1, <1>2, <2>1, <3>1, StoreResult, KindFacts DEF Alone
    <2>3. CASE ~reply.success
      BY <1>2, <1>4, <2>3 DEF FutureGet
    <2> QED BY <2>2, <2>3
  <1>5. \/ held'[k] = held[k] \/ FutureGet
        \/ \E j \in Kinds, v \in Versions : FetchCallback(j, v)
    BY DEF Next, Study, remote, local, Save, HandleRequest, AnswerRequest, FailRequest, ProcessRequest,
           AnswerStudy, ProcessNotReady, Initialize, CopyTradingSystem, FinishCopy, ApplySettings,
           ResetTradeSystemStaleStatus, SetBarPeriod, SetBarPeriodThrows, InitializeParameters,
           PrepareForBacktest
  <1> QED BY <1>2, <1>3, <1>4, <1>5

(* What is held goes back only after its kind was requested twice at once. *)
THEOREM GoingBackIsOvertaking == Spec => BackOnlyByOvertaking
  BY InitTypes, InitOrder, StepTypes, StepOrder, StepBack, PTL DEF Spec, BackOnlyByOvertaking
=============================================================================
