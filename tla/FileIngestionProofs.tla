------------------------ MODULE FileIngestionProofs -------------------------
(***************************************************************************)
(* Proofs about the parser lambda and the daily file check, for any files, *)
(* events, rules, destinations and bounds.  What is proved of mapLimit is  *)
(* used by INSTANCE: each file is a call of it.  The check only reads, so  *)
(* that what is proved of the parser holds beside it.                      *)
(***************************************************************************)
EXTENDS DailyFileCheck, WellFoundedInduction, TLAPS

MP == INSTANCE MapLimitProofs WITH Calls <- Files, Size <- LineCount

\* The calls of MapLimitProofs are those of FileIngestion.
LEMMA SameCalls ==
  /\ ML!MapLimitAssumption <=> MP!MapLimitAssumption
  /\ ML!Init <=> MP!Init
  /\ ML!TypeOK <=> MP!TypeOK
  /\ \A f : /\ ML!NotCalled(f) = MP!NotCalled(f)
            /\ ML!Started(f) = MP!Started(f)
            /\ ML!Elements(f) = MP!Elements(f)
            /\ ML!DoneElements(f) = MP!DoneElements(f)
            /\ ML!Resolves(f) <=> MP!Resolves(f)
  /\ \A f, i : (ML!Resume(f, i) => MP!Resume(f, i)) /\ (ML!Throw(f, i) => MP!Throw(f, i))
  /\ ML!Stop => MP!Stop
  BY DEF ML!MapLimitAssumption, MP!MapLimitAssumption, ML!Init, MP!Init, ML!NotCalled,
         MP!NotCalled, ML!Started, MP!Started, ML!Elements, MP!Elements, ML!DoneElements,
         MP!DoneElements, ML!Resolves, MP!Resolves, ML!Resume, MP!Resume, ML!Throw, MP!Throw,
         ML!Stop, MP!Stop, ML!Frozen, MP!Frozen, ML!TakeNext, MP!TakeNext, ML!Reject, MP!Reject,
         ML!InFlight, MP!InFlight, ML!TypeOK, MP!TypeOK, ML!CallState, MP!CallState

\* Of the positions that are left there is a first.
LEMMA FirstOfList ==
  ASSUME NEW e \in Events, NEW S \in SUBSET DOMAIN Records[e], S # {}
  PROVE  \E i \in S : \A j \in S : i <= j
  <1>0. S \in SUBSET Nat
    BY FileIngestionAssumption DEF FileIngestionAssumption
  <1>1. PICK i \in S : \A j \in S : ~(<<j, i>> \in OpToRel(<, Nat))
    BY <1>0, NatLessThanWellFounded, WFMin
  <1>2. ASSUME NEW j \in S, ~(i <= j) PROVE FALSE
    <2>1. <<j, i>> \in Nat \X Nat /\ j < i
      BY <1>0, <1>2
    <2>2. <<j, i>> \in OpToRel(<, Nat)
      BY <2>1 DEF OpToRel
    <2> QED BY <1>1, <2>2
  <1> QED BY <1>2
-----------------------------------------------------------------------------
\* The parser is at work on the first file of its list.
Working == pc \in {"daily", "success", "save", "saving", "saveAlert", "alert"}

\* validationAlert returns, with or without a mail.
Alerted == ValidationAlert \/ AlertMailFails

\* What the list holds at each step of the invocation.
Loop ==
  /\ pc \in {"idle", "filter"} => parseList = {}
  /\ Working => parseList # {}
  /\ pc = "next" \/ Working => \A i \in parseList : ~Refused(Records[event][i])

\* A file has a row, and a call, only when its turn has come, and the files of
\* the list whose turn is still to come have none: this is what the look-up of
\* filterDuplicateFileList is worth later, when nobody looks again.
Fresh ==
  /\ \A f \in Files : fileRows[f] <= 1
  /\ \A f \in Files : fileRows[f] = 0 => call[f] = ML!NotCalled(f)
  /\ pc \in {"objects", "next", "daily"} =>
       \A i \in parseList : fileRows[Records[event][i]] = 0
  /\ Working => \A i \in Rest : fileRows[Records[event][i]] = 0
  /\ pc \in {"success", "save", "saving"} => fileRows[file] = 1
  /\ pc \in {"success", "save"} => call[file] = ML!NotCalled(file)
  /\ pc = "saving" => call[file].next > 0

\* Workers that go on without the parser waiting for them are those of a call
\* that was rejected.
Abandoned == \A f \in ML!InFlight : (pc = "saving" /\ f = file) \/ ML!Rejects(f)

\* A file that is alerted on after it was recorded, or has a save that was
\* rejected, met a failure: one that is alerted on in vain is a second one.
AfterFailure ==
  /\ pc \in {"saveAlert", "alert"} /\ fileRows[file] > 0 => faults > 0
  /\ pc = "saving" /\ ML!Rejects(file) => faults > 0

\* A file's day has the records of all rules.
DaysMade == \A f \in Files : fileRows[f] > 0 => DailyUploads(FileDate[f]) = Rules

\* While the entities of a file are saved, its day is marked if it can be.
DayDone ==
  pc \in {"save", "saving"} =>
    LET r == ProgramOf[file]
        d == FileDate[file] IN
    daily[r][d] = "open" => MissingDailyFiles(r, DailyFiles(r, d)) # {}

IInv ==
  /\ TypeOK /\ Loop /\ Fresh /\ MP!IInv /\ Abandoned
  /\ AfterFailure /\ WholeOrTold /\ DaysMade /\ DayDone /\ DayMarked
-----------------------------------------------------------------------------
\* The file at hand, and those behind it, which are others.
LEMMA FileAtHand ==
  ASSUME TypeOK, pc # "idle", parseList # {}
  PROVE  /\ position \in parseList /\ file \in Files
         /\ \A i \in parseList : Records[event][i] \in Files
         /\ \A i \in Rest : Records[event][i] # file
  <1>1. /\ Records[event] \in Seq(Files) /\ parseList \subseteq DOMAIN Records[event]
        /\ \A i, j \in DOMAIN Records[event] : Records[event][i] = Records[event][j] => i = j
    BY FileIngestionAssumption DEF FileIngestionAssumption, TypeOK
  <1>2. position \in parseList
    BY <1>1, FirstOfList DEF position, TypeOK
  <1>3. \A i \in parseList : Records[event][i] \in Files
    BY <1>1
  <1>4. \A i \in Rest : Records[event][i] # Records[event][position]
    BY <1>1, <1>2 DEF Rest
  <1> QED BY <1>2, <1>3, <1>4 DEF file

LEMMA SameFile ==
  UNCHANGED <<event, parseList>> => /\ position' = position /\ file' = file /\ Rest' = Rest
                                    /\ (pc' = pc => AtHand' = AtHand)
  BY DEF position, file, Rest, AtHand

\* A list with a file that is worked on is one with a file at hand.
LEMMA HandOf ==
  ASSUME Loop
  PROVE  /\ Working => AtHand = {file}
         /\ pc = "next" => AtHand = IF parseList = {} THEN {} ELSE {file}
         /\ pc \in {"idle", "filter", "objects"} => AtHand = {}
  BY DEF Loop, Working, AtHand
-----------------------------------------------------------------------------
\* Which steps touch which part of the state.
LEMMA RowsFrame ==
  [Next]_ingestionVars => UNCHANGED fileRows \/ SaveFileUploaded
  BY DEF Next, Arrivals, Parser, Faults, ingestionVars, Tick, Upload, Invoke, FilterDuplicates,
         GetObjects, RefuseEvent, ParseFails, ParseSales, ParseTDI, CreateDaily,
         UpdateDailyRecordSuccess, SaveEntities, EntitySaved, EntityRejected, EntitiesSaved,
         EntitiesRejected, ValidationAlert, AlertMailFails, AlertEnds, SaveAlertFails,
         ValidationAlertFails, TriggerReconcile, HandlerFails, SaveFileFails, Crash, Recycle

LEMMA DaysFrame ==
  [Next]_ingestionVars =>
    UNCHANGED daily \/ (\E r \in Rules : CreateDaily(r)) \/ UpdateDailyRecordSuccess
  BY DEF Next, Arrivals, Parser, Faults, ingestionVars, days, Tick, Upload, Invoke,
         FilterDuplicates, GetObjects, RefuseEvent, ParseFails, ParseSales, ParseTDI,
         SaveFileUploaded, SaveEntities, EntitySaved, EntityRejected, EntitiesSaved,
         EntitiesRejected, ValidationAlert, AlertMailFails, AlertEnds, SaveAlertFails,
         ValidationAlertFails, TriggerReconcile, HandlerFails, SaveFileFails, Crash, Recycle

LEMMA CallsFrame ==
  [Next]_ingestionVars =>
    \/ UNCHANGED call
    \/ \E f \in Files : SaveEntities(f)
    \/ \E f \in Files : \E i \in call[f].inFlight : EntitySaved(f, i) \/ EntityRejected(f, i)
    \/ Crash \/ Recycle
  BY DEF Next, Arrivals, Parser, Faults, ingestionVars, Tick, Upload, Invoke, FilterDuplicates,
         GetObjects, RefuseEvent, ParseFails, ParseSales, ParseTDI, CreateDaily,
         SaveFileUploaded, UpdateDailyRecordSuccess, EntitiesSaved, EntitiesRejected,
         ValidationAlert, AlertMailFails, AlertEnds, SaveAlertFails, ValidationAlertFails,
         TriggerReconcile, HandlerFails, SaveFileFails

\* An invocation begins or ends with an empty list; the filter fills it; it loses
\* its first file when that is done or was reported, and else stays as it is.
LEMMA ListFrame ==
  [Next]_ingestionVars =>
    \/ UNCHANGED lambda
    \/ /\ pc' \in {"idle", "filter"} /\ parseList' = {}
       /\ AtHand = {} \/ Crash \/ ValidationAlertFails \/ HandlerFails
    \/ FilterDuplicates
    \/ GetObjects
    \/ AtFile /\ pc' \in {"daily", "alert"} /\ UNCHANGED <<event, parseList, fileRows>>
    \/ Working /\ Working' /\ pc' # "daily" /\ UNCHANGED <<event, parseList>>
    \/ (Alerted \/ \E f \in Files : EntitiesSaved(f))
  BY DEF Alerted, Next, Arrivals, Parser, Faults, ingestionVars, lambda, Working, AtHand, Tick,
         Upload, Invoke, Fail, Return, RefuseEvent, ParseFails, ParseSales, ParseTDI,
         CreateDaily, SaveFileUploaded, UpdateDailyRecordSuccess, SaveEntities, EntitySaved,
         EntityRejected, EntitiesRejected, SaveAlertFails, ValidationAlertFails,
         TriggerReconcile, HandlerFails, SaveFileFails, Crash, Recycle

LEMMA ToldFrame ==
  [Next]_ingestionVars => UNCHANGED alerts \/ Alerted
  BY DEF Alerted, Next, Arrivals, Parser, Faults, ingestionVars, sent, history, Tick, Upload,
         Invoke, FilterDuplicates, GetObjects, RefuseEvent, ParseFails, ParseSales, ParseTDI,
         CreateDaily, SaveFileUploaded, UpdateDailyRecordSuccess, SaveEntities, EntitySaved,
         EntityRejected, EntitiesSaved, EntitiesRejected, SaveAlertFails, ValidationAlertFails,
         TriggerReconcile, HandlerFails, SaveFileFails, Crash, Recycle

LEMMA FailureFrame ==
  [Next]_ingestionVars => faults' \in {faults, faults + 1} /\ killed \subseteq killed'
  BY DEF Next, Arrivals, Parser, Faults, ingestionVars, sent, history, Tick, Upload, Invoke,
         FilterDuplicates, GetObjects, RefuseEvent, ParseFails, ParseSales, ParseTDI,
         CreateDaily, SaveFileUploaded, UpdateDailyRecordSuccess, SaveEntities, EntitySaved,
         EntityRejected, EntitiesSaved, EntitiesRejected, ValidationAlert, AlertMailFails,
         AlertEnds, SaveAlertFails, ValidationAlertFails, TriggerReconcile, HandlerFails,
         SaveFileFails, Crash, Recycle

\* What leads to an alert.
LEMMA AlertFrame ==
  [Next]_ingestionVars =>
    \/ UNCHANGED lambda
    \/ pc' \notin {"saveAlert", "alert"}
    \/ AtFile /\ UNCHANGED <<event, parseList, fileRows>>
    \/ SaveFileFails \/ SaveAlertFails \/ \E f \in Files : EntitiesRejected(f)
  BY DEF Next, Arrivals, Parser, Faults, ingestionVars, lambda, Fail, Return, Tick, Upload,
         Invoke, FilterDuplicates, GetObjects, RefuseEvent, ParseFails, ParseSales, ParseTDI,
         CreateDaily, SaveFileUploaded, UpdateDailyRecordSuccess, SaveEntities, EntitySaved,
         EntityRejected, EntitiesSaved, EntitiesRejected, ValidationAlert, AlertMailFails,
         AlertEnds, SaveAlertFails, ValidationAlertFails, TriggerReconcile, HandlerFails,
         SaveFileFails, Crash, Recycle

\* The steps that take the file at hand from one part of saveFile to the next.
LEMMA TurnFrame ==
  [Next]_ingestionVars =>
    \/ UNCHANGED lambda
    \/ pc' \notin {"success", "save", "saving"}
    \/ SaveFileUploaded
    \/ UpdateDailyRecordSuccess
    \/ \E f \in Files : SaveEntities(f)
  BY DEF Next, Arrivals, Parser, Faults, ingestionVars, lambda, Tick, Upload, Invoke, Fail,
         Return, FilterDuplicates, GetObjects, RefuseEvent, ParseFails, ParseSales, ParseTDI,
         CreateDaily, EntitySaved, EntityRejected, EntitiesSaved, EntitiesRejected,
         ValidationAlert, AlertMailFails, AlertEnds, SaveAlertFails, ValidationAlertFails,
         TriggerReconcile, HandlerFails, SaveFileFails, Crash, Recycle

LEMMA SavingFrame ==
  [Next]_ingestionVars /\ pc = "saving" =>
    \/ UNCHANGED lambda
    \/ \E f \in Files : EntitiesSaved(f) \/ EntitiesRejected(f)
    \/ Crash
  BY DEF Next, Arrivals, Parser, Faults, ingestionVars, lambda, Tick, Upload, Invoke, AtFile,
         FilterDuplicates, GetObjects, RefuseEvent, ParseFails, ParseSales, ParseTDI,
         CreateDaily, SaveFileUploaded, UpdateDailyRecordSuccess, SaveEntities, EntitySaved,
         EntityRejected, ValidationAlert, AlertMailFails, AlertEnds, SaveAlertFails,
         ValidationAlertFails, TriggerReconcile, HandlerFails, SaveFileFails, Recycle

LEMMA MessagesFrame ==
  [Next]_ingestionVars => UNCHANGED messages \/ TriggerReconcile
  BY DEF Next, Arrivals, Parser, Faults, ingestionVars, sent, Tick, Upload, Invoke,
         FilterDuplicates, GetObjects, RefuseEvent, ParseFails, ParseSales, ParseTDI,
         CreateDaily, SaveFileUploaded, UpdateDailyRecordSuccess, SaveEntities, EntitySaved,
         EntityRejected, EntitiesSaved, EntitiesRejected, ValidationAlert, AlertMailFails,
         AlertEnds, SaveAlertFails, ValidationAlertFails, HandlerFails, SaveFileFails, Crash,
         Recycle
-----------------------------------------------------------------------------
\* A step of the parser is one of mapLimit, or leaves its calls alone: entities
\* are saved by a call of their own, for a file that had none.
LEMMA CallStep ==
  ASSUME TypeOK, Loop, Fresh, MP!IInv, [Next]_ingestionVars
  PROVE  [MP!Next]_call
  <1>1. ASSUME NEW f \in Files, SaveEntities(f) PROVE MP!Next
    <2>1. call[f] = MP!NotCalled(f)
      BY <1>1, SameCalls DEF SaveEntities, Fresh
    <2>2. MP!Start(f)
      BY <1>1, <2>1, SameCalls DEF SaveEntities, MP!Start
    <2> QED BY <2>2 DEF MP!Next
  <1>2. ASSUME NEW f \in Files, NEW i \in call[f].inFlight PROVE i \in MP!Elements(f)
    BY <1>2 DEF MP!IInv, MP!Sound, MP!CallState
  <1>3. ASSUME NEW f \in Files, NEW i \in call[f].inFlight, EntitySaved(f, i) PROVE MP!Next
    BY <1>2, <1>3, SameCalls DEF EntitySaved, MP!Next
  <1>4. ASSUME NEW f \in Files, NEW i \in call[f].inFlight, EntityRejected(f, i) PROVE MP!Next
    BY <1>2, <1>4, SameCalls DEF EntityRejected, MP!Next
  <1>5. CASE Crash \/ Recycle
    BY <1>5, SameCalls DEF Crash, Recycle, MP!Next
  <1> QED BY <1>1, <1>3, <1>4, <1>5, CallsFrame

LEMMA CallsSound ==
  ASSUME TypeOK, Loop, Fresh, MP!IInv, [Next]_ingestionVars
  PROVE  MP!IInv' /\ ML!TypeOK'
  <1>1. MP!MapLimitAssumption
    BY FileIngestionAssumption, SameCalls DEF FileIngestionAssumption
  <1>2. MP!IInv'
    BY <1>1, CallStep, MP!StepHolds
  <1>3. ML!TypeOK'
    BY <1>2 DEF MP!IInv, MP!Sound, MP!CallState, MP!Elements, ML!TypeOK, ML!CallState, ML!Elements
  <1> QED BY <1>2, <1>3
-----------------------------------------------------------------------------
LEMMA InitHolds ==
  Init => IInv
  <1> SUFFICES ASSUME Init PROVE IInv
    OBVIOUS
  <1>0. /\ ML!MapLimitAssumption
        /\ MaxTries \in Nat /\ MaxCrashes \in Nat /\ MaxFaults \in Nat
        /\ MaxSends \in [Events -> Nat]
    BY FileIngestionAssumption DEF FileIngestionAssumption
  <1>1. MP!IInv /\ ML!TypeOK
    BY <1>0, SameCalls, MP!InitHolds, MP!SoundCalls DEF Init
  <1>2. TypeOK
    BY <1>0, <1>1 DEF Init, TypeOK
  <1>3. \A f \in Files : fileRows[f] = 0 /\ call[f] = ML!NotCalled(f)
    BY DEF Init, ML!Init
  <1>4. Loop /\ Fresh /\ AfterFailure /\ WholeOrTold /\ DaysMade /\ DayDone
    BY <1>3 DEF Init, Loop, Fresh, AfterFailure, WholeOrTold, DaysMade, DayDone, Working
  <1>5. Abandoned
    <2>1. ASSUME NEW f \in Files PROVE call[f].inFlight = {}
      <3>1. call[f] = ML!NotCalled(f)
        BY <1>3
      <3> QED BY <3>1 DEF ML!NotCalled
    <2> QED BY <2>1 DEF Abandoned, ML!InFlight
  <1>6. DayMarked
    <2>1. \A r \in Rules : \A d \in Dates : daily[r][d] = "none"
      BY DEF Init
    <2> QED BY <2>1 DEF DayMarked
  <1> QED BY <1>1, <1>2, <1>4, <1>5, <1>6 DEF IInv

LEMMA TypeStep ==
  ASSUME TypeOK, Loop, Fresh, MP!IInv, [Next]_ingestionVars
  PROVE  TypeOK'
  <1>0. ML!TypeOK'
    BY CallsSound
  <1>00. /\ MaxTries \in Nat /\ MaxCrashes \in Nat /\ MaxFaults \in Nat
         /\ MaxSends \in [Events -> Nat]
    BY FileIngestionAssumption DEF FileIngestionAssumption
  <1>1. CASE UNCHANGED ingestionVars
    BY <1>0, <1>00, <1>1 DEF TypeOK, ingestionVars, queue, days, lambda, sent, history
  <1>2. CASE Tick
    BY <1>0, <1>00, <1>2 DEF Tick, TypeOK, queue, days, lambda, sent, history
  <1>3. ASSUME NEW e \in Events, Upload(e) PROVE TypeOK'
    BY <1>0, <1>00, <1>3 DEF Upload, TypeOK, days, lambda, sent, history
  <1>4. ASSUME NEW e \in Events, Invoke(e) PROVE TypeOK'
    BY <1>0, <1>00, <1>4 DEF Invoke, TypeOK, days, sent, history
  <1>5. CASE FilterDuplicates
    BY <1>0, <1>00, <1>5 DEF FilterDuplicates, TypeOK, queue, days, sent, history
  <1>6. CASE RefuseEvent
    BY <1>0, <1>00, <1>6 DEF RefuseEvent, Fail, TypeOK, queue, days, sent, history
  <1>7. CASE GetObjects \/ ParseFails \/ ParseTDI
    BY <1>0, <1>00, <1>7 DEF GetObjects, ParseFails, ParseTDI, AtFile, TypeOK, queue, days, sent, history
  <1>8. CASE ParseSales
    BY <1>0, <1>00, <1>8 DEF ParseSales, AtFile, TypeOK, queue, days, sent, history
  <1>9. ASSUME NEW r \in Rules, CreateDaily(r) PROVE TypeOK'
    BY <1>0, <1>00, <1>9 DEF CreateDaily, TypeOK, queue, lambda, sent, history
  <1>10. CASE SaveFileUploaded
    <2>1. file \in Files
      BY <1>10, FileAtHand DEF SaveFileUploaded, Loop, Working
    <2>2. fileRows' \in [Files -> Nat]
      BY <1>10, <2>1 DEF SaveFileUploaded, TypeOK
    <2> QED BY <1>0, <1>10, <2>2 DEF SaveFileUploaded, TypeOK, queue, days, sent, history
  <1>11. CASE UpdateDailyRecordSuccess
    BY <1>0, <1>00, <1>11 DEF UpdateDailyRecordSuccess, TypeOK, queue, sent, history
  <1>12. CASE SaveFileFails \/ SaveAlertFails
    BY <1>0, <1>00, <1>12 DEF SaveFileFails, SaveAlertFails, MayFail, TypeOK, queue, days, sent
  <1>13. ASSUME NEW f \in Files, SaveEntities(f) PROVE TypeOK'
    BY <1>0, <1>00, <1>13 DEF SaveEntities, TypeOK, queue, days, sent, history
  <1>14. ASSUME NEW f \in Files, NEW i \in call[f].inFlight, EntitySaved(f, i) PROVE TypeOK'
    BY <1>0, <1>00, <1>14 DEF EntitySaved, TypeOK, queue, days, lambda, sent, history
  <1>15. ASSUME NEW f \in Files, NEW i \in call[f].inFlight, EntityRejected(f, i) PROVE TypeOK'
    BY <1>0, <1>00, <1>15 DEF EntityRejected, MayFail, TypeOK, queue, days, lambda, sent
  <1>16. ASSUME NEW f \in Files, EntitiesSaved(f) PROVE TypeOK'
    BY <1>0, <1>00, <1>16 DEF EntitiesSaved, Rest, TypeOK, queue, days, sent, history
  <1>17. ASSUME NEW f \in Files, EntitiesRejected(f) PROVE TypeOK'
    BY <1>0, <1>00, <1>17 DEF EntitiesRejected, TypeOK, queue, days, sent, history
  <1>18. CASE Alerted
    <2>1. PICK o \in {"mailed", "nobody", "lost"} : AlertEnds(o)
      BY <1>18 DEF Alerted, ValidationAlert, AlertMailFails
    <2>2. alerts' \in [Files -> {"none", "mailed", "nobody", "lost"}]
      BY <2>1 DEF AlertEnds, TypeOK
    <2>3. faults' \in 0 .. MaxFaults
      BY <1>00, <1>18 DEF Alerted, ValidationAlert, AlertMailFails, MayFail, TypeOK
    <2> QED BY <1>0, <1>00, <2>1, <2>2, <2>3 DEF AlertEnds, Rest, TypeOK, queue, days
  <1>22. CASE ValidationAlertFails
    <2>1. pc # "idle" /\ file \in Files
      BY <1>22, FileAtHand DEF ValidationAlertFails, Loop, Working
    <2> QED BY <1>0, <1>00, <1>22, <2>1
            DEF ValidationAlertFails, Return, MayFail, TypeOK, queue, days, sent
  <1>19. CASE TriggerReconcile \/ HandlerFails
    <2>1. tries' \in [Events -> 0 .. MaxTries]
      BY <1>00, <1>19 DEF TriggerReconcile, HandlerFails, Return, TypeOK
    <2>2. messages' \subseteq [date : Dates, byPass : BOOLEAN]
      <3> [date |-> today, byPass |-> FALSE] \in [date : Dates, byPass : BOOLEAN]
        BY DEF TypeOK
      <3>1. \/ messages' = messages
            \/ messages' = messages \cup {[date |-> today, byPass |-> FALSE]}
        BY <1>19 DEF TriggerReconcile, HandlerFails, sent
      <3>2. messages \subseteq [date : Dates, byPass : BOOLEAN]
        BY DEF TypeOK
      <3> QED BY <3>1, <3>2
    <2>3. faults' \in 0 .. MaxFaults /\ crashes' = crashes /\ killed' = killed
      BY <1>00, <1>19 DEF TriggerReconcile, HandlerFails, MayFail, TypeOK, history
    <2>4. alerts' = alerts
      BY <1>19 DEF TriggerReconcile, HandlerFails, sent
    <2> QED BY <1>0, <1>19, <2>1, <2>2, <2>3, <2>4
            DEF TriggerReconcile, HandlerFails, Return, TypeOK, days
  <1>20. CASE Crash
    <2>1. AtHand \subseteq Files
      BY <1>20, FileAtHand DEF AtHand, Crash
    <2> QED BY <1>0, <1>00, <1>20, <2>1 DEF Crash, Fail, TypeOK, queue, days, sent, ML!InFlight
  <1>21. CASE Recycle
    BY <1>0, <1>00, <1>21 DEF Recycle, TypeOK, queue, days, lambda, sent, history
  <1> QED BY <1>1, <1>2, <1>3, <1>4, <1>5, <1>6, <1>7, <1>8, <1>9, <1>10, <1>11, <1>12, <1>13,
             <1>14, <1>15, <1>16, <1>17, <1>18, <1>19, <1>20, <1>21, <1>22
          DEF Next, Arrivals, Parser, Faults, Alerted

LEMMA LoopStep ==
  ASSUME TypeOK, Loop, [Next]_ingestionVars
  PROVE  Loop'
  <1>1. CASE UNCHANGED lambda
    BY <1>1 DEF Loop, Working, lambda
  <1>2. CASE pc' \in {"idle", "filter"} /\ parseList' = {}
    BY <1>2 DEF Loop, Working
  <1>3. CASE FilterDuplicates
    BY <1>3 DEF FilterDuplicates, Loop, Working
  <1>4. CASE GetObjects
    BY <1>4 DEF GetObjects, Loop, Working
  <1>5. CASE AtFile /\ pc' \in {"daily", "alert"} /\ UNCHANGED <<event, parseList>>
    BY <1>5 DEF AtFile, Loop, Working
  <1>6. CASE Working /\ Working' /\ UNCHANGED <<event, parseList>>
    BY <1>6 DEF Loop, Working
  <1>7. CASE Alerted \/ \E f \in Files : EntitiesSaved(f)
    <2>1. Working /\ pc' = "next" /\ event' = event /\ parseList' \subseteq parseList
      BY <1>7 DEF Alerted, ValidationAlert, AlertMailFails, AlertEnds, EntitiesSaved, Working, Rest
    <2> QED BY <2>1 DEF Loop, Working
  <1> QED BY <1>1, <1>2, <1>3, <1>4, <1>5, <1>6, <1>7, ListFrame

\* fn is started before its call resolves.
LEMMA OpenCalls ==
  ASSUME MP!IInv
  PROVE  \A f \in ML!InFlight : call[f].next > 0 /\ call[f] # ML!NotCalled(f)
  <1> SUFFICES ASSUME NEW f \in ML!InFlight PROVE call[f].next > 0 /\ call[f] # ML!NotCalled(f)
    OBVIOUS
  <1>1. f \in Files /\ call[f].inFlight # {}
    BY DEF ML!InFlight
  <1>2. ML!NotCalled(f).inFlight = {} /\ MP!NotCalled(f) = ML!NotCalled(f)
    BY SameCalls DEF ML!NotCalled
  <1>3. call[f].next \in Nat /\ (call[f].next = 0 => call[f] = MP!NotCalled(f))
    BY <1>1 DEF MP!IInv, MP!Sound, MP!CallState, MP!Counted
  <1> QED BY <1>1, <1>2, <1>3

\* What becomes of a call in a step: it starts, when the entities of the file at
\* hand are to be saved, or goes on if it is in flight, or is left alone.
LEMMA CallOf ==
  ASSUME TypeOK, [Next]_ingestionVars, NEW f \in Files
  PROVE  \/ call'[f] = call[f]
         \/ /\ pc = "save" /\ pc' = "saving" /\ f = file /\ f = file'
            /\ call'[f] = ML!Started(f)
         \/ \E i \in call[f].inFlight : EntitySaved(f, i) /\ call'[f] = ML!TakeNext(f, i)
         \/ \E i \in call[f].inFlight : EntityRejected(f, i) /\ call'[f] = ML!Reject(f, i)
         \/ f \in ML!InFlight /\ call'[f] = ML!Frozen(f) /\ pc' = "idle"
  <1>0. DOMAIN call = Files
    BY DEF TypeOK, ML!TypeOK
  <1>1. ASSUME NEW g \in Files, SaveEntities(g)
        PROVE  \/ call'[f] = call[f]
               \/ /\ pc = "save" /\ pc' = "saving" /\ f = file /\ f = file'
                  /\ call'[f] = ML!Started(f)
    BY <1>0, <1>1, SameFile DEF SaveEntities
  <1>2. ASSUME NEW g \in Files, NEW i \in call[g].inFlight, EntitySaved(g, i)
        PROVE  \/ call'[f] = call[f]
               \/ \E j \in call[f].inFlight : EntitySaved(f, j) /\ call'[f] = ML!TakeNext(f, j)
    BY <1>0, <1>2 DEF EntitySaved, ML!Resume
  <1>3. ASSUME NEW g \in Files, NEW i \in call[g].inFlight, EntityRejected(g, i)
        PROVE  \/ call'[f] = call[f]
               \/ \E j \in call[f].inFlight : EntityRejected(f, j) /\ call'[f] = ML!Reject(f, j)
    BY <1>0, <1>3 DEF EntityRejected, ML!Throw
  <1>4. CASE Crash \/ Recycle
    <2>1. call'[f] = ML!Frozen(f) /\ pc' = "idle"
      BY <1>4 DEF Crash, Recycle, Fail, lambda, ML!Stop
    <2>2. f \notin ML!InFlight => ML!Frozen(f) = call[f]
      BY DEF ML!Frozen
    <2> QED BY <2>1, <2>2
  <1> QED BY <1>1, <1>2, <1>3, <1>4, CallsFrame

\* A call that was not made stays so but for SaveEntities; one that was made
\* goes on counting.
LEMMA CallMoves ==
  ASSUME TypeOK, MP!IInv, [Next]_ingestionVars, NEW f \in Files
  PROVE  /\ call[f] = ML!NotCalled(f) /\ ~(pc' = "saving" /\ f = file) => call'[f] = call[f]
         /\ call[f].next > 0 => call'[f].next > 0
  <1>1. call[f] \in ML!CallState(f)
    BY DEF TypeOK, ML!TypeOK
  <1>2. Limit \in Nat \ {0}
    BY FileIngestionAssumption DEF FileIngestionAssumption, ML!MapLimitAssumption
  <1>3. call[f].next \in Nat
    BY <1>1 DEF ML!CallState
  <1>4. ML!Started(f).next > 0
    BY <1>2 DEF ML!Started
  <1>5. ASSUME NEW i, call'[f] = ML!TakeNext(f, i) PROVE call'[f].next = call[f].next + 1
    BY <1>1, <1>5 DEF ML!TakeNext, ML!CallState
  <1>6. ASSUME NEW i, call'[f] = ML!Reject(f, i) PROVE call'[f].next = call[f].next
    BY <1>1, <1>6 DEF ML!Reject, ML!CallState
  <1>7. ASSUME call'[f] = ML!Frozen(f) PROVE call'[f].next = call[f].next
    BY <1>1, <1>7 DEF ML!Frozen, ML!CallState
  <1>8. call[f].inFlight # {} => call[f] # ML!NotCalled(f)
    BY OpenCalls DEF ML!InFlight
  <1>9. f \in ML!InFlight => call[f].inFlight # {}
    BY DEF ML!InFlight
  <1> QED BY <1>3, <1>4, <1>5, <1>6, <1>7, <1>8, <1>9, CallOf

LEMMA RowOf ==
  ASSUME TypeOK, Loop, Fresh, [Next]_ingestionVars, NEW f \in Files
  PROVE  \/ fileRows'[f] = fileRows[f]
         \/ /\ SaveFileUploaded /\ f = file /\ fileRows[f] = 0 /\ fileRows'[f] = 1
            /\ position \in parseList
  <1>1. CASE UNCHANGED fileRows
    BY <1>1
  <1>2. CASE SaveFileUploaded
    <2>1. pc = "daily" /\ parseList # {}
      BY <1>2 DEF SaveFileUploaded, Loop, Working
    <2>2. position \in parseList /\ file \in Files
      BY <2>1, FileAtHand
    <2>3. fileRows[file] = 0
      BY <2>1, <2>2 DEF Fresh, file
    <2>4. fileRows'[f] = IF f = file THEN fileRows[f] + 1 ELSE fileRows[f]
      BY <1>2 DEF SaveFileUploaded, TypeOK
    <2> QED BY <1>2, <2>2, <2>3, <2>4
  <1> QED BY <1>1, <1>2, RowsFrame

LEMMA FreshStep ==
  ASSUME TypeOK, Loop, Fresh, MP!IInv, [Next]_ingestionVars
  PROVE  Fresh'
  <1>1. \A f \in Files : fileRows'[f] <= 1
    BY RowOf DEF Fresh
  <1>2. \A f \in Files : fileRows'[f] = 0 => call'[f] = ML!NotCalled(f)
    <2> SUFFICES ASSUME NEW f \in Files, fileRows'[f] = 0 PROVE call'[f] = ML!NotCalled(f)
      OBVIOUS
    <2>1. fileRows[f] = 0 /\ call[f] = ML!NotCalled(f)
      BY RowOf DEF Fresh
    <2>2. ~(pc' = "saving" /\ f = file)
      <3>1. pc' = "saving" => pc \in {"save", "saving"}
        BY TurnFrame DEF lambda, SaveFileUploaded, UpdateDailyRecordSuccess, SaveEntities
      <3> QED BY <2>1, <3>1 DEF Fresh
    <2> QED BY <2>1, <2>2, CallMoves
  <1>3. pc' \in {"objects", "next", "daily"} =>
          \A i \in parseList' : fileRows'[Records[event'][i]] = 0
    <2>1. CASE UNCHANGED lambda
      <3>1. ~SaveFileUploaded
        BY <2>1 DEF SaveFileUploaded, lambda
      <3> QED BY <2>1, <3>1, RowsFrame DEF Fresh, lambda
    <2>2. CASE FilterDuplicates
      BY <2>2 DEF FilterDuplicates
    <2>3. CASE GetObjects
      BY <2>3 DEF GetObjects, Fresh
    <2>4. CASE AtFile /\ UNCHANGED <<event, parseList, fileRows>>
      BY <2>4 DEF AtFile, Fresh
    <2>5. CASE Alerted \/ \E f \in Files : EntitiesSaved(f)
      <3>1. Working /\ event' = event /\ parseList' = Rest /\ fileRows' = fileRows
        BY <2>5 DEF Alerted, ValidationAlert, AlertMailFails, AlertEnds, EntitiesSaved, Working
      <3> QED BY <3>1 DEF Fresh
    <2> QED BY <2>1, <2>2, <2>3, <2>4, <2>5, ListFrame DEF Working
  <1>4. Working' => \A i \in Rest' : fileRows'[Records[event'][i]] = 0
    <2>0. ASSUME Working, NEW i \in Rest, UNCHANGED <<event, parseList>>
          PROVE  fileRows'[Records[event][i]] = 0
      <3>1. pc # "idle" /\ parseList # {}
        BY <2>0 DEF Working, Loop
      <3>2. Records[event][i] \in Files /\ Records[event][i] # file
        BY <3>1, FileAtHand DEF Rest
      <3>3. fileRows[Records[event][i]] = 0
        BY <2>0 DEF Fresh
      <3> QED BY <3>2, <3>3, RowOf
    <2>1. CASE Working /\ UNCHANGED <<event, parseList>>
      BY <2>0, <2>1, SameFile
    <2>2. CASE AtFile /\ UNCHANGED <<event, parseList, fileRows>>
      BY <2>2 DEF AtFile, Fresh, Rest
    <2>3. CASE UNCHANGED lambda
      BY <2>1, <2>3 DEF lambda, Working
    <2>4. Working' => \/ Working /\ UNCHANGED <<event, parseList>>
                      \/ AtFile /\ UNCHANGED <<event, parseList, fileRows>>
                      \/ UNCHANGED lambda
      BY ListFrame DEF Working, FilterDuplicates, GetObjects, Alerted, ValidationAlert,
                       AlertMailFails, AlertEnds, EntitiesSaved
    <2> QED BY <2>1, <2>2, <2>3, <2>4
  <1>5. pc' \in {"success", "save", "saving"} => fileRows'[file'] = 1
    <2>1. CASE UNCHANGED lambda
      <3>1. ~SaveFileUploaded
        BY <2>1 DEF SaveFileUploaded, lambda
      <3> QED BY <2>1, <3>1, RowsFrame, SameFile DEF Fresh, lambda
    <2>2. CASE SaveFileUploaded
      <3>1. file \in Files /\ file' = file
        BY <2>2, FileAtHand, SameFile DEF SaveFileUploaded, Loop, Working
      <3>2. ~UNCHANGED lambda
        BY <2>2 DEF SaveFileUploaded, lambda
      <3>3. fileRows[file] = 0
        BY <2>2, FileAtHand DEF SaveFileUploaded, Loop, Working, Fresh, file
      <3>4. fileRows'[file] = fileRows[file] + 1
        BY <2>2, <3>1 DEF SaveFileUploaded, TypeOK
      <3> QED BY <3>1, <3>3, <3>4
    <2>3. CASE UpdateDailyRecordSuccess \/ \E f \in Files : SaveEntities(f)
      <3>1. pc \in {"success", "save"} /\ fileRows' = fileRows /\ UNCHANGED <<event, parseList>>
        BY <2>3 DEF UpdateDailyRecordSuccess, SaveEntities
      <3> QED BY <3>1, SameFile DEF Fresh
    <2> QED BY <2>1, <2>2, <2>3, TurnFrame
  <1>6. pc' \in {"success", "save"} => call'[file'] = ML!NotCalled(file')
    <2> SUFFICES ASSUME pc' \in {"success", "save"} PROVE call'[file'] = ML!NotCalled(file')
      OBVIOUS
    <2>1. pc \in {"daily", "success", "save"} /\ UNCHANGED <<event, parseList>>
      BY TurnFrame DEF lambda, SaveFileUploaded, UpdateDailyRecordSuccess, SaveEntities
    <2>2. file \in Files /\ position \in parseList
      BY <2>1, FileAtHand DEF Loop, Working
    <2>3. call[file] = ML!NotCalled(file)
      <3>1. pc = "daily" => fileRows[file] = 0
        BY <2>2 DEF Fresh, file
      <3> QED BY <2>1, <2>2, <3>1 DEF Fresh
    <2> QED BY <2>1, <2>2, <2>3, CallMoves, SameFile
  <1>7. pc' = "saving" => call'[file'].next > 0
    <2> SUFFICES ASSUME pc' = "saving" PROVE call'[file'].next > 0
      OBVIOUS
    <2>1. CASE UNCHANGED lambda
      <3>1. file \in Files /\ file' = file
        BY <2>1, FileAtHand, SameFile DEF Loop, Working, lambda
      <3>2. call[file].next > 0
        BY <2>1 DEF Fresh, lambda
      <3> QED BY <3>1, <3>2, CallMoves
    <2>2. ASSUME NEW f \in Files, SaveEntities(f) PROVE call'[file'].next > 0
      <3>1. file' = f /\ call'[f] = ML!Started(f)
        BY <2>2, SameFile DEF SaveEntities, TypeOK, ML!TypeOK
      <3>2. Limit \in Nat \ {0}
        BY FileIngestionAssumption DEF FileIngestionAssumption, ML!MapLimitAssumption
      <3> QED BY <3>1, <3>2 DEF ML!Started
    <2> QED BY <2>1, <2>2, TurnFrame DEF SaveFileUploaded, UpdateDailyRecordSuccess
  <1> QED BY <1>1, <1>2, <1>3, <1>4, <1>5, <1>6, <1>7 DEF Fresh

\* A rejected save stays one.
LEMMA RejectsStays ==
  ASSUME TypeOK, Loop, Fresh, MP!IInv, [Next]_ingestionVars, NEW f \in Files, ML!Rejects(f)
  PROVE  ML!Rejects(f)'
  <1>1. call[f] \in ML!CallState(f) /\ call[f].rejected # {}
    BY DEF TypeOK, ML!TypeOK, ML!Rejects
  <1>2. ~(pc = "save" /\ f = file)
    <2>1. ML!NotCalled(f).rejected = {}
      BY DEF ML!NotCalled
    <2> QED BY <1>1, <2>1 DEF Fresh
  <1>3. ASSUME NEW i, call'[f] = ML!TakeNext(f, i) PROVE call'[f].rejected = call[f].rejected
    BY <1>1, <1>3 DEF ML!TakeNext, ML!CallState
  <1>4. ASSUME NEW i, call'[f] = ML!Reject(f, i) PROVE call'[f].rejected = call[f].rejected \cup {i}
    BY <1>1, <1>4 DEF ML!Reject, ML!CallState
  <1>5. ASSUME call'[f] = ML!Frozen(f) PROVE call[f].rejected \subseteq call'[f].rejected
    BY <1>1, <1>5 DEF ML!Frozen, ML!CallState
  <1>6. call[f].rejected \subseteq call'[f].rejected
    BY <1>2, <1>3, <1>4, <1>5, CallOf
  <1> QED BY <1>1, <1>6 DEF ML!Rejects

LEMMA AbandonedStep ==
  ASSUME TypeOK, Loop, Fresh, MP!IInv, Abandoned, [Next]_ingestionVars
  PROVE  Abandoned'
  <1> SUFFICES ASSUME NEW f \in Files, call'[f].inFlight # {}, ~ML!Rejects(f)'
               PROVE  pc' = "saving" /\ f = file'
    BY DEF Abandoned, ML!InFlight
  <1>1. ~ML!Rejects(f)
    BY RejectsStays
  <1>2. CASE call[f].inFlight = {}
    <2>1. f \notin ML!InFlight /\ call'[f] # call[f]
      BY <1>2 DEF ML!InFlight
    <2> QED BY <1>2, <2>1, CallOf
  <1>3. CASE call[f].inFlight # {}
    <2>1. pc = "saving" /\ f = file
      BY <1>1, <1>3 DEF Abandoned, ML!InFlight
    <2>2. ~EntitiesSaved(f) /\ ~EntitiesRejected(f)
      BY <1>1, <1>3 DEF EntitiesSaved, EntitiesRejected, ML!Resolves
    <2>3. ~Crash
      <3>1. f \in ML!InFlight /\ call[f] \in ML!CallState(f)
        BY <1>3 DEF ML!InFlight, TypeOK, ML!TypeOK
      <3>2. ML!Frozen(f).inFlight = {}
        BY <3>1 DEF ML!Frozen, ML!CallState
      <3>3. Crash => call'[f] = ML!Frozen(f)
        BY DEF Crash, ML!Stop
      <3> QED BY <3>2, <3>3
    <2>4. UNCHANGED lambda
      BY <2>1, <2>2, <2>3, SavingFrame DEF EntitiesSaved, EntitiesRejected
    <2> QED BY <2>1, <2>4, SameFile DEF lambda
  <1> QED BY <1>2, <1>3
-----------------------------------------------------------------------------
\* A file at hand stays so, unless it is saved as a whole or an alert returns, or
\* the parser gives up, which it does without a word only before there is a row.
LEMMA HandStays ==
  ASSUME TypeOK, Loop, Fresh, [Next]_ingestionVars, NEW f \in AtHand, fileRows[f] > 0
  PROVE  f \in AtHand' \cup killed' \/ EntitiesSaved(f) \/ (Alerted /\ f = file)
  <1>1. f = file /\ parseList # {} /\ (pc = "next" \/ Working)
    BY DEF AtHand, TypeOK, Working
  <1>2. CASE UNCHANGED lambda
    BY <1>2, SameFile DEF lambda
  <1>3. CASE Crash \/ ValidationAlertFails
    BY <1>1, <1>3 DEF Crash, ValidationAlertFails
  <1>4. CASE FilterDuplicates \/ GetObjects
    BY <1>1, <1>4 DEF FilterDuplicates, GetObjects, Working
  <1>5. CASE (Working' \/ pc' \in {"daily", "alert"}) /\ UNCHANGED <<event, parseList>>
    <2>1. AtHand' = {file'} /\ file' = file
      BY <1>1, <1>5, SameFile DEF AtHand, Working
    <2> QED BY <1>1, <2>1
  <1>6. ASSUME NEW g \in Files, EntitiesSaved(g) PROVE EntitiesSaved(f)
    BY <1>1, <1>6 DEF EntitiesSaved
  <1>7. ~HandlerFails
    <2>1. ASSUME pc = "next" PROVE FALSE
      <3>1. position \in parseList
        BY <1>1, <2>1, FileAtHand
      <3> QED BY <1>1, <2>1, <3>1 DEF Fresh, file
    <2> QED BY <2>1 DEF HandlerFails
  <1> QED BY <1>1, <1>2, <1>3, <1>4, <1>5, <1>6, <1>7, ListFrame

\* validationAlert says something of the file at hand, and of no other.
LEMMA AlertOf ==
  ASSUME TypeOK, Loop, [Next]_ingestionVars, NEW f \in Files
  PROVE  \/ alerts'[f] = alerts[f] /\ ~(Alerted /\ f = file)
         \/ /\ Alerted /\ f = file /\ pc \in {"saveAlert", "alert"}
            /\ \/ alerts'[f] = "mailed"
               \/ alerts'[f] = "nobody" /\ ValidationDestinations(f) = {}
               \/ alerts'[f] = "lost" /\ faults' = faults + 1
  <1>0. alerts \in [Files -> {"none", "mailed", "nobody", "lost"}]
    BY DEF TypeOK
  <1>1. CASE ValidationAlert
    <2>1. alerts' = [alerts EXCEPT ![file] = IF ValidationDestinations(file) = {} THEN "nobody"
                                             ELSE "mailed"]
      BY <1>1 DEF ValidationAlert, AlertEnds
    <2>2. pc \in {"saveAlert", "alert"}
      BY <1>1 DEF ValidationAlert, AlertEnds
    <2> QED BY <1>0, <1>1, <2>1, <2>2 DEF Alerted
  <1>2. CASE AlertMailFails
    <2>1. alerts' = [alerts EXCEPT ![file] = "lost"] /\ pc \in {"saveAlert", "alert"}
      BY <1>2 DEF AlertMailFails, AlertEnds
    <2>2. faults' = faults + 1
      BY <1>2 DEF AlertMailFails
    <2> QED BY <1>0, <1>2, <2>1, <2>2 DEF Alerted
  <1>3. CASE ~Alerted
    BY <1>3, ToldFrame
  <1> QED BY <1>1, <1>2, <1>3 DEF Alerted

LEMMA AfterFailureStep ==
  ASSUME TypeOK, Loop, Fresh, AfterFailure, [Next]_ingestionVars
  PROVE  AfterFailure'
  <1>0. faults \in Nat /\ faults' \in {faults, faults + 1}
    BY FailureFrame DEF TypeOK
  <1>1. ASSUME pc' \in {"saveAlert", "alert"}, fileRows'[file'] > 0
        PROVE  faults' > 0
    <2>1. fileRows' = fileRows
      BY <1>1, RowsFrame DEF SaveFileUploaded
    <2>2. CASE UNCHANGED lambda
      BY <1>0, <1>1, <2>1, <2>2, SameFile DEF lambda, AfterFailure
    <2>3. CASE AtFile /\ UNCHANGED <<event, parseList>>
      <3>1. position \in parseList /\ file' = file
        BY <2>3, FileAtHand, SameFile DEF AtFile
      <3> QED BY <1>1, <2>1, <2>3, <3>1 DEF AtFile, Fresh, file
    <2>4. CASE SaveFileFails \/ SaveAlertFails
      BY <1>0, <2>4 DEF SaveFileFails, SaveAlertFails
    <2>5. ASSUME NEW f \in Files, EntitiesRejected(f) PROVE faults' > 0
      BY <1>0, <2>5 DEF EntitiesRejected, AfterFailure
    <2> QED BY <1>1, <2>2, <2>3, <2>4, <2>5, AlertFrame
  <1>2. ASSUME pc' = "saving", ML!Rejects(file)'
        PROVE  faults' > 0
    <2>1. PICK f \in Files : f = file' /\ call'[f].rejected # {}
      <3>1. pc' = "saving" => pc \in {"save", "saving"} /\ UNCHANGED <<event, parseList>>
        BY TurnFrame DEF lambda, SaveFileUploaded, UpdateDailyRecordSuccess, SaveEntities
      <3>2. file \in Files /\ file' = file
        BY <1>2, <3>1, FileAtHand, SameFile DEF Loop, Working
      <3> QED BY <1>2, <3>2 DEF ML!Rejects
    <2>2. ASSUME NEW g \in Files, SaveEntities(g) PROVE FALSE
      <3>1. file' = g /\ call'[g] = ML!Started(g)
        BY <2>2, SameFile DEF SaveEntities, TypeOK, ML!TypeOK
      <3> QED BY <2>1, <3>1 DEF ML!Started
    <2>3. pc = "saving" /\ f = file
      BY <1>2, <2>1, <2>2, TurnFrame, SameFile
         DEF lambda, SaveFileUploaded, UpdateDailyRecordSuccess
    <2>4. CASE call[f].rejected # {}
      BY <1>0, <2>3, <2>4 DEF AfterFailure, ML!Rejects
    <2>5. CASE call[f].rejected = {}
      <3>1. call[f] \in ML!CallState(f)
        BY DEF TypeOK, ML!TypeOK
      <3>2. ASSUME NEW i, call'[f] = ML!TakeNext(f, i) PROVE FALSE
        <4>1. call'[f].rejected = call[f].rejected
          BY <3>1, <3>2 DEF ML!TakeNext, ML!CallState
        <4> QED BY <2>1, <2>5, <4>1
      <3>3. PICK i \in call[f].inFlight : EntityRejected(f, i)
        BY <1>2, <2>1, <2>3, <2>5, <3>2, CallOf
      <3> QED BY <1>0, <3>3 DEF EntityRejected
    <2> QED BY <2>4, <2>5
  <1> QED BY <1>1, <1>2 DEF AfterFailure

\* No worker of a call whose elements are all done is left.
LEMMA WholeStays ==
  ASSUME TypeOK, Loop, Fresh, MP!IInv, [Next]_ingestionVars, NEW f \in Files,
         fileRows[f] > 0, Saved(f) = AllRows(f)
  PROVE  (Saved(f) = AllRows(f))'
  <1>1. call[f] \in ML!CallState(f)
    BY DEF TypeOK, ML!TypeOK
  <1>2. call[f].inFlight \subseteq AllRows(f)
    BY <1>1 DEF ML!CallState, AllRows
  <1>3. call[f].inFlight \cap Saved(f) = {}
    BY DEF Saved, ML!DoneElements
  <1>4. call[f].inFlight = {}
    BY <1>2, <1>3
  <1>5. CASE call'[f] = call[f]
    BY <1>5 DEF Saved, AllRows, ML!DoneElements
  <1>6. CASE pc = "save" /\ f = file
    <2>1. call[f] = ML!NotCalled(f)
      BY <1>6 DEF Fresh
    <2>2. Saved(f) = {}
      BY <2>1 DEF Saved, ML!DoneElements, ML!NotCalled
    <2>3. Saved(f)' \subseteq ML!Elements(f)
      BY DEF Saved, ML!DoneElements
    <2> QED BY <2>2, <2>3 DEF AllRows
  <1> QED BY <1>4, <1>5, <1>6, CallOf DEF ML!InFlight

LEMMA WholeStep ==
  ASSUME TypeOK, Loop, Fresh, MP!IInv, AfterFailure, WholeOrTold, [Next]_ingestionVars
  PROVE  WholeOrTold'
  <1> SUFFICES ASSUME NEW f \in Files, fileRows'[f] > 0
               PROVE  \/ (Saved(f) = AllRows(f))' \/ f \in AtHand' \cup killed'
                      \/ alerts'[f] = "mailed" \/ ValidationDestinations(f) = {}
                      \/ alerts'[f] = "lost" /\ faults' > 1
    BY DEF WholeOrTold, ValidationDestinations
  <1>1. CASE SaveFileUploaded /\ f = file
    <2>1. parseList # {} /\ pc' = "success" /\ file' = file /\ parseList' = parseList
      BY <1>1, SameFile DEF SaveFileUploaded, Loop, Working
    <2> QED BY <1>1, <2>1 DEF AtHand
  <1>2. CASE fileRows[f] > 0
    <2>1. CASE Saved(f) = AllRows(f)
      BY <1>2, <2>1, WholeStays
    <2>2. CASE EntitiesSaved(f)
      <3>1. ML!MapLimitAssumption
        BY FileIngestionAssumption DEF FileIngestionAssumption
      <3>2. MP!AllDone
        BY <3>1, SameCalls, MP!SoundCalls
      <3>3. Saved(f) = AllRows(f)
        BY <2>2, <3>2, SameCalls DEF EntitiesSaved, MP!AllDone, Saved, AllRows
      <3>4. call' = call
        BY <2>2 DEF EntitiesSaved
      <3> QED BY <3>3, <3>4 DEF Saved, AllRows, ML!DoneElements
    <2>3. faults \in Nat /\ faults' \in {faults, faults + 1} /\ killed \subseteq killed'
      BY FailureFrame DEF TypeOK
    <2>4. CASE Alerted /\ f = file /\ pc \in {"saveAlert", "alert"}
      <3>1. faults > 0
        BY <1>2, <2>4 DEF AfterFailure
      <3>2. faults' = faults + 1 => faults' > 1
        BY <2>3, <3>1
      <3> QED BY <2>4, <3>2, AlertOf
    <2>5. CASE alerts'[f] = alerts[f] /\ f \notin AtHand
      <3>1. faults > 1 => faults' > 1
        BY <2>3
      <3> QED BY <1>2, <2>1, <2>3, <2>5, <3>1 DEF WholeOrTold
    <2>6. CASE f \in AtHand /\ ~(Alerted /\ f = file)
      BY <1>2, <2>2, <2>6, HandStays
    <2> QED BY <2>4, <2>5, <2>6, AlertOf
  <1> QED BY <1>1, <1>2, RowOf
-----------------------------------------------------------------------------
\* The program of a file that is worked on is one with a rule.
LEMMA RuleOfFile ==
  ASSUME TypeOK, Loop, Working
  PROVE  ProgramOf[file] \in Rules /\ FileDate[file] \in Dates
  <1>1. /\ ProgramOf \in [Files -> Rules \cup {NoProgram}]
        /\ FileDate \in [Files -> Dates]
    BY FileIngestionAssumption DEF FileIngestionAssumption
  <1>2. position \in parseList /\ file \in Files
    BY FileAtHand DEF Loop, Working
  <1>3. ~Refused(file)
    BY <1>2 DEF Loop, file
  <1> QED BY <1>1, <1>2, <1>3 DEF Refused

\* A record of a day, once made, stays; a success stays a success.
LEMMA DailyStays ==
  ASSUME TypeOK, [Next]_ingestionVars, NEW r \in Rules, NEW d \in Dates
  PROVE  /\ daily[r][d] # "none" => daily'[r][d] # "none"
         /\ \/ daily'[r][d] = daily[r][d]
            \/ /\ daily'[r][d] = "open" /\ daily[r][d] = "none" /\ pc = "daily"
            \/ /\ UpdateDailyRecordSuccess /\ daily'[r][d] = "success"
               /\ MissingDailyFiles(r, DailyFiles(r, d)) = {}
  <1>0. daily \in [Rules -> [Dates -> {"none", "open", "success"}]]
    BY DEF TypeOK
  <1>1. ASSUME NEW q \in Rules, CreateDaily(q)
        PROVE  \/ daily'[r][d] = daily[r][d]
               \/ daily'[r][d] = "open" /\ daily[r][d] = "none" /\ pc = "daily"
    <2>1. daily[q][FileDate[file]] = "none" /\ pc = "daily"
      BY <1>1 DEF CreateDaily, DailyUploads
    <2>2. daily'[r][d] = IF r = q /\ d = FileDate[file] THEN "open" ELSE daily[r][d]
      BY <1>0, <1>1 DEF CreateDaily
    <2> QED BY <2>1, <2>2
  <1>2. CASE UpdateDailyRecordSuccess
    <2>1. \/ daily'[r][d] = daily[r][d]
          \/ /\ r = ProgramOf[file] /\ d = FileDate[file] /\ daily'[r][d] = "success"
             /\ MissingDailyFiles(r, DailyFiles(r, d)) = {}
      BY <1>0, <1>2 DEF UpdateDailyRecordSuccess
    <2> QED BY <1>2, <2>1
  <1> QED BY <1>1, <1>2, DaysFrame

LEMMA DaysMadeStep ==
  ASSUME TypeOK, Loop, Fresh, DaysMade, [Next]_ingestionVars
  PROVE  DaysMade'
  <1> SUFFICES ASSUME NEW f \in Files, fileRows'[f] > 0, NEW r \in Rules
               PROVE  daily'[r][FileDate[f]] # "none"
    BY DEF DaysMade, DailyUploads
  <1>1. FileDate[f] \in Dates
    BY FileIngestionAssumption DEF FileIngestionAssumption
  <1>2. daily[r][FileDate[f]] # "none"
    BY RowOf DEF DaysMade, DailyUploads, SaveFileUploaded
  <1> QED BY <1>1, <1>2, DailyStays

\* The files of a day grow by the one that is recorded.
LEMMA DailyFilesStep ==
  ASSUME TypeOK, Loop, Fresh, [Next]_ingestionVars, NEW r \in Rules, NEW d \in Dates
  PROVE  /\ DailyFiles(r, d) \subseteq DailyFiles(r, d)'
         /\ \/ DailyFiles(r, d)' = DailyFiles(r, d)
            \/ SaveFileUploaded /\ file \in DailyFiles(r, d)'
         /\ MissingDailyFiles(r, DailyFiles(r, d))' \subseteq MissingDailyFiles(r, DailyFiles(r, d))
  <1>1. \A f \in Files : (fileRows[f] > 0 => fileRows'[f] > 0)
    BY RowOf DEF TypeOK
  <1>2. DailyFiles(r, d) \subseteq DailyFiles(r, d)'
    BY <1>1 DEF DailyFiles
  <1>3. \/ DailyFiles(r, d)' = DailyFiles(r, d)
        \/ SaveFileUploaded /\ file \in DailyFiles(r, d)'
    <2>1. ASSUME NEW f \in DailyFiles(r, d)', f \notin DailyFiles(r, d)
          PROVE  SaveFileUploaded /\ f = file
      BY <2>1, RowOf DEF DailyFiles
    <2> QED BY <1>2, <2>1
  <1>4. MissingDailyFiles(r, DailyFiles(r, d))' \subseteq MissingDailyFiles(r, DailyFiles(r, d))
    BY <1>2 DEF MissingDailyFiles
  <1> QED BY <1>2, <1>3, <1>4

LEMMA DayDoneStep ==
  ASSUME TypeOK, Loop, Fresh, DayDone, [Next]_ingestionVars
  PROVE  DayDone'
  <1> SUFFICES ASSUME pc' \in {"save", "saving"}
               PROVE  DayDone'
    BY DEF DayDone
  <1>1. pc \in {"success", "save", "saving"} /\ UNCHANGED <<event, parseList>>
    BY TurnFrame DEF lambda, SaveFileUploaded, UpdateDailyRecordSuccess, SaveEntities
  <1>2. ProgramOf[file] \in Rules /\ FileDate[file] \in Dates
    BY <1>1, RuleOfFile DEF Working
  <1>3. PICK r \in Rules, d \in Dates : r = ProgramOf[file] /\ d = FileDate[file]
    BY <1>2
  <1>4. r = ProgramOf[file'] /\ d = FileDate[file']
    BY <1>1, <1>3, SameFile
  <1>5. DailyFiles(r, d)' = DailyFiles(r, d)
    BY <1>1, RowsFrame DEF DailyFiles, SaveFileUploaded
  <1>6. ASSUME daily'[r][d] = "open" PROVE MissingDailyFiles(r, DailyFiles(r, d)) # {}
    <2>1. CASE UpdateDailyRecordSuccess
      <3>1. daily \in [Rules -> [Dates -> {"none", "open", "success"}]]
        BY DEF TypeOK
      <3>2. MissingDailyFiles(r, DailyFiles(r, d)) = {} => daily'[r][d] = "success"
        BY <1>3, <2>1, <3>1 DEF UpdateDailyRecordSuccess
      <3> QED BY <1>6, <3>2
    <2>2. CASE ~UpdateDailyRecordSuccess
      <3>1. pc \in {"save", "saving"}
        BY <1>1, <2>2, TurnFrame DEF lambda, SaveFileUploaded, SaveEntities
      <3>2. daily[r][d] = "open"
        BY <1>6, <2>2, <3>1, DailyStays
      <3> QED BY <1>3, <3>1, <3>2 DEF DayDone
    <2> QED BY <2>1, <2>2
  <1>7. MissingDailyFiles(r, DailyFiles(r, d))' = MissingDailyFiles(r, DailyFiles(r, d))
    BY <1>5 DEF MissingDailyFiles
  <1> QED BY <1>4, <1>6, <1>7 DEF DayDone

LEMMA DayMarkedStep ==
  ASSUME TypeOK, Loop, Fresh, DaysMade, DayDone, DayMarked, [Next]_ingestionVars
  PROVE  DayMarked'
  <1> SUFFICES ASSUME NEW r \in Rules, NEW d \in Dates
               PROVE  LET missing == MissingDailyFiles(r, DailyFiles(r, d)) IN
                      /\ daily'[r][d] = "success" => missing' = {}
                      /\ daily'[r][d] = "open" /\ missing' = {} =>
                           DailyFiles(r, d)' \cap (AtHand' \cup Failed' \cup killed') # {}
    BY DEF DayMarked, Failed
  <1> DEFINE missing == MissingDailyFiles(r, DailyFiles(r, d))
  <1>0. missing' \subseteq missing
    BY DailyFilesStep
  <1>1. ASSUME daily'[r][d] = "success" PROVE missing' = {}
    <2>1. missing = {}
      BY <1>1, DailyStays DEF DayMarked
    <2> QED BY <1>0, <2>1
  <1>2. ASSUME daily'[r][d] = "open", missing' = {}
        PROVE  DailyFiles(r, d)' \cap (AtHand' \cup Failed' \cup killed') # {}
    <2>1. CASE SaveFileUploaded /\ file \in DailyFiles(r, d)'
      <3>1. parseList # {} /\ pc' = "success" /\ file' = file /\ parseList' = parseList
        BY <2>1, SameFile DEF SaveFileUploaded, Loop, Working
      <3>2. file \in AtHand'
        BY <3>1 DEF AtHand
      <3> QED BY <2>1, <3>2
    <2>2. CASE DailyFiles(r, d)' = DailyFiles(r, d)
      <3>0. missing = {}
        BY <1>2, <2>2 DEF MissingDailyFiles
      <3>1. CASE daily[r][d] = "open"
        <4>1. PICK f \in DailyFiles(r, d) : f \in AtHand \cup Failed \cup killed
          BY <3>0, <3>1 DEF DayMarked
        <4>2. CASE EntitiesSaved(f)
          <5>1. pc = "saving" /\ r = ProgramOf[file] /\ d = FileDate[file]
            BY <4>1, <4>2 DEF EntitiesSaved, DailyFiles
          <5> QED BY <3>0, <3>1, <5>1 DEF DayDone
        <4>3. f \in Files /\ fileRows[f] > 0
          BY <4>1 DEF DailyFiles
        <4>4. killed \subseteq killed'
          BY FailureFrame
        <4>5. f \in Failed => f \in Failed'
          BY <4>3, AlertOf DEF Failed
        <4>6. Alerted /\ f = file => f \in Failed'
          BY <4>3, AlertOf DEF Failed
        <4> QED BY <2>2, <4>1, <4>2, <4>3, <4>4, <4>5, <4>6, HandStays
      <3>2. CASE daily[r][d] = "none"
        <4>1. DailyFiles(r, d) = {}
          BY <3>2 DEF DailyFiles, DaysMade, DailyUploads
        <4>2. 1 \in DOMAIN RequiredFiles[r]
          BY FileIngestionAssumption DEF FileIngestionAssumption
        <4> QED BY <3>0, <4>1, <4>2 DEF MissingDailyFiles
      <3> QED BY <1>2, <3>1, <3>2, DailyStays
    <2> QED BY <2>1, <2>2, DailyFilesStep
  <1> QED BY <1>1, <1>2
-----------------------------------------------------------------------------
LEMMA StepHolds ==
  IInv /\ [Next]_ingestionVars => IInv'
  <1> SUFFICES ASSUME IInv, [Next]_ingestionVars PROVE IInv'
    OBVIOUS
  <1>1. /\ TypeOK /\ Loop /\ Fresh /\ MP!IInv /\ Abandoned
        /\ AfterFailure /\ WholeOrTold /\ DaysMade /\ DayDone /\ DayMarked
    BY DEF IInv
  <1>2. TypeOK' /\ Loop' /\ Fresh' /\ MP!IInv'
    BY <1>1, TypeStep, LoopStep, FreshStep, CallsSound
  <1>3. Abandoned' /\ AfterFailure' /\ WholeOrTold'
    BY <1>1, AbandonedStep, AfterFailureStep, WholeStep
  <1>4. DaysMade' /\ DayDone' /\ DayMarked'
    BY <1>1, DaysMadeStep, DayDoneStep, DayMarkedStep
  <1> QED BY <1>2, <1>3, <1>4 DEF IInv

LEMMA Inductive ==
  Spec => []IInv
  BY InitHolds, StepHolds, PTL DEF Spec

\* Every variable of the parser lambda keeps its type.
THEOREM TypeCorrect ==
  Spec => []TypeOK
  <1>1. IInv => TypeOK
    BY DEF IInv
  <1> QED BY <1>1, Inductive, PTL

\* Whatever is delivered twice, tried again or interrupted, a key is recorded
\* once and each of its lines is saved at most once.
THEOREM RecordedOnce ==
  Spec => []OnceRecorded
  <1>1. ML!MapLimitAssumption
    BY FileIngestionAssumption DEF FileIngestionAssumption
  <1>2. IInv => OnceRecorded
    <2> SUFFICES ASSUME IInv PROVE OnceRecorded
      OBVIOUS
    <2>1. MP!AtMostOnce
      BY <1>1, SameCalls, MP!SoundCalls DEF IInv
    <2>2. ML!AtMostOnce
      BY <2>1, SameCalls DEF ML!AtMostOnce, MP!AtMostOnce
    <2> QED BY <2>2 DEF IInv, Fresh, OnceRecorded
  <1> QED BY <1>2, Inductive, PTL

\* A recorded file is whole, or at hand, or the mail on it was sent, or the parser
\* was killed or gave up while it was at hand, unless nobody wants such mails or
\* there were two failures, of which the mail was one.
THEOREM RecordedIsWholeOrTold ==
  Spec => []WholeOrTold
  <1>1. IInv => WholeOrTold
    BY DEF IInv
  <1> QED BY <1>1, Inductive, PTL

\* The saves of a file are bounded by the limit, and all of them are done when
\* the parser goes on with the next file.
THEOREM SavesAreBounded ==
  Spec => []SavesInParallel
  <1>1. ML!MapLimitAssumption
    BY FileIngestionAssumption DEF FileIngestionAssumption
  <1>2. IInv => SavesInParallel
    <2> SUFFICES ASSUME IInv PROVE SavesInParallel
      OBVIOUS
    <2>1. MP!AtMostLimit /\ MP!AllDone
      BY <1>1, SameCalls, MP!SoundCalls DEF IInv
    <2>2. ML!AtMostLimit
      BY <2>1 DEF ML!AtMostLimit, MP!AtMostLimit, ML!Cardinality, MP!Cardinality
    <2>3. ASSUME NEW f \in Files, ML!Resolves(f) PROVE ML!DoneElements(f) = ML!Elements(f)
      BY <2>1, <2>3, SameCalls DEF MP!AllDone
    <2> QED BY <2>2, <2>3 DEF ML!AllDone, SavesInParallel
  <1> QED BY <1>2, Inductive, PTL

\* A day is marked as a success if and only if all its files are there, but for
\* a failure between the row of a file and the mark.
THEOREM DayIsMarked ==
  Spec => []DayMarked
  <1>1. IInv => DayMarked
    BY DEF IInv
  <1> QED BY <1>1, Inductive, PTL

\* The parser makes the calls of mapLimit as the function is made for: a file's
\* entities are handed to it once.
THEOREM CallsAreMapLimit ==
  Spec => MP!Spec
  <1>1. Init => MP!Init
    BY SameCalls DEF Init
  <1>2. IInv /\ [Next]_ingestionVars => [MP!Next]_call
    BY CallStep DEF IInv
  <1> QED BY <1>1, <1>2, Inductive, PTL DEF Spec, MP!Spec
-----------------------------------------------------------------------------
\* The state of Uploads, seen from the parser.
Uploaded == {f \in Files : fileRows[f] > 0}
SavedLines == [f \in Files |-> Saved(f)]
Hand == {f \in AtHand : fileRows[f] > 0}

LEMMA InitUploads ==
  Init => Contract!Init
  <1> SUFFICES ASSUME Init PROVE Contract!Init
    OBVIOUS
  <1>1. Uploaded = {} /\ Hand = {} /\ messages = {}
    BY DEF Init, Uploaded, Hand, AtHand
  <1>2. ASSUME NEW f \in Files PROVE Saved(f) = {}
    <2>1. call[f] = ML!NotCalled(f)
      BY DEF Init, ML!Init
    <2> QED BY <2>1 DEF Saved, ML!DoneElements, ML!NotCalled
  <1>3. SavedLines = [f \in Files |-> {}]
    BY <1>2 DEF SavedLines
  <1> QED BY <1>1, <1>3 DEF Contract!Init, Uploaded, Hand, SavedLines

\* No file waiting for its turn is at hand for Uploads.
LEMMA HandIsWorkedOn ==
  ASSUME TypeOK, Loop, Fresh, NEW f \in Hand
  PROVE  Working /\ pc # "daily" /\ f = file /\ f \in Files
  <1>1. f = file /\ parseList # {} /\ (pc = "next" \/ Working) /\ fileRows[f] > 0
    BY DEF Hand, AtHand, TypeOK, Working
  <1>2. position \in parseList /\ file \in Files
    BY <1>1, FileAtHand DEF Working
  <1>3. pc \in {"next", "daily"} => fileRows[file] = 0
    BY <1>2 DEF Fresh, file
  <1> QED BY <1>1, <1>2, <1>3

\* Only SaveFileUploaded takes a file in hand.
LEMMA HandShrinks ==
  ASSUME TypeOK, Loop, Fresh, TypeOK', Loop', Fresh', [Next]_ingestionVars, ~SaveFileUploaded
  PROVE  Hand' = Hand \/ Hand' = {}
  <1>1. fileRows' = fileRows
    BY RowsFrame
  <1>2. ASSUME NEW f \in Hand' PROVE f \in Hand /\ f = file
    <2>1. f \in AtHand' /\ fileRows[f] > 0
      BY <1>1 DEF Hand
    <2>2. CASE UNCHANGED lambda
      <3>1. f \in Hand
        BY <2>1, <2>2, SameFile DEF lambda, Hand
      <3> QED BY <3>1, HandIsWorkedOn
    <2>3. CASE Working /\ Working' /\ UNCHANGED <<event, parseList>>
      BY <2>1, <2>3, HandOf, SameFile DEF AtHand, Working, Hand, Loop
    <2>4. CASE AtFile /\ UNCHANGED <<event, parseList>>
      <3>1. f = file
        BY <2>1, <2>4, SameFile DEF AtHand
      <3>2. position \in parseList
        BY <2>4, FileAtHand DEF AtFile
      <3> QED BY <2>1, <2>4, <3>1, <3>2 DEF AtFile, Fresh, file
    <2>5. CASE pc' \in {"idle", "filter", "objects"}
      BY <2>1, <2>5 DEF AtHand
    <2>6. CASE pc' = "next"
      <3>1. f = file' /\ parseList' # {} /\ fileRows'[f] > 0
        BY <1>1, <2>1 DEF AtHand
      <3>2. position' \in parseList'
        BY <2>6, <3>1, FirstOfList DEF position, TypeOK
      <3> QED BY <2>6, <3>1, <3>2 DEF Fresh, file
    <2> QED BY <2>2, <2>3, <2>4, <2>5, <2>6, ListFrame
            DEF FilterDuplicates, GetObjects, Alerted, ValidationAlert, AlertMailFails, AlertEnds,
                EntitiesSaved
  <1>3. \A f \in Hand : f = file
    BY HandIsWorkedOn
  <1> QED BY <1>2, <1>3

\* Only a save that commits changes the lines that are saved.
LEMMA SavedStays ==
  ASSUME TypeOK, Loop, Fresh, MP!IInv, [Next]_ingestionVars, NEW f \in Files,
         \A i : ~EntitySaved(f, i)
  PROVE  Saved(f)' = Saved(f)
  <1>1. call[f] \in ML!CallState(f)
    BY DEF TypeOK, ML!TypeOK
  <1>2. CASE call'[f] = call[f]
    BY <1>2 DEF Saved, ML!DoneElements
  <1>3. CASE pc = "save" /\ f = file /\ call'[f] = ML!Started(f)
    <2>1. call[f] = ML!NotCalled(f)
      BY <1>3 DEF Fresh
    <2>2. Saved(f) = {}
      BY <2>1 DEF Saved, ML!DoneElements, ML!NotCalled
    <2>3. Saved(f)' = {}
      BY <1>3 DEF Saved, ML!DoneElements, ML!Started
    <2> QED BY <2>2, <2>3
  <1>4. ASSUME NEW i \in call[f].inFlight, call'[f] = ML!Reject(f, i)
        PROVE  Saved(f)' = Saved(f)
    <2>1. /\ call'[f].calls = call[f].calls /\ call'[f].inFlight = call[f].inFlight \ {i}
          /\ call'[f].rejected = call[f].rejected \cup {i}
      BY <1>1, <1>4 DEF ML!Reject, ML!CallState
    <2> QED BY <2>1 DEF Saved, ML!DoneElements
  <1>5. CASE f \in ML!InFlight /\ call'[f] = ML!Frozen(f)
    <2>1. /\ call'[f].calls = call[f].calls /\ call'[f].inFlight = {}
          /\ call'[f].rejected = call[f].rejected \cup call[f].inFlight
      BY <1>1, <1>5 DEF ML!Frozen, ML!CallState
    <2> QED BY <2>1 DEF Saved, ML!DoneElements
  <1> QED BY <1>2, <1>3, <1>4, <1>5, CallOf

\* The save of one element adds it to what is done, and nothing else.
LEMMA SaveAddsLine ==
  ASSUME TypeOK, MP!IInv, NEW f \in Files, NEW i \in call[f].inFlight, EntitySaved(f, i)
  PROVE  /\ i \in AllRows(f) \ Saved(f)
         /\ Saved(f)' = Saved(f) \cup {i}
         /\ \A g \in Files \ {f} : Saved(g)' = Saved(g)
         /\ (Saved(f) = AllRows(f))' => ML!Rejects(f) = FALSE
  <1>1. call[f] \in ML!CallState(f) /\ DOMAIN call = Files
    BY DEF TypeOK, ML!TypeOK
  <1>2. MP!Counted(f)
    BY DEF MP!IInv, MP!Sound
  <1>3. /\ \A j \in ML!Elements(f) : call[f].calls[j] = IF j < call[f].next THEN 1 ELSE 0
        /\ \A j \in call[f].inFlight \cup call[f].rejected : j < call[f].next
        /\ call[f].inFlight \cap call[f].rejected = {}
        /\ call[f].next \in Nat
    BY <1>1, <1>2, SameCalls DEF MP!Counted, ML!CallState
  <1>4. \A j \in ML!Elements(f) : j \in Int
    BY DEF ML!Elements
  <1>5. /\ call[f].inFlight \subseteq ML!Elements(f)
        /\ call[f].rejected \subseteq ML!Elements(f)
    BY <1>1 DEF ML!CallState
  <1>6. call' = [call EXCEPT ![f] = ML!TakeNext(f, i)]
    BY DEF EntitySaved, ML!Resume
  <1> DEFINE n == call[f].next
  <1>7. /\ call'[f].inFlight = (call[f].inFlight \ {i}) \cup (ML!Elements(f) \cap {n})
        /\ call'[f].rejected = call[f].rejected
        /\ \A j \in ML!Elements(f) :
             call'[f].calls[j] = IF j = n THEN call[f].calls[j] + 1 ELSE call[f].calls[j]
    BY <1>1, <1>6 DEF ML!TakeNext, ML!CallState
  <1>8. \A j \in ML!Elements(f) :
          /\ j \in Saved(f) <=> j < n /\ j \notin call[f].inFlight \cup call[f].rejected
          /\ j \in Saved(f)' <=> j <= n /\ j \notin call'[f].inFlight \cup call'[f].rejected
    BY <1>3, <1>4, <1>7 DEF Saved, ML!DoneElements
  <1>9. Saved(f) \subseteq ML!Elements(f) /\ Saved(f)' \subseteq ML!Elements(f)
    BY DEF Saved, ML!DoneElements
  <1>10. i \in AllRows(f) \ Saved(f)
    BY <1>5, <1>8 DEF AllRows
  <1>11. Saved(f)' = Saved(f) \cup {i}
    BY <1>3, <1>4, <1>5, <1>7, <1>8, <1>9
  <1>12. \A g \in Files \ {f} : Saved(g)' = Saved(g)
    BY <1>1, <1>6 DEF Saved, ML!DoneElements
  <1>13. (Saved(f) = AllRows(f))' => call[f].rejected = {}
    BY <1>5, <1>7, <1>8 DEF AllRows
  <1> QED BY <1>10, <1>11, <1>12, <1>13 DEF ML!Rejects

LEMMA StepUploads ==
  IInv /\ IInv' /\ [Next]_ingestionVars => [Contract!Next]_(Contract!uploadVars)
  <1> SUFFICES ASSUME IInv, IInv', [Next]_ingestionVars
               PROVE  [Contract!Next]_(Contract!uploadVars)
    OBVIOUS
  <1> USE DEF IInv
  <1>1. CASE SaveFileUploaded
    <2>1. file \in Files /\ fileRows[file] = 0 /\ AtHand = {file}
      BY <1>1, FileAtHand, HandOf DEF SaveFileUploaded, Loop, Working, Fresh, file
    <2>2. AtHand' = {file} /\ fileRows' = [fileRows EXCEPT ![file] = 1] /\ messages' = messages
      BY <1>1, <2>1, SameFile DEF SaveFileUploaded, AtHand, sent, TypeOK
    <2>3. file \notin Uploaded /\ Uploaded' = Uploaded \cup {file} /\ Hand = {} /\ Hand' = {file}
      BY <2>1, <2>2 DEF Uploaded, Hand, TypeOK
    <2>4. SavedLines' = SavedLines
      BY <1>1 DEF SaveFileUploaded, SavedLines, Saved, ML!DoneElements
    <2>5. PICK f \in Files : f = file
      BY <2>1
    <2>6. Contract!Record(f)
      BY <2>2, <2>3, <2>4, <2>5 DEF Contract!Record, Uploaded, Hand, SavedLines
    <2> QED BY <2>6 DEF Contract!Next
  <1>2. ASSUME NEW f \in Files, NEW i \in call[f].inFlight, EntitySaved(f, i)
        PROVE  Contract!Next
    <2>1. /\ i \in AllRows(f) \ Saved(f)
          /\ Saved(f)' = Saved(f) \cup {i}
          /\ \A g \in Files \ {f} : Saved(g)' = Saved(g)
          /\ (Saved(f) = AllRows(f))' => ~ML!Rejects(f)
      BY <1>2, SaveAddsLine
    <2>2. Uploaded' = Uploaded /\ Hand' = Hand /\ messages' = messages
      BY <1>2, SameFile DEF EntitySaved, lambda, sent, Uploaded, Hand
    <2>3. fileRows[f] > 0
      BY <1>2, OpenCalls DEF Fresh, ML!InFlight, TypeOK
    <2>4. (Saved(f) = AllRows(f))' => f \in Hand
      <3>1. f \in ML!InFlight
        BY <1>2 DEF ML!InFlight
      <3> QED BY <2>1, <2>3, <3>1, HandOf DEF Abandoned, Working, Hand
    <2>5. SavedLines' = [SavedLines EXCEPT ![f] = @ \cup {i}]
      BY <2>1 DEF SavedLines
    <2>6. SavedLines[f] = Saved(f) /\ SavedLines'[f] = Saved(f)'
      BY DEF SavedLines
    <2>7. Contract!SaveLine(f, i)
      BY <2>1, <2>2, <2>3, <2>4, <2>5, <2>6
         DEF Contract!SaveLine, Uploaded, Hand, SavedLines, AllRows
    <2> QED BY <2>1, <2>7 DEF Contract!Next
  <1>3. CASE TriggerReconcile
    <2>1. AtHand = {} /\ AtHand' = {}
      BY <1>3 DEF TriggerReconcile, Return, AtHand
    <2>2. /\ Hand = {} /\ Hand' = {} /\ Uploaded' = Uploaded /\ SavedLines' = SavedLines
          /\ messages' = messages \cup {[date |-> today, byPass |-> FALSE]}
      BY <1>3, <2>1 DEF TriggerReconcile, Hand, Uploaded, SavedLines, Saved, ML!DoneElements
    <2>3. Contract!Publish(today) /\ today \in Dates
      BY <2>2 DEF Contract!Publish, Hand, Uploaded, SavedLines, TypeOK
    <2> QED BY <2>3 DEF Contract!Next
  <1>4. CASE /\ ~SaveFileUploaded /\ ~TriggerReconcile
             /\ \A f \in Files : \A i \in call[f].inFlight : ~EntitySaved(f, i)
    <2>1. Uploaded' = Uploaded /\ messages' = messages
      BY <1>4, RowsFrame, MessagesFrame DEF Uploaded
    <2>2. ASSUME NEW f \in Files PROVE Saved(f)' = Saved(f)
      BY <1>4, SavedStays DEF EntitySaved, ML!Resume
    <2>3. SavedLines' = SavedLines
      BY <2>2 DEF SavedLines
    <2>4. Hand' = Hand \/ Hand' = {}
      BY <1>4, HandShrinks
    <2>5. CASE Hand' = Hand
      BY <2>1, <2>3, <2>5 DEF Contract!uploadVars, Uploaded, Hand, SavedLines
    <2>6. CASE Hand # {} /\ Hand' = {}
      <3>1. Contract!LetGo
        BY <2>1, <2>3, <2>6 DEF Contract!LetGo, Uploaded, Hand, SavedLines
      <3> QED BY <3>1 DEF Contract!Next
    <2> QED BY <2>4, <2>5, <2>6
  <1> QED BY <1>1, <1>2, <1>3, <1>4

\* The parser implements Uploads: a file is recorded before its lines, is taken
\* once, stays as it was let go, and no message leaves while it is being saved.
THEOREM UploadsImplemented ==
  Spec => ImplementsUploads
  BY InitUploads, StepUploads, Inductive, PTL DEF Spec, ImplementsUploads, Contract!Spec
-----------------------------------------------------------------------------
\* What an invocation holds: the incomplete records it read, each with the
\* positions of the missing files, and the rules still to come.
CheckTypeOK ==
  /\ check = [statuses |-> check.statuses, rules |-> check.rules, mails |-> check.mails,
              on |-> check.on]
  /\ \A s \in check.statuses : s.rule \in Rules /\ s.missing \subseteq DOMAIN RequiredFiles[s.rule]

CheckInv == CheckTypeOK /\ MissingFilesReported

\* The mails on a missing file that has destinations of its own name it.
LEMMA FileMailNamesFile ==
  ASSUME CheckTypeOK, NEW r \in Rules, NEW s \in Unsuccessful(r), NEW i \in s.missing,
         NEW ad \in FileDestinations(RequiredFiles[r][i])
  PROVE  \E m \in FileMails(r) :
           m.to = ad /\ m.rule = r /\ <<s.date, RequiredFiles[r][i]>> \in m.names
  <1> DEFINE names(u, k) == {<<u.date, RequiredFiles[r][j]>> :
               j \in {l \in u.missing : l <= k /\ FileDestinations(RequiredFiles[r][l]) # {}}}
             mails(u, k) == {[to |-> a, rule |-> r, names |-> names(u, k)] :
                             a \in FileDestinations(RequiredFiles[r][k])}
             allMails(u) == UNION {mails(u, k) : k \in u.missing}
             mail == [to |-> ad, rule |-> r, names |-> names(s, i)]
  <1>1. i \in Nat
    BY FileIngestionAssumption DEF FileIngestionAssumption, CheckTypeOK, Unsuccessful
  <1>2. <<s.date, RequiredFiles[r][i]>> \in names(s, i)
    BY <1>1
  <1>3. mail \in mails(s, i)
    OBVIOUS
  <1>4. FileMails(r) = UNION {allMails(u) : u \in Unsuccessful(r)}
    BY DEF FileMails
  <1> HIDE DEF mails
  <1>5. mail \in allMails(s)
    BY <1>3
  <1> HIDE DEF allMails
  <1>6. mail \in FileMails(r)
    BY <1>4, <1>5
  <1>7. mail.to = ad /\ mail.rule = r /\ mail.names = names(s, i)
    OBVIOUS
  <1> HIDE DEF mail
  <1> QED BY <1>2, <1>6, <1>7

\* The summary names every missing file that has none.
LEMMA SummaryNamesFile ==
  ASSUME NEW r \in Rules, NEW s \in Unsuccessful(r), NEW i \in s.missing,
         FileDestinations(RequiredFiles[r][i]) = {}, NEW ad \in AllAlerts
  PROVE  \E m \in SummaryMails(r) :
           m.to = ad /\ m.rule = r /\ <<s.date, RequiredFiles[r][i]>> \in m.names
  <1>1. ad \in RuleDestinations(r)
    BY FileIngestionAssumption DEF FileIngestionAssumption, RuleDestinations, AlertDestinations
  <1>2. <<s.date, RequiredFiles[r][i]>> \in RuleErrors(r)
    BY DEF RuleErrors
  <1> DEFINE mail == [to |-> ad, rule |-> r, names |-> RuleErrors(r)]
  <1>3. mail \in SummaryMails(r)
    BY <1>1 DEF SummaryMails
  <1>4. mail.to = ad /\ mail.rule = r /\ mail.names = RuleErrors(r)
    OBVIOUS
  <1> HIDE DEF mail
  <1> QED BY <1>2, <1>3, <1>4

LEMMA CheckInitHolds ==
  CheckInit => CheckInv
  BY DEF CheckInit, NoCheck, CheckInv, CheckTypeOK, MissingFilesReported, Checked

\* The records are read before the first rule is taken.
LEMMA RetrieveStep ==
  ASSUME RetrieveStatuses
  PROVE  CheckInv'
  <1> DEFINE found == {x \in RecentDailies : daily[x[1]][x[2]] = "open"}
             missing(x) == MissingDailyFiles(x[1], DailyFiles(x[1], x[2]))
             statuses == {[rule |-> x[1], date |-> x[2], missing |-> missing(x)] : x \in found}
  <1>1. check' = [on |-> TRUE, rules |-> Rules, mails |-> {}, statuses |-> statuses]
    BY DEF RetrieveStatuses
  <1>2. \A x \in found : x[1] \in Rules /\ missing(x) \subseteq DOMAIN RequiredFiles[x[1]]
    BY DEF RecentDailies, MissingDailyFiles
  <1>3. \A s \in statuses : s.rule \in Rules /\ s.missing \subseteq DOMAIN RequiredFiles[s.rule]
    BY <1>2
  <1> HIDE DEF statuses
  <1>4. CheckTypeOK'
    BY <1>1, <1>3 DEF CheckTypeOK
  <1>5. Checked' = {}
    BY <1>1, <1>3 DEF Checked
  <1> QED BY <1>4, <1>5 DEF CheckInv, MissingFilesReported

\* When a rule was taken, all its incomplete records have their mails.
LEMMA CheckRuleStep ==
  ASSUME CheckInv, NEW r \in Rules, CheckRule(r)
  PROVE  CheckInv'
  <1> USE DEF CheckInv
  <1>1. /\ check'.statuses = check.statuses /\ check'.on = check.on
        /\ check'.rules = check.rules \ {r} /\ check.mails \subseteq check'.mails
        /\ Unsuccessful(r) # {} /\ TemplateName[r] # NoProgram =>
             FileMails(r) \cup SummaryMails(r) \subseteq check'.mails
    BY DEF CheckRule, CheckTypeOK
  <1>2. CheckTypeOK'
    BY <1>1 DEF CheckTypeOK, CheckRule
  <1>3. ASSUME NEW s \in Checked', NEW i \in s.missing,
               NEW ad \in IF FileDestinations(RequiredFiles[s.rule][i]) # {}
                         THEN FileDestinations(RequiredFiles[s.rule][i]) ELSE AllAlerts
        PROVE  Named(ad, s, RequiredFiles[s.rule][i])'
    <2>1. CASE s.rule # r
      <3>1. s \in Checked
        BY <1>1, <1>3, <2>1 DEF Checked
      <3>2. Named(ad, s, RequiredFiles[s.rule][i])
        BY <1>3, <3>1 DEF MissingFilesReported
      <3> QED BY <1>1, <3>2 DEF Named
    <2>2. CASE s.rule = r
      <3>1. s \in Unsuccessful(r) /\ TemplateName[r] # NoProgram
        BY <1>1, <1>3, <2>2 DEF Checked, Unsuccessful
      <3>2. FileMails(r) \cup SummaryMails(r) \subseteq check'.mails
        BY <1>1, <3>1
      <3>3. \E m \in FileMails(r) \cup SummaryMails(r) :
              m.to = ad /\ m.rule = r /\ <<s.date, RequiredFiles[r][i]>> \in m.names
        BY <1>3, <2>2, <3>1, FileMailNamesFile, SummaryNamesFile
      <3> QED BY <2>2, <3>2, <3>3 DEF Named
    <2> QED BY <2>1, <2>2
  <1> QED BY <1>2, <1>3 DEF MissingFilesReported

LEMMA CheckStepHolds ==
  CheckInv /\ [CheckNext]_checkVars => CheckInv'
  <1> SUFFICES ASSUME CheckInv, [CheckNext]_checkVars PROVE CheckInv'
    OBVIOUS
  <1>1. CASE UNCHANGED check
    BY <1>1 DEF CheckInv, CheckTypeOK, MissingFilesReported, Checked, Named
  <1>2. CASE EndCheck
    BY <1>2 DEF EndCheck, NoCheck, CheckInv, CheckTypeOK, MissingFilesReported, Checked
  <1> QED BY <1>1, <1>2, RetrieveStep, CheckRuleStep DEF CheckNext, DailyCheck, checkVars

\* Every missing file of an incomplete day is reported to its own destinations,
\* or in the summary if it has none, whatever the parser does meanwhile.
THEOREM MissingIsReported ==
  CheckSpec => []MissingFilesReported
  <1>1. CheckInv => MissingFilesReported
    BY DEF CheckInv
  <1> QED BY <1>1, CheckInitHolds, CheckStepHolds, PTL DEF CheckSpec

\* The check leaves the parser to itself: all that is proved of it still holds.
THEOREM CheckKeepsIngestion ==
  CheckSpec => Spec
  <1>1. CheckInit => Init
    BY DEF CheckInit
  <1>2. [CheckNext]_checkVars => [Next]_ingestionVars
    BY DEF CheckNext, checkVars
  <1> QED BY <1>1, <1>2, PTL DEF CheckSpec, Spec
=============================================================================
