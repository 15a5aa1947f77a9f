---------------------------- MODULE FileIngestion ----------------------------
(***************************************************************************)
(* The parser lambda: S3 events, the filter of files already recorded, the *)
(* parse of one file after the other, the daily upload record, the row of  *)
(* the file and only then its entities, saved by mapLimit, and the message *)
(* to the reconciler at the end.  Events come at least once; a failed      *)
(* invocation is tried again by Lambda; one invocation runs at a time      *)
(* (reserved concurrency 1).  It is the deployed lambda with automatic     *)
(* reconciliation on: locally, or with it off, no message is sent.         *)
(***************************************************************************)
EXTENDS BusinessDays, Sequences

CONSTANTS
  Files,            \* keys of the bucket
  ProgramOf,        \* the program in the key, or NoProgram
  FileType,         \* the file type in the key, or NoType
  FileNamed,        \* the required file whose name the key contains, or NoType
  FileDate,         \* date in the name (sales) or in the header (TDI)
  Ignored,          \* keys with LABOUR2 or archive in them
  Malformed,        \* files that do not parse
  Invalid,          \* files that parse, with a line the DTO refuses
  RowLocation,      \* the location of each line of a file, in order
  Rules,            \* the programs that have ingestion rules
  RequiredFiles,    \* the file types a rule requires, in order
  KnownLocations,   \* seeded locations
  Events, Records,  \* S3 events and the keys each one lists
  Dates,            \* the days that are modelled, in a row
  NoProgram, NoType, NoEvent,
  Destinations,     \* rows of alert_destination
  AllAlerts,        \* the destinations that want all alerts
  RuleOf, FileOf,   \* the rule or required file of a destination, if any
  Limit,            \* workers of mapLimit, 10 in the code
  MaxTries,         \* invocations Lambda makes for one message, 3 by default
  MaxSends,         \* bound on how often an event comes, for each event
  MaxCrashes,       \* bound on how often the lambda is killed
  MaxFaults         \* bound on the kills and failing queries, saves, mails and messages

VARIABLES
  \* S3 and Lambda
  tries,            \* invocations left for the message of an event, 0 if none
  sends,            \* how often an event came
  today,
  \* the database
  fileRows,         \* number of rows in file_uploaded, by key
  daily,            \* program_daily_upload: "none", "open" or "success"
  createdOn,        \* its created_at
  locations,
  call,             \* the saves of each file's entities: a call of mapLimit
  \* the invocation
  pc, event,
  parseList,        \* positions in the records of the event still to be parsed
  \* what it sends
  alerts,           \* what became of the last validationAlert for a file
  messages,         \* messages in the topic of the reconciler
  \* history
  crashes, faults,
  killed,           \* files at hand when the lambda was killed or gave up
  unannounced       \* files with an entity saved since the last message

lambda == <<pc, event, parseList>>
queue == <<tries, sends>>
days == <<daily, createdOn>>
sent == <<alerts, messages>>
history == <<crashes, faults, killed>>
ingestionVars == <<queue, today, fileRows, days, locations, call, lambda, sent, history,
                   unannounced>>

LineCount == [f \in Files |-> Len(RowLocation[f])]
ML == INSTANCE MapLimit WITH Calls <- Files, Size <- LineCount

\* An event names a key once, and a rule requires a file, as the seeded ones do.
ASSUME FileIngestionAssumption ==
  /\ ML!MapLimitAssumption
  /\ ProgramOf \in [Files -> Rules \cup {NoProgram}] /\ NoProgram \notin Rules
  /\ DOMAIN RowLocation = Files
  /\ \A r \in Rules : /\ Len(RequiredFiles[r]) \in Nat \ {0}
                     /\ DOMAIN RequiredFiles[r] = 1 .. Len(RequiredFiles[r])
  /\ \A e \in Events :
       /\ Records[e] \in Seq(Files)
       /\ \A i, j \in DOMAIN Records[e] : Records[e][i] = Records[e][j] => i = j
  /\ Dates \subseteq Nat /\ FileDate \in [Files -> Dates]
  /\ NoEvent \notin Events /\ AllAlerts \subseteq Destinations
  /\ MaxSends \in [Events -> Nat] /\ {MaxTries, MaxCrashes, MaxFaults} \subseteq Nat
-----------------------------------------------------------------------------
position == CHOOSE i \in parseList : \A j \in parseList : i <= j
file == Records[event][position]
Rest == parseList \ {position}
Saved(f) == ML!DoneElements(f)
AllRows(f) == ML!Elements(f)

\* The files of a daily record: dailyUpload of the row of the file.
DailyFiles(r, d) == {f \in Files : fileRows[f] > 0 /\ ProgramOf[f] = r /\ FileDate[f] = d}

\* findMissingDailyFiles: by type and by the name in the key; what it returns
\* is the positions of the missing files in RequiredFiles.
MissingDailyFiles(r, files) ==
  {i \in DOMAIN RequiredFiles[r] :
     ~\E f \in files : FileType[f] = RequiredFiles[r][i] /\ FileNamed[f] = RequiredFiles[r][i]}

\* getAlertDestinations for one file: the addresses of a required file are among
\* them only if the whole key is its name.
ValidationDestinations(f) ==
  {ad \in Destinations : ad \in AllAlerts \/ RuleOf[ad] = ProgramOf[f] \/ FileOf[ad] = f}

\* commenceDailyUpload makes the records of all rules for a date.
DailyUploads(d) == {r \in Rules : daily[r][d] # "none"}

Init ==
  /\ tries = [e \in Events |-> 0] /\ sends = [e \in Events |-> 0]
  /\ today \in {d \in Dates : \A c \in Dates : d <= c}
  /\ fileRows = [f \in Files |-> 0]
  /\ daily = [r \in Rules |-> [d \in Dates |-> "none"]]
  /\ createdOn = [r \in Rules |-> [d \in Dates |-> today]]
  /\ locations = KnownLocations
  /\ ML!Init
  /\ pc = "idle" /\ event = NoEvent /\ parseList = {}
  /\ alerts = [f \in Files |-> "none"] /\ messages = {}
  /\ crashes = 0 /\ faults = 0 /\ killed = {} /\ unannounced = {}

\* The bound on what goes wrong.
MayFail == crashes + faults < MaxFaults

Tick ==
  /\ today + 1 \in Dates
  /\ today' = today + 1
  /\ UNCHANGED <<queue, fileRows, days, locations, call, lambda, sent, history, unannounced>>

\* A file is put into the bucket, by SFTP or by the API, again perhaps under
\* the same key; or its event is delivered twice.
Upload(e) ==
  /\ tries[e] = 0 /\ sends[e] < MaxSends[e]
  /\ tries' = [tries EXCEPT ![e] = MaxTries]
  /\ sends' = [sends EXCEPT ![e] = @ + 1]
  /\ UNCHANGED <<today, fileRows, days, locations, call, lambda, sent, history, unannounced>>

Invoke(e) ==
  /\ pc = "idle" /\ tries[e] > 0
  /\ tries' = [tries EXCEPT ![e] = @ - 1]
  /\ pc' = "filter" /\ event' = e /\ parseList' = {}
  /\ UNCHANGED <<sends, today, fileRows, days, locations, call, sent, history, unannounced>>

\* Mutant of FilterDuplicates: what is uploaded is not looked up.
FilterNothing ==
  /\ pc = "filter" /\ pc' = "objects"
  /\ parseList' = {i \in DOMAIN Records[event] : Records[event][i] \notin Ignored}
  /\ UNCHANGED <<queue, today, fileRows, days, locations, call, event, sent, history, unannounced>>

\* filterDuplicateFileList: by the name of the file, whatever became of it.
FilterDuplicates ==
  /\ pc = "filter" /\ pc' = "objects"
  /\ parseList' = {i \in DOMAIN Records[event] :
                    fileRows[Records[event][i]] = 0 /\ Records[event][i] \notin Ignored}
  /\ UNCHANGED <<queue, today, fileRows, days, locations, call, event, sent, history, unannounced>>

Refused(f) == ProgramOf[f] = NoProgram \/ FileType[f] = NoType

\* The invocation failed: Lambda keeps the message as long as tries are left.
Fail ==
  /\ pc' = "idle" /\ event' = NoEvent /\ parseList' = {}
  /\ UNCHANGED <<queue, today>>

\* Mutant of Return: a message that was handled is still counted as tried once.
ReturnTried ==
  /\ pc' = "idle" /\ event' = NoEvent /\ parseList' = {}
  /\ tries' = [tries EXCEPT ![event] = @ - 1]
  /\ UNCHANGED <<sends, today>>

\* The handler returned, with success or without: the message is gone.
Return ==
  /\ pc' = "idle" /\ event' = NoEvent /\ parseList' = {}
  /\ tries' = [tries EXCEPT ![event] = 0]
  /\ UNCHANGED <<sends, today>>

\* getFileObjectAndMetadata throws outside of the try block: one key without a
\* program or a type takes all the files of the event with it.
RefuseEvent ==
  /\ pc = "objects" /\ \E i \in parseList : Refused(Records[event][i])
  /\ Fail
  /\ UNCHANGED <<fileRows, days, locations, call, sent, history, unannounced>>

GetObjects ==
  /\ pc = "objects" /\ \A i \in parseList : ~Refused(Records[event][i])
  /\ pc' = "next"
  /\ UNCHANGED <<queue, today, fileRows, days, locations, call, event, parseList, sent,
                 history, unannounced>>

AtFile == pc = "next" /\ parseList # {}

ParseFails ==
  /\ AtFile /\ file \in Malformed
  /\ pc' = "alert"
  /\ UNCHANGED <<queue, today, fileRows, days, locations, call, event, parseList, sent,
                 history, unannounced>>

\* Two lines of one unknown location: both create it, and the UNIQUE constraint
\* on source_id and location_id refuses the second.
LocationClash ==
  \E i, j \in DOMAIN RowLocation[file] :
    i # j /\ RowLocation[file][i] = RowLocation[file][j] /\ RowLocation[file][i] \notin locations

\* parseAndValidateSBCGarms: the stub locations stay, whatever comes of the file.
ParseSales ==
  /\ AtFile /\ file \notin Malformed /\ FileType[file] = "SBC_SALES"
  /\ locations' = locations \cup {RowLocation[file][i] : i \in DOMAIN RowLocation[file]}
  /\ pc' = IF LocationClash \/ file \in Invalid THEN "alert" ELSE "daily"
  /\ UNCHANGED <<queue, today, fileRows, days, call, event, parseList, sent, history, unannounced>>

ParseTDI ==
  /\ AtFile /\ file \notin Malformed /\ FileType[file] # "SBC_SALES"
  /\ pc' = IF file \in Invalid THEN "alert" ELSE "daily"
  /\ UNCHANGED <<queue, today, fileRows, days, locations, call, event, parseList, sent,
                 history, unannounced>>

\* createNewDailyUploadRecord, for each rule that has none on the date.
CreateDaily(r) ==
  /\ pc = "daily" /\ r \notin DailyUploads(FileDate[file])
  /\ daily' = [daily EXCEPT ![r][FileDate[file]] = "open"]
  /\ createdOn' = [createdOn EXCEPT ![r][FileDate[file]] = today]
  /\ UNCHANGED <<queue, today, fileRows, locations, call, lambda, sent, history, unannounced>>

\* Mutant of SaveFileUploaded: the entities first.
SaveFileUploadedLater ==
  /\ pc = "daily" /\ DailyUploads(FileDate[file]) = Rules
  /\ pc' = "save"
  /\ UNCHANGED <<queue, today, fileRows, days, locations, call, event, parseList, sent,
                 history, unannounced>>

SaveFileUploaded ==
  /\ pc = "daily" /\ DailyUploads(FileDate[file]) = Rules
  /\ fileRows' = [fileRows EXCEPT ![file] = @ + 1]
  /\ pc' = "success"
  /\ UNCHANGED <<queue, today, days, locations, call, event, parseList, sent, history, unannounced>>

\* Mutant of UpdateDailyRecordSuccess: the record as it was before the file.
UpdateDailyRecordStale ==
  LET r == ProgramOf[file]
      d == FileDate[file] IN
  /\ pc = "success" /\ pc' = "save"
  /\ daily' = IF MissingDailyFiles(r, DailyFiles(r, d) \ {file}) = {}
              THEN [daily EXCEPT ![r][d] = "success"] ELSE daily
  /\ UNCHANGED <<queue, today, fileRows, createdOn, locations, call, event, parseList, sent,
                 history, unannounced>>

\* updateDailyRecordSuccess: it is marked before the entities are saved.
UpdateDailyRecordSuccess ==
  LET r == ProgramOf[file]
      d == FileDate[file] IN
  /\ pc = "success" /\ pc' = "save"
  /\ daily' = IF MissingDailyFiles(r, DailyFiles(r, d)) = {}
              THEN [daily EXCEPT ![r][d] = "success"] ELSE daily
  /\ UNCHANGED <<queue, today, fileRows, createdOn, locations, call, event, parseList, sent,
                 history, unannounced>>

\* A query of saveFile fails: its own catch block alerts, and as it returns no
\* row, no entity is saved.
SaveFileFails ==
  /\ pc \in {"daily", "success"} /\ MayFail
  /\ faults' = faults + 1 /\ pc' = "saveAlert"
  /\ UNCHANGED <<queue, today, fileRows, days, locations, call, event, parseList, sent,
                 crashes, killed, unannounced>>

SaveEntities(f) ==
  /\ pc = "save" /\ f = file
  /\ pc' = "saving"
  /\ call' = [call EXCEPT ![f] = ML!Started(f)]
  /\ UNCHANGED <<queue, today, fileRows, days, locations, event, parseList, sent, history,
                 unannounced>>

\* The save of an entity commits and its worker goes on; the workers of a file
\* that was given up do so too, while the lambda runs.
EntitySaved(f, i) ==
  /\ pc # "idle" /\ ML!Resume(f, i)
  /\ unannounced' = unannounced \cup {f}
  /\ UNCHANGED <<queue, today, fileRows, days, locations, lambda, sent, history>>

EntityRejected(f, i) ==
  /\ pc # "idle" /\ MayFail /\ ML!Throw(f, i)
  /\ faults' = faults + 1
  /\ UNCHANGED <<queue, today, fileRows, days, locations, lambda, sent, crashes, killed,
                 unannounced>>

EntitiesSaved(f) ==
  /\ pc = "saving" /\ f = file /\ ML!Resolves(f)
  /\ pc' = "next" /\ parseList' = Rest
  /\ UNCHANGED <<queue, today, fileRows, days, locations, call, event, sent, history, unannounced>>

\* The first rejected save rejects mapLimit; nobody stops the other workers.
EntitiesRejected(f) ==
  /\ pc = "saving" /\ f = file /\ ML!Rejects(f)
  /\ pc' = "alert"
  /\ UNCHANGED <<queue, today, fileRows, days, locations, call, event, parseList, sent,
                 history, unannounced>>

\* validationAlert returns, with whatever outcome, to the catch block of saveFile
\* or of parseFile, and the next file is parsed.
AlertEnds(outcome) ==
  /\ pc \in {"saveAlert", "alert"} /\ pc' = "next" /\ parseList' = Rest
  /\ alerts' = [alerts EXCEPT ![file] = outcome]
  /\ UNCHANGED <<queue, today, fileRows, days, locations, call, event, messages, crashes,
                 killed, unannounced>>

\* Mutant of ValidationAlert: the error is only logged.
ValidationAlertLogged == AlertEnds("none") /\ UNCHANGED faults

\* Without destinations it returns without a word.
ValidationAlert ==
  /\ AlertEnds(IF ValidationDestinations(file) = {} THEN "nobody" ELSE "mailed")
  /\ UNCHANGED faults

\* sendEmailAlertBulk logs that the mail could not be sent, and that is all.
AlertMailFails ==
  /\ AlertEnds("lost") /\ ValidationDestinations(file) # {}
  /\ MayFail /\ faults' = faults + 1

\* The query of the destinations fails in the catch block of saveFile, which is
\* inside of the try block of parseFile: that one alerts once more.
SaveAlertFails ==
  /\ pc = "saveAlert" /\ pc' = "alert"
  /\ MayFail /\ faults' = faults + 1
  /\ UNCHANGED <<queue, today, fileRows, days, locations, call, event, parseList, sent,
                 crashes, killed, unannounced>>

\* It fails in the catch block of parseFile: the handler gives up the files that
\* are left and returns, so there is neither a message nor a retry.
ValidationAlertFails ==
  /\ pc = "alert" /\ MayFail
  /\ faults' = faults + 1 /\ killed' = killed \cup {file}
  /\ Return
  /\ UNCHANGED <<fileRows, days, locations, call, sent, crashes, unannounced>>

\* Mutant of TriggerReconcile: only if the invocation parsed a file.
TriggerReconcileAfterParse ==
  /\ pc = "next" /\ parseList = {} /\ Return
  /\ messages' = IF unannounced = {} \/ tries[event] < MaxTries - 1 THEN messages
                 ELSE messages \cup {[date |-> today, byPass |-> FALSE]}
  /\ unannounced' = IF messages' = messages THEN unannounced ELSE {}
  /\ UNCHANGED <<fileRows, days, locations, call, alerts, history>>

\* triggerReconcileSnsMessage, with the date of the day, even if no file was
\* left to parse.
TriggerReconcile ==
  /\ pc = "next" /\ parseList = {} /\ Return
  /\ messages' = messages \cup {[date |-> today, byPass |-> FALSE]}
  /\ unannounced' = {}
  /\ UNCHANGED <<fileRows, days, locations, call, alerts, history>>

\* The query of the locations before the try block of parseFile fails, or the
\* message cannot be sent: the files that are left are given up, and the handler
\* returns success: false, which Lambda takes for a success.
HandlerFails ==
  /\ pc = "next" /\ Return
  /\ MayFail /\ faults' = faults + 1
  /\ UNCHANGED <<fileRows, days, locations, call, sent, crashes, killed, unannounced>>

AtHand == IF pc \in {"idle", "filter", "objects"} \/ parseList = {} THEN {} ELSE {file}

\* The lambda is killed: its timeout of 600 s, its memory.
Crash ==
  /\ pc # "idle" /\ crashes < MaxCrashes /\ MayFail
  /\ crashes' = crashes + 1 /\ killed' = killed \cup AtHand \cup ML!InFlight
  /\ ML!Stop /\ Fail
  /\ UNCHANGED <<fileRows, days, locations, sent, faults, unannounced>>

\* Between two invocations the process is gone, and saves nobody waited for.
Recycle ==
  /\ pc = "idle" /\ ML!InFlight # {}
  /\ ML!Stop
  /\ UNCHANGED <<queue, today, fileRows, days, locations, lambda, sent, history, unannounced>>

Parser ==
  \/ FilterDuplicates \/ GetObjects \/ RefuseEvent
  \/ ParseFails \/ ParseSales \/ ParseTDI
  \/ \E r \in Rules : CreateDaily(r)
  \/ SaveFileUploaded \/ UpdateDailyRecordSuccess
  \/ \E f \in Files : SaveEntities(f) \/ EntitiesSaved(f) \/ EntitiesRejected(f)
  \/ \E f \in Files : \E i \in call[f].inFlight : EntitySaved(f, i)
  \/ ValidationAlert \/ TriggerReconcile

Faults ==
  \/ SaveFileFails \/ AlertMailFails \/ SaveAlertFails \/ ValidationAlertFails
  \/ HandlerFails \/ Crash \/ Recycle
  \/ \E f \in Files : \E i \in call[f].inFlight : EntityRejected(f, i)

Arrivals == Tick \/ \E e \in Events : Upload(e)

Next == Arrivals \/ (\E e \in Events : Invoke(e)) \/ Parser \/ Faults

\* Lambda goes on with what it has started and invokes the parser for every
\* message it holds.
Fairness == WF_ingestionVars(Parser) /\ \A e \in Events : WF_ingestionVars(Invoke(e))

Spec == Init /\ [][Next]_ingestionVars /\ Fairness
-----------------------------------------------------------------------------
TypeOK ==
  /\ tries \in [Events -> 0 .. MaxTries] /\ \A e \in Events : sends[e] \in 0 .. MaxSends[e]
  /\ today \in Dates
  /\ fileRows \in [Files -> Nat]
  /\ daily \in [Rules -> [Dates -> {"none", "open", "success"}]]
  /\ createdOn \in [Rules -> [Dates -> Dates]]
  /\ KnownLocations \subseteq locations
  /\ ML!TypeOK
  /\ pc \in {"idle", "filter", "objects", "next", "daily", "success", "save", "saving",
             "saveAlert", "alert"}
  /\ IF pc = "idle" THEN parseList = {}
     ELSE event \in Events /\ parseList \subseteq DOMAIN Records[event]
  /\ alerts \in [Files -> {"none", "mailed", "nobody", "lost"}]
  /\ messages \subseteq [date : Dates, byPass : BOOLEAN]
  /\ crashes \in 0 .. MaxCrashes /\ faults \in 0 .. MaxFaults
  /\ killed \subseteq Files /\ unannounced \subseteq Files

\* A key has at most one row in file_uploaded, and its lines are saved once,
\* although its events come more than once and failed invocations are repeated:
\* filterDuplicateFileList is all there is against it.
OnceRecorded == (\A f \in Files : fileRows[f] <= 1) /\ ML!AtMostOnce

\* A file that counts as uploaded, and is refused from now on, has all of its
\* lines in the tables, or is in the works, or a mail on it was sent, unless the
\* parser was killed or gave up, nobody wants such a mail, or the mail failed
\* too: the row comes first, so a failure after it is final, and what failed once
\* is not lost in silence.
WholeOrTold ==
  \A f \in Files :
    fileRows[f] > 0 =>
      \/ Saved(f) = AllRows(f) \/ f \in AtHand \cup killed
      \/ alerts[f] = "mailed" \/ ValidationDestinations(f) = {}
      \/ alerts[f] = "lost" /\ faults > 1

\* At most ten saves of a file are under way, and mapLimit resolves only when
\* every line has been saved.
SavesInParallel == ML!AtMostLimit /\ ML!AllDone

\* A daily upload is marked as a success only when no required file is missing,
\* and then it is, unless a failure came between the row and the mark.
Failed == {f \in Files : alerts[f] # "none"}
DayMarked ==
  \A r \in Rules : \A d \in Dates :
    LET missing == MissingDailyFiles(r, DailyFiles(r, d)) IN
    /\ daily[r][d] = "success" => missing = {}
    /\ daily[r][d] = "open" /\ missing = {} =>
         DailyFiles(r, d) \cap (AtHand \cup Failed \cup killed) # {}

\* If nothing fails but the lambda itself, rows that were saved are announced:
\* a retry sends the message although it finds nothing left to parse.
Announced == unannounced # {} ~> unannounced = {}
AnnouncedUnlessFault == [](faults = 0) => Announced

\* Seen from the database and the topic, the parser is the one of Uploads: no
\* transaction or deposit is saved before the row of its file, a file that was
\* let go half saved stays so, and no message is sent while one is being saved.
Contract == INSTANCE Uploads WITH
  Lines <- AllRows,
  uploaded <- {f \in Files : fileRows[f] > 0},
  saved <- [f \in Files |-> Saved(f)],
  atHand <- {f \in AtHand : fileRows[f] > 0}
ImplementsUploads == Contract!Spec
=============================================================================
