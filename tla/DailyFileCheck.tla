--------------------------- MODULE DailyFileCheck ---------------------------
(***************************************************************************)
(* The lambda that tells people by mail which files are missing.  It reads *)
(* the daily records of the last days once, and then takes one rule after  *)
(* the other, while the parser goes on.  The mails on single files are     *)
(* made by an async map that nobody awaits.  A mail of the check that can  *)
(* not be sent is logged and lost, which no property here is about.        *)
(***************************************************************************)
EXTENDS FileIngestion

CONSTANTS
  AlertDays,        \* ALERT_EXPIRY_DAYS
  TemplateName      \* ProgramTemplateName, NoProgram for a rule without

VARIABLE check      \* an invocation: what it read, the rules left, its mails

NoCheck == [statuses |-> {}, rules |-> {}, mails |-> {}, on |-> FALSE]

ASSUME DailyFileCheckAssumption ==
  /\ AlertDays \in Nat
  /\ \A r \in Rules : TemplateName[r] \notin Rules

\* retrieveRecentDailyStatuses: all records of the last days, with their files.
RecentDailies ==
  {rd \in Rules \X Dates : /\ daily[rd[1]][rd[2]] # "none"
                           /\ rd[2] \in (today - AlertDays) .. today}

\* If no record was created today, the day is taken for an off day.
RetrieveStatuses ==
  /\ ~check.on
  /\ \E rd \in RecentDailies : createdOn[rd[1]][rd[2]] = today
  /\ check' = [on |-> TRUE, rules |-> Rules, mails |-> {},
               statuses |-> {[rule |-> rd[1], date |-> rd[2],
                              missing |-> MissingDailyFiles(rd[1], DailyFiles(rd[1], rd[2]))] :
                             rd \in {x \in RecentDailies : daily[x[1]][x[2]] = "open"}}]

Unsuccessful(r) == {s \in check.statuses : s.rule = r}

\* The destinations of a required file.
FileDestinations(t) == {ad \in Destinations : FileOf[ad] = t}

\* getAlertDestinations: it is given the name in the template, which is not the
\* name of the rule.
AlertDestinations(r) ==
  {ad \in Destinations :
    \/ ad \in AllAlerts
    \/ RuleOf[ad] = TemplateName[r]
    \/ \E s \in Unsuccessful(r) : \E i \in s.missing : RequiredFiles[r][i] = FileOf[ad]}

RuleDestinations(r) == {ad \in AlertDestinations(r) : ad \in AllAlerts \/ RuleOf[ad] = r}

\* fileErrors grows from file to file of a status, and every mail holds it all.
FileMails(r) ==
  UNION {UNION {{[to |-> ad, rule |-> r,
                  names |-> {<<s.date, RequiredFiles[r][j]>> :
                             j \in {k \in s.missing :
                                     k <= i /\ FileDestinations(RequiredFiles[r][k]) # {}}}] :
                 ad \in FileDestinations(RequiredFiles[r][i])} :
                i \in s.missing} :
         s \in Unsuccessful(r)}

\* Mutant of RuleErrors: only the last day is reported.
RuleErrorsOfLastDay(r) ==
  UNION {{<<s.date, RequiredFiles[r][i]>> : i \in s.missing} :
         s \in {u \in Unsuccessful(r) : u.date = today}}

\* ruleErrors when the summary is made: a file with destinations of its own is
\* added behind the await of its mail, and comes too late.
RuleErrors(r) ==
  UNION {{<<s.date, RequiredFiles[r][i]>> :
          i \in {k \in s.missing : FileDestinations(RequiredFiles[r][k]) = {}}} :
         s \in Unsuccessful(r)}

SummaryMails(r) == {[to |-> ad, rule |-> r, names |-> RuleErrors(r)] : ad \in RuleDestinations(r)}

CheckRule(r) ==
  /\ r \in check.rules
  /\ check' = [check EXCEPT !.rules = @ \ {r},
                            !.mails = IF Unsuccessful(r) = {} \/ TemplateName[r] = NoProgram
                                      THEN @ ELSE @ \cup FileMails(r) \cup SummaryMails(r)]

EndCheck == check.on /\ check.rules = {} /\ check' = NoCheck

DailyCheck == RetrieveStatuses \/ (\E r \in Rules : CheckRule(r)) \/ EndCheck

checkVars == <<ingestionVars, check>>

CheckInit == Init /\ check = NoCheck

CheckNext ==
  \/ Next /\ UNCHANGED check
  \/ DailyCheck /\ UNCHANGED ingestionVars

\* What is fair is the parser: clocks and people promise nothing.
CheckSpec == CheckInit /\ [][CheckNext]_checkVars /\ Fairness
-----------------------------------------------------------------------------
Checked == {s \in check.statuses : s.rule \notin check.rules /\ TemplateName[s.rule] # NoProgram}

Named(ad, s, t) == \E m \in check.mails : m.to = ad /\ m.rule = s.rule /\ <<s.date, t>> \in m.names

\* Every missing file of every incomplete day of the week is reported to
\* somebody: to its own destinations if it has any, or in the summary.
MissingFilesReported ==
  \A s \in Checked : \A i \in s.missing :
    LET t == RequiredFiles[s.rule][i]
        own == FileDestinations(t) IN
    \A ad \in IF own # {} THEN own ELSE AllAlerts : Named(ad, s, t)

\* dailyfilecheck.ts:107: "Send a summary to destinations with 'ALL' and 'RULE'
\* of all missing files".
SummaryIsComplete ==
  \A s \in Checked : \A i \in s.missing :
    \A ad \in AllAlerts : Named(ad, s, RequiredFiles[s.rule][i])
=============================================================================
