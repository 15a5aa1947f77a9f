-------------------------- MODULE MCDailyFileCheck ---------------------------
(* A TDI17 file, a sales file of three lines and sales2, of the next day with *)
(* two lines of one unknown location, come in one event;                      *)
(* bad does not parse, and odd is of no program.  One address wants all       *)
(* alerts, one those of the TDI17 files, one those of the program.            *)
EXTENDS DailyFileCheck, TLC

Sales == "SBC_SALES"
MCRules == {"SBC"}
MCRequiredFiles == "SBC" :> <<Sales, "TDI17">>
MCEvents == {"e1", "e2"}
MCRecords == "e1" :> <<"tdi17", "sales", "sales2", "bad">> @@ "e2" :> <<"odd">>
MCMaxSends == "e1" :> 1 @@ "e2" :> 1
MCRowLocation == "sales" :> <<"L1", "L1", "L1">> @@ "tdi17" :> <<"L1">> @@ "bad" :> <<>>
              @@ "sales2" :> <<"L2", "L2">> @@ "odd" :> <<>>
MCFiles == DOMAIN MCRowLocation
MCProgramOf == [f \in MCFiles |-> IF f = "odd" THEN NoProgram ELSE "SBC"]
MCFileType == [f \in MCFiles |-> IF f \in {"sales", "sales2"} THEN Sales ELSE "TDI17"]
MCFileDate == [f \in MCFiles |-> IF f = "sales2" THEN 1 ELSE 0]

MCTemplateName == "SBC" :> "Citizens' Services / SBC"
MCRuleOf == "all" :> NoProgram @@ "own" :> NoProgram @@ "rule" :> "SBC"
MCFileOf == "all" :> NoType @@ "own" :> "TDI17" @@ "rule" :> NoType
=============================================================================
