--------------------------- MODULE ResearchCommands ---------------------------
(***************************************************************************)
(* The research commands (application/commands.py): a process runs one of  *)
(* them, either the discovery over a panel that was saved, or the study of *)
(* one relationship of the same catalog on the bars of a live terminal.    *)
(***************************************************************************)
EXTENDS AdvancedDiscovery, HistoricalResearch

commandVars == <<vars, studyVars>>

\* The command that is not run stays where it is.
NoDiscovery ==
    /\ input = NoValue
    /\ pc = "none" /\ panel = <<>> /\ window = NoValue /\ found = <<>>
    /\ dedup = <<>> /\ evaluations = <<>> /\ ranking = Nothing /\ multiplicity = <<>>

NoStudy ==
    /\ study = NoValue /\ terminal = NoValue
    /\ now = FirstBar /\ step = "none" /\ opened = FirstBar
    /\ names = <<>> /\ series = <<>> /\ rows = {}

RunAdvancedResearch == Init /\ NoStudy

RunHistoricalResearch == StudyInit /\ NoDiscovery

CommandInit == RunAdvancedResearch \/ RunHistoricalResearch

CommandNext ==
    \/ Next /\ UNCHANGED studyVars
    \/ StudyNext /\ UNCHANGED vars

CommandSpec == CommandInit /\ [][CommandNext]_commandVars

===============================================================================
