---------------------------- MODULE MCOnPremJobs ----------------------------
(***************************************************************************)
(* The small programs that share nothing, each in a behaviour of its own:  *)
(* Init chooses the program that runs, and the variables of the others     *)
(* keep their initial values.                                              *)
(***************************************************************************)
EXTENDS GenusMonitor, GenusFiles, VcenterSd, SupervisorMonitor, FlashLoop,
        Exporters

VARIABLE program

programVars == <<program, genusVars, filesVars, vcenterVars, supervisorVars,
                 flashVars, exportersVars>>

MCFuels == <<"gas">>

\* The programs that do not run are given one initial state.
Init ==
    /\ program \in {"genus", "files", "vcenter", "supervisor", "flash", "exporters"}
    /\ GenusInit /\ FilesInit /\ VcenterInit /\ SupervisorInit /\ FlashInit
    /\ ExportersInit
    /\ program # "vcenter" => windowsVms = {} /\ vms = [v \in Vms |-> "on"]
    /\ program # "supervisor" =>
         ~strictExit /\ label = [w \in Workers |-> CHOOSE l \in Labels : TRUE]
    /\ program # "exporters" => exporter = "controllers"

Genus == program = "genus" /\ GenusNext
  /\ UNCHANGED <<program, filesVars, vcenterVars, supervisorVars, flashVars, exportersVars>>
FilesTable == program = "files" /\ FilesNext
  /\ UNCHANGED <<program, genusVars, vcenterVars, supervisorVars, flashVars, exportersVars>>
Vcenter == program = "vcenter" /\ VcenterNext
  /\ UNCHANGED <<program, genusVars, filesVars, supervisorVars, flashVars, exportersVars>>
Supervisor == program = "supervisor" /\ SupervisorNext
  /\ UNCHANGED <<program, genusVars, filesVars, vcenterVars, flashVars, exportersVars>>
Flash == program = "flash" /\ FlashNext
  /\ UNCHANGED <<program, genusVars, filesVars, vcenterVars, supervisorVars, exportersVars>>
Exporting == program = "exporters" /\ ExportersNext
  /\ UNCHANGED <<program, genusVars, filesVars, vcenterVars, supervisorVars, flashVars>>

Next == Genus \/ FilesTable \/ Vcenter \/ Supervisor \/ Flash \/ Exporting

\* Cron starts the supervisor check again and again, whatever becomes of the last
\* one: ssh and curl may hang, and a check that does leaves the time stamp old.
\* The tray monitor polls for ever, and the threads of a process are all
\* scheduled.  The passes of the Genus monitor have no fairness: their queries
\* may hang, and nothing starts another.
Fairness ==
    /\ WF_supervisorVars(program = "supervisor" /\ ReadStatus)
    /\ WF_flashVars(program = "flash" /\ PollIcon)
    /\ WF_flashVars(program = "flash" /\ MenuPaints)
    /\ \A t \in Flashers : WF_flashVars(program = "flash" /\ FlashThread(t))

Spec == Init /\ [][Next]_programVars /\ Fairness
=============================================================================
