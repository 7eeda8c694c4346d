----------------------------- MODULE GenusFiles -----------------------------
(***************************************************************************)
(* The table of file statuses that the cross reference of the Genus        *)
(* monitor keeps (onprem/genus-monitor/app.py).  Files are numbered in the *)
(* order they are sent.  A pass reads the files of the last week from      *)
(* MySQL, then which of them Genus has processed, then upserts the newest. *)
(***************************************************************************)
EXTENDS Integers, FiniteSets

CONSTANTS
    Newest,         \* rows written in a pass (50)
    MaxFiles,       \* bound on the files sent
    MaxFileFaults   \* bound on failed passes

ASSUME FilesAssumption ==
    Newest \in Nat \ {0} /\ MaxFiles \in Nat /\ MaxFileFaults \in Nat

VARIABLES
    sent,           \* files 1..sent have been sent
    expired,        \* files 1..expired were sent over a week ago
    processed,      \* files Genus has processed
    rows,           \* table genus_file_status: "none", "waiting", "processed"
    pass,           \* the pass in progress: its step and what it has read
    fileFaults

filesVars == <<sent, expired, processed, rows, pass, fileFaults>>

Files == 1..MaxFiles
NoPass == [pc |-> "idle", window |-> {}, known |-> {}]
Window == (expired + 1)..sent

FilesInit ==
    /\ sent = 0 /\ expired = 0 /\ processed = {}
    /\ rows = [f \in Files |-> "none"]
    /\ pass = NoPass
    /\ fileFaults = 0

\* The applications send files, Genus processes them, days go by.
SendFile ==
    /\ sent < MaxFiles /\ sent' = sent + 1
    /\ UNCHANGED <<expired, processed, rows, pass, fileFaults>>
ProcessFile(f) ==
    /\ f \in 1..sent \ processed /\ processed' = processed \cup {f}
    /\ UNCHANGED <<sent, expired, rows, pass, fileFaults>>
ExpireFile ==
    /\ expired < sent /\ expired' = expired + 1
    /\ UNCHANGED <<sent, processed, rows, pass, fileFaults>>

\* The files sent, from MySQL; without any the pass ends.
FetchSent ==
    /\ pass.pc = "idle" /\ Window # {}
    /\ pass' = [NoPass EXCEPT !.pc = "sent", !.window = Window]
    /\ UNCHANGED <<sent, expired, processed, rows, fileFaults>>

\* Mutant: a failed query reads as no file.
FetchProcessedOrNone ==
    /\ pass.pc = "sent"
    /\ \E known \in {processed \cap pass.window, {}} :
         pass' = [pass EXCEPT !.pc = "known", !.known = known]
    /\ UNCHANGED <<sent, expired, processed, rows, fileFaults>>

\* The names among them that Genus knows.
FetchProcessed ==
    /\ pass.pc = "sent"
    /\ pass' = [pass EXCEPT !.pc = "known", !.known = processed \cap pass.window]
    /\ UNCHANGED <<sent, expired, processed, rows, fileFaults>>

\* Mutant: the list is cut at its other end.
RecentOldest(window) ==
    {f \in window : Cardinality({g \in window : g < f}) < Newest}

Recent(window) == {f \in window : Cardinality({g \in window : g > f}) < Newest}

Status(f, known) == IF f \in known THEN "processed" ELSE "waiting"

\* The upserts, in one transaction.
WriteRows ==
    /\ pass.pc = "known"
    /\ rows' = [f \in Files |-> IF f \in Recent(pass.window)
                                THEN Status(f, pass.known) ELSE rows[f]]
    /\ pass' = NoPass
    /\ UNCHANGED <<sent, expired, processed, fileFaults>>

\* MySQL, Genus or PostgreSQL fails: the pass ends and writes nothing.
PassFails ==
    /\ pass.pc # "idle" /\ fileFaults < MaxFileFaults
    /\ fileFaults' = fileFaults + 1
    /\ pass' = NoPass
    /\ UNCHANGED <<sent, expired, processed, rows>>

PassStep == FetchSent \/ FetchProcessed \/ WriteRows
FilesNext ==
    \/ PassStep
    \/ PassFails
    \/ SendFile
    \/ ExpireFile
    \/ \E f \in Files : ProcessFile(f)

-----------------------------------------------------------------------------
\* When passes go on being completed and nothing is sent or processed any more,
\* the table comes to show each of the newest files of the week as it is in Genus
\* (app.py:378-461).  Of an older file it may show "waiting" for good: nothing
\* writes that row again.  That passes go on is assumed here and not given by the
\* code: only the connections have timeouts (app.py:265, 275), so that a query
\* that hangs stops the loop with the table as it is.
TableCatchesUp ==
    []<><<WriteRows>>_filesVars =>
        <>[](\A f \in Window : f > sent - Newest =>
                rows[f] = IF f \in processed THEN "processed" ELSE "waiting")

\* A row that shows a file as processed is never turned back, although every
\* pass writes the row again from what it read: files that Genus has processed
\* stay processed, and a query that fails ends the pass (app.py:411-454).
ProcessedForGood ==
    [][\A f \in Files : rows[f] = "processed" => rows'[f] = "processed"]_filesVars
=============================================================================
