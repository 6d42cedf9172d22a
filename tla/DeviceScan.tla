------------------------------ MODULE DeviceScan ------------------------------
(***************************************************************************)
(* How the device update manager finds images (deviceUpdateRun in          *)
(* deviceUpdateMgr/deviceUpdateMgrMain.cpp).  Once in the life of the      *)
(* process, some minutes after its start, it looks through the folders of  *)
(* its configuration, or through one of them that depends on the day of    *)
(* the month, and announces each image it finds.                           *)
(*                                                                         *)
(* A minute of the configuration is a tick of the model, and so are the    *)
(* ten seconds that announceCounter starts with.                           *)
(***************************************************************************)
EXTENDS Naturals, FiniteSets

CONSTANTS
    MaxFolders,  \* bound: folders in deviceFoldersToWatch
    Delays,      \* delayTillAnnounceTimeMin, in ticks
    MonthLengths,\* days of a month
    StartCount   \* announceCounter at the start

ASSUME ScanAssumption ==
    /\ MaxFolders \in Nat \ {0}
    /\ Delays \subseteq Nat
    /\ StartCount \in Nat
    /\ \A m \in MonthLengths : m \in Nat /\ m >= 2 * MaxFolders

VARIABLES
    scConf,      \* the configuration and the disk: [folders, delay, one, shown]
    scCounter,   \* announceCounter
    scLeft,      \* folders that are still to be looked through in this scan
    scDay,       \* the date: [day, days]
    scChecked,   \* history: folders looked through today, by this process
    scSince,     \* history: days with a whole scan, one after the other, since each folder was
                 \* looked through, counted up to 2 * MaxFolders
    scAnnounced  \* images announced by this process: [folder, kind]

scVars == <<scConf, scCounter, scLeft, scDay, scChecked, scSince, scAnnounced>>

Folder == 0..(scConf.folders - 1)

\* What there is in a folder. An image without a version in its XML is not announced.
Kind == {"tgz", "tar.gz", "noVersion.tgz", "other"}

ScInit ==
    /\ \E n \in 1..MaxFolders :
         scConf \in [folders : {n}, delay : Delays, one : BOOLEAN, shown : SUBSET (0..(n - 1))]
    /\ scCounter = StartCount
    /\ scLeft = {}
    /\ scDay \in [day : {1}, days : MonthLengths]
    /\ scChecked = {}
    /\ scSince = [f \in Folder |-> 0]
    /\ scAnnounced = {}

------------------------------------------------------------------------------

\* Mutant (EveryFolderHasItsDay): the folder before that of the day.
Mut_Selected_Off(day) == {f \in Folder : f + 1 = day % scConf.folders}

\* The loop counts selectedUpdate down to 0.
Selected(day) == {f \in Folder : f = day % scConf.folders}

\* sleep(1), and the scan when the counter is the configured time; the counter goes on, and
\* is never that again.
Tick ==
    /\ scLeft = {}
    /\ scCounter <= StartCount + scConf.delay
    /\ scLeft' = IF scCounter # scConf.delay THEN {}
                 ELSE IF scConf.one THEN Selected(scDay.day)
                 ELSE Folder
    /\ scCounter' = scCounter + 1
    /\ UNCHANGED <<scConf, scDay, scChecked, scSince, scAnnounced>>

\* rfind is given the place of the last dot and finds it again: a tar.gz looks like a gz.
isImage(kind) == kind = "tgz"

\* processDeviceFolder; _folderExists sees only folders that others may search.
processDeviceFolder ==
    \E f \in scLeft :
      /\ \A g \in scLeft : f <= g
      /\ scLeft' = scLeft \ {f}
      /\ scChecked' = scChecked \union {f}
      /\ scAnnounced' = scAnnounced \union
           [folder : {f} \intersect scConf.shown, kind : {k \in Kind : isImage(k)}]
      /\ UNCHANGED <<scConf, scCounter, scDay, scSince>>

\* Today's scan came to its end without folder f.
Missed(f) == scCounter > scConf.delay /\ scLeft = {} /\ f \notin scChecked
Least(a, b) == IF a < b THEN a ELSE b

\* The process, or the box, starts again, on the same day or on the next.
ScRestart ==
    /\ scCounter > StartCount
    /\ scCounter' = StartCount
    /\ scLeft' = {}
    /\ scAnnounced' = {}
    /\ \/ scChecked' = {} /\ UNCHANGED <<scDay, scSince>>
       \/ /\ IF scDay.day < scDay.days THEN scDay' = [scDay EXCEPT !.day = @ + 1]
                                       ELSE scDay' \in [day : {1}, days : MonthLengths]
          /\ scChecked' = {}
          /\ scSince' = [f \in Folder |-> IF Missed(f) THEN Least(scSince[f] + 1, 2 * MaxFolders)
                                                   ELSE 0]
    /\ UNCHANGED scConf

ScNext == Tick \/ processDeviceFolder \/ ScRestart

ScSpec == ScInit /\ [][ScNext]_scVars

------------------------------------------------------------------------------
(* Properties *)

\* A box that ends a scan every day looks through every folder, also when the
\* scan takes one a day and whatever the month: none waits for twice as many days as
\* there are folders.  It holds for few folders only, at most 14 where February has 28 days:
\* ScanAssumption asks months of at least twice as many days.  (A delay shorter than what
\* the counter starts with is never met.)
EveryFolderHasItsDay ==
    scConf.delay >= StartCount => \A f \in Folder : scSince[f] < 2 * scConf.folders

==============================================================================
