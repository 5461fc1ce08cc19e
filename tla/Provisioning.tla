---------------------------- MODULE Provisioning ----------------------------
(***************************************************************************)
(* The lifecycle of the WhatsApp connectors: the web application records   *)
(* what each workspace wants (app/whatsapp.py, accounts.delete_account),   *)
(* the management interface lists it and takes reports (app/internal.py),  *)
(* and the provisioner on the host (deploy/provisioner.py) makes the       *)
(* containers and session directories agree with a listing it fetched      *)
(* before.                                                                 *)
(*                                                                         *)
(* A transaction of the web application is one action, except request_     *)
(* connect, which counts the connectors and then adds one.  The handler of *)
(* a workspace in a cycle is one action: nothing else changes its          *)
(* container and directory, and what it leaves when a command of it fails, *)
(* or the provisioner is stopped in it, is a prefix of what it does.  The  *)
(* `observed` column and the reports that only change it are left out, as  *)
(* are networks, limits and owners of files.                               *)
(***************************************************************************)
EXTENDS Integers, FiniteSets, FiniteSetsExt

CONSTANTS Workspaces,
          Leftover,     \* accounts deleted before connector_cleanups existed
          Cap,          \* connector_cap
          MaxKeys,      \* bound: connector rows a workspace has in turn
          MaxRequests,  \* bound: requests of the users and releases
          MaxFaults,    \* bound: failing commands and restarts of the provisioner
          MaxBroken,    \* bound: listings that miss the rows they should have
          MaxLate       \* bound: reports carried out after the provisioner gave up

ASSUME ProvisioningAssumption ==
  /\ Leftover \subseteq Workspaces
  /\ Cap \in Nat /\ MaxKeys \in Nat /\ MaxRequests \in Nat
  /\ MaxFaults \in Nat /\ MaxBroken \in Nat /\ MaxLate \in Nat

VARIABLES
  account,    \* the workspaces that exist
  row,        \* whatsapp_connectors.desired, or absent
  key,        \* the key of the row; every row has a new one
  cleanup,    \* connector_cleanups
  counted,    \* request_connect has counted and will add this workspace
  container,  \* none, exited or running
  image,      \* the container has the image of the release
  dir,        \* the session directory exists
  file,       \* the key in its secret directory
  read,       \* the key the connector read when it was started
  pc,         \* idle, rows, report or orphans
  listing,    \* what the provisioner fetched: desired and key per workspace, and
              \* whether the image that came with it is still the release's
  populated,  \* ... and whether workspace_count was not zero
  todo,       \* the workspaces it has not come to
  at,         \* the workspace whose removal it reports
  seen,       \* orphan_seen
  late,       \* a report given up: no, waiting to be carried out, or done
  asked,      \* the user asked for the removal of what the directory holds;
              \* a directory made while the connector is wanted begins anew
  requests, faults, broken

web    == <<account, row, key, cleanup, counted>>
host   == <<container, image, dir, file, read>>
cycle  == <<pc, listing, populated, todo, at, seen>>
bounds == <<requests, faults, broken>>
vars   == <<web, host, cycle, late, asked, bounds>>

Wanted(w) == IF w \in cleanup THEN "deleted" ELSE row[w]
Listed    == {w \in Workspaces : Wanted(w) # "absent"}
Clean(w)  == container[w] = "none" /\ ~dir[w]

TypeOK ==
  /\ account \subseteq Workspaces /\ cleanup \subseteq Workspaces
  /\ row \in [Workspaces -> {"absent", "running", "stopped", "deleted"}]
  /\ key \in [Workspaces -> 0..MaxKeys] /\ file \in [Workspaces -> 0..MaxKeys]
  /\ read \in [Workspaces -> 0..MaxKeys]
  /\ counted \subseteq Workspaces
  /\ container \in [Workspaces -> {"none", "exited", "running"}]
  /\ image \in [Workspaces -> BOOLEAN] /\ dir \in [Workspaces -> BOOLEAN]
  /\ pc \in {"idle", "rows", "report", "orphans"}
  /\ listing \in [Workspaces -> {"absent", "running", "stopped", "deleted"} \X (0..MaxKeys)
                              \X {"current", "older"}]
  /\ todo \subseteq Workspaces /\ populated \in BOOLEAN
  /\ late \in [Workspaces -> {"no", "waiting", "done"}]
  /\ at \subseteq Workspaces /\ Cardinality(at) <= 1
  /\ seen \in [Workspaces -> 0..3]
  /\ asked \in [Workspaces -> BOOLEAN]

Nothing == [w \in Workspaces |-> <<"absent", 0, "current">>]

Init ==
  /\ account = Workspaces \ Leftover /\ cleanup = {} /\ counted = {}
  /\ row = [w \in Workspaces |-> "absent"] /\ key = [w \in Workspaces |-> 0]
  /\ container = [w \in Workspaces |-> "none"]
  /\ image = [w \in Workspaces |-> TRUE]
  /\ dir = [w \in Workspaces |-> w \in Leftover]
  /\ file = key /\ read = key
  /\ pc = "idle" /\ listing = Nothing /\ populated = FALSE /\ todo = {} /\ at = {}
  /\ seen = [w \in Workspaces |-> 0] /\ late = [w \in Workspaces |-> "no"]
  /\ asked = dir
  /\ requests = 0 /\ faults = 0 /\ broken = 0

-----------------------------------------------------------------------------
(* The web application *)

Request == requests < MaxRequests /\ requests' = requests + 1 /\ UNCHANGED <<faults, broken>>

\* A row of its own with a new key, when there is none.
RowFor(w, desired) ==
  /\ row' = [row EXCEPT ![w] = desired]
  /\ IF row[w] = "absent" THEN /\ key[w] < MaxKeys
                               /\ key' = [key EXCEPT ![w] = @ + 1]
                          ELSE UNCHANGED key

Active == {w \in Workspaces : row[w] = "running"}

\* Mutant of Count: without the advisory lock.
CountUnlocked(w) ==
  /\ Request
  /\ w \in account /\ row[w] # "running" /\ w \notin counted
  /\ IF Cardinality(Active) >= Cap
     THEN /\ RowFor(w, IF row[w] = "absent" THEN "stopped" ELSE row[w])
          /\ UNCHANGED counted
     ELSE /\ counted' = counted \cup {w}
          /\ UNCHANGED <<row, key>>
  /\ UNCHANGED <<account, cleanup, host, cycle, late, asked>>

\* request_connect, under the advisory lock, counts the running connectors.
\* A row that is new or was not running stays so when the slots are taken.
Count(w) ==
  /\ Request
  /\ counted = {}
  /\ w \in account /\ row[w] # "running"
  /\ IF Cardinality(Active) >= Cap
     THEN /\ RowFor(w, IF row[w] = "absent" THEN "stopped" ELSE row[w])
          /\ UNCHANGED counted
     ELSE /\ counted' = {w}
          /\ UNCHANGED <<row, key>>
  /\ UNCHANGED <<account, cleanup, host, cycle, late, asked>>

\* ... and commits.
Connect(w) ==
  /\ w \in counted
  /\ counted' = counted \ {w}
  /\ RowFor(w, "running")
  /\ UNCHANGED <<account, cleanup, host, cycle, late, asked, bounds>>

\* stop; the row is locked while the connector is asked to log out, so that
\* the others see the commit only.
Stop(w, remove) ==
  /\ Request
  /\ row[w] # "absent" /\ w \notin counted
  /\ row' = [row EXCEPT ![w] = IF remove THEN "deleted" ELSE "stopped"]
  /\ asked' = [asked EXCEPT ![w] = @ \/ remove]
  /\ UNCHANGED <<account, key, cleanup, counted, host, cycle, late>>

\* Mutant of DeleteAccount: left to the sweep of orphans.
DeleteAccountOnly(w) ==
  /\ Request
  /\ w \in account /\ w \notin counted
  /\ account' = account \ {w}
  /\ row' = [row EXCEPT ![w] = "absent"]
  /\ asked' = [asked EXCEPT ![w] = TRUE]
  /\ UNCHANGED <<cleanup, key, counted, host, cycle, late>>

\* stop and delete_account in one transaction: the rows of the workspace go,
\* the cleanup stays.
DeleteAccount(w) ==
  /\ Request
  /\ w \in account /\ w \notin counted
  /\ account' = account \ {w}
  /\ cleanup' = IF row[w] # "absent" THEN cleanup \cup {w} ELSE cleanup
  /\ row' = [row EXCEPT ![w] = "absent"]
  /\ asked' = [asked EXCEPT ![w] = TRUE]
  /\ UNCHANGED <<key, counted, host, cycle, late>>

\* A release: the containers have an older image from now on, and so has the
\* listing that the provisioner may be working on.
Release ==
  /\ Request
  /\ image' = [w \in Workspaces |-> container[w] = "none"]
  /\ listing' = [w \in Workspaces |-> <<listing[w][1], listing[w][2], "older">>]
  /\ UNCHANGED <<web, container, dir, file, read, pc, populated, todo, at, seen, late, asked>>

\* Mutant of Removed: the row goes whatever the workspace wants by now.
RemovedAnyway(w) ==
  /\ w \notin counted
  /\ cleanup' = cleanup \ {w}
  /\ row' = [row EXCEPT ![w] = "absent"]
  /\ UNCHANGED <<account, key, counted>>

\* Mutant of Removed: the row is kept and marked.
RemovedMarked(w) ==
  /\ w \notin counted
  /\ cleanup' = cleanup \ {w}
  /\ row' = [row EXCEPT ![w] = IF w \notin cleanup /\ @ = "deleted" THEN "removed" ELSE @]
  /\ UNCHANGED <<account, key, counted>>

\* The management interface is told that w is removed: it forgets what it
\* wanted removed and nothing else.  A report waits for the row's lock.
Removed(w) ==
  /\ w \notin counted
  /\ cleanup' = cleanup \ {w}
  /\ row' = [row EXCEPT ![w] = IF w \notin cleanup /\ @ = "deleted" THEN "absent" ELSE @]
  /\ UNCHANGED <<account, key, counted>>

-----------------------------------------------------------------------------
(* The provisioner *)

Fault == faults < MaxFaults /\ faults' = faults + 1 /\ UNCHANGED <<requests, broken>>

\* A connector ends; docker may start it again, and it reads its key anew.
Exit(w) ==
  /\ Fault
  /\ container[w] = "running"
  /\ \/ container' = [container EXCEPT ![w] = "exited"] /\ UNCHANGED read
     \/ read' = [read EXCEPT ![w] = file[w]] /\ UNCHANGED container
  /\ UNCHANGED <<web, image, dir, file, cycle, late, asked>>

Fetch ==
  /\ pc = "idle"
  /\ pc' = "rows"
  /\ listing' = [w \in Workspaces |-> <<Wanted(w), key[w], "current">>]
  /\ populated' = (account # {})
  /\ todo' = Listed
  /\ UNCHANGED <<web, host, at, seen, late, asked, bounds>>

\* A listing of an empty database (a failed restore), which says so, or one
\* that misses rows through a transient bug, which does not.
FetchEmpty ==
  /\ pc = "idle" /\ broken < MaxBroken
  /\ broken' = broken + 1
  /\ pc' = "rows"
  /\ listing' = Nothing /\ todo' = {} /\ populated' \in BOOLEAN
  /\ UNCHANGED <<web, host, at, seen, late, asked, requests, faults>>

Row(w) == pc = "rows" /\ w \in todo /\ todo' = todo \ {w}

\* What ensure_running does: the directory and the key file, ...
Prepared(w) ==
  /\ dir' = [dir EXCEPT ![w] = TRUE]
  /\ file' = [file EXCEPT ![w] = listing[w][2]]
  /\ asked' = [asked EXCEPT ![w] = @ /\ (dir[w] \/ row[w] # "running")]

\* The listing's image is that of the release.
Current(w) == listing[w][3] = "current"

\* The container has another image than the listing's: that of an older release
\* has, or has not, when the listing's is an older one too.
Another(w) ==
  LET old == container[w] # "none" /\ ~image[w] IN
  {replace \in BOOLEAN : /\ replace => old
                         /\ old /\ Current(w) => replace}

\* ... the container of another image removed, the container created or started.
Runs(w) ==
  \E replace \in Another(w) :
    IF container[w] = "running" /\ ~replace
    THEN UNCHANGED <<container, image, read>>
    ELSE /\ container' = [container EXCEPT ![w] = "running"]
         /\ read' = [read EXCEPT ![w] = listing[w][2]]
         /\ image' = [image EXCEPT ![w] = IF container[w] = "none" \/ replace THEN Current(w) ELSE @]

EnsureRunning(w) ==
  /\ Row(w) /\ listing[w][1] = "running"
  /\ Prepared(w) /\ Runs(w)
  /\ UNCHANGED <<web, pc, listing, populated, at, seen, late, bounds>>

\* A command failed: nothing more, the old container stopped, or removed, or
\* the new one created only.
EnsureFails(w) ==
  /\ Row(w) /\ listing[w][1] = "running"
  /\ Fault
  /\ Prepared(w)
  /\ \/ UNCHANGED <<container, image>>
     \/ /\ container[w] # "none" /\ ~image[w]
        /\ container' = [container EXCEPT ![w] = "exited"] /\ UNCHANGED image
     \/ /\ container[w] = "none" \/ ~image[w]
        /\ \E left \in {"none", "exited"} : container' = [container EXCEPT ![w] = left]
        /\ image' = [image EXCEPT ![w] = Current(w)]
  /\ UNCHANGED <<web, read, pc, listing, populated, at, seen, late>>

StopRow(w) ==
  /\ Row(w) /\ listing[w][1] = "stopped"
  /\ container' = [container EXCEPT ![w] = "none"]
  /\ UNCHANGED <<web, image, dir, file, read, pc, listing, populated, at, seen, late, asked, bounds>>

\* Mutant of Delete: without stop.
DeleteFiles(w) ==
  /\ dir' = [dir EXCEPT ![w] = FALSE] /\ file' = [file EXCEPT ![w] = 0]
  /\ UNCHANGED <<container, image, read>>

\* delete: the container, then the directory.
Delete(w) ==
  /\ container' = [container EXCEPT ![w] = "none"]
  /\ dir' = [dir EXCEPT ![w] = FALSE] /\ file' = [file EXCEPT ![w] = 0]
  /\ UNCHANGED <<image, read>>

DeleteRow(w) ==
  /\ Row(w) /\ listing[w][1] = "deleted"
  /\ Delete(w)
  /\ pc' = "report" /\ at' = {w}
  /\ UNCHANGED <<web, listing, populated, seen, late, asked, bounds>>

\* A command failed on the way: an error is reported, the next row follows.
DeleteFails(w) ==
  /\ Row(w) /\ listing[w][1] \in {"stopped", "deleted"}
  /\ Fault
  /\ \/ UNCHANGED container
     \/ listing[w][1] = "deleted" /\ container' = [container EXCEPT ![w] = "none"]
  /\ UNCHANGED <<web, image, dir, file, read, pc, listing, populated, at, seen, late, asked>>

Reported == pc = "report" /\ pc' = "rows" /\ at' = {} /\ UNCHANGED <<listing, populated, todo, seen>>

Report(w) ==
  /\ Reported /\ at = {w}
  /\ Removed(w)
  /\ UNCHANGED <<host, late, asked, bounds>>

\* The report is lost, or carried out after the provisioner's fifteen seconds.
ReportLost ==
  /\ Reported /\ Fault
  /\ \/ UNCHANGED late
     \/ /\ Cardinality({w \in Workspaces : late[w] # "no"}) < MaxLate
        /\ late' = [w \in Workspaces |-> IF w \in at THEN "waiting" ELSE late[w]]
  /\ UNCHANGED <<web, host, asked>>

LateReport(w) ==
  /\ late[w] = "waiting"
  /\ late' = [late EXCEPT ![w] = "done"]
  /\ Removed(w)
  /\ UNCHANGED <<host, cycle, asked, bounds>>

\* Mutant of Doomed: at the second time.
DoomedSoon == {w \in Workspaces : seen[w] >= 2}

Orphans == {w \in Workspaces : ~Clean(w) /\ listing[w][1] = "absent"}
Doomed  == {w \in Workspaces : seen[w] >= 3}

\* The rows are done: orphans are counted, if the listing is that of a
\* database with workspaces in it.
CountOrphans ==
  /\ pc = "rows" /\ todo = {}
  /\ IF ~populated
     THEN pc' = "idle" /\ UNCHANGED seen
     ELSE /\ pc' = "orphans"
          /\ seen' = [w \in Workspaces |-> IF w \in Orphans THEN Min({seen[w] + 1, 3}) ELSE 0]
  /\ UNCHANGED <<web, host, listing, populated, todo, at, late, asked, bounds>>

DeleteOrphan(w) ==
  /\ pc = "orphans" /\ w \in Doomed
  /\ Delete(w)
  /\ seen' = [seen EXCEPT ![w] = 0]
  /\ UNCHANGED <<web, pc, listing, populated, todo, at, late, asked, bounds>>

\* Bound: an orphan whose deletion fails is tried again in the next cycle.
EndCycle ==
  /\ pc = "orphans"
  /\ \/ Doomed = {} /\ UNCHANGED bounds
     \/ Doomed # {} /\ Fault
  /\ pc' = "idle" /\ listing' = Nothing
  /\ UNCHANGED <<web, host, populated, todo, at, seen, late, asked>>

\* The service is restarted and forgets the orphans it has seen.
Restart ==
  /\ Fault
  /\ pc' = "idle" /\ listing' = Nothing /\ populated' = FALSE /\ todo' = {} /\ at' = {}
  /\ seen' = [w \in Workspaces |-> 0]
  /\ UNCHANGED <<web, host, late, asked>>

-----------------------------------------------------------------------------
User ==
  \/ \E w \in Workspaces : Count(w) \/ Connect(w) \/ DeleteAccount(w)
  \/ \E w \in Workspaces, remove \in BOOLEAN : Stop(w, remove)

Works ==
  \/ Fetch
  \/ \E w \in Workspaces : EnsureRunning(w)
  \/ \E w \in Workspaces : StopRow(w)
  \/ \E w \in Workspaces : DeleteRow(w)
  \/ \E w \in Workspaces : Report(w)
  \/ CountOrphans
  \/ \E w \in Workspaces : DeleteOrphan(w)
  \/ EndCycle

Amiss ==
  \/ FetchEmpty
  \/ ReportLost
  \/ Restart
  \/ \E w \in Workspaces : EnsureFails(w) \/ DeleteFails(w) \/ Exit(w)

Next == User \/ Release \/ Works \/ Amiss \/ \E w \in Workspaces : LateReport(w)

Spec == Init /\ [][Next]_vars

(***************************************************************************)
(* Fairness.  The service is restarted and polls every ten seconds, every  *)
(* command has a timeout, transactions end.                                *)
(***************************************************************************)
Fairness ==
  /\ WF_vars(Works)
  /\ \A w \in Workspaces : WF_vars(Connect(w)) /\ WF_vars(LateReport(w))

FairSpec == Spec /\ Fairness

-----------------------------------------------------------------------------
(* Properties *)

\* No more connectors are wanted than there are slots, however requests
\* interleave (whatsapp.py:47).
CapHolds == Cardinality(Active) <= Cap

\* No report about the workspace was carried out after its time.
Timely(w) == late[w] # "done"

\* What is forgotten is gone: a workspace without row and cleanup has neither
\* container nor session on the host, other than what was left before there
\* were cleanups.
NothingForgotten ==
  \A w \in Workspaces \ Leftover : Wanted(w) = "absent" /\ Timely(w) => Clean(w)

\* A connector that is wanted holds the key of its row, through rows that are
\* removed and made anew.
KeyCurrent ==
  \A w \in Workspaces :
    row[w] = "running" /\ container[w] = "running" /\ Timely(w) => read[w] = key[w]

\* A session is deleted only if its user asked for it since it began: no
\* incomplete listing costs a user the link with the phone.
SessionSafe ==
  [][\A w \in Workspaces : dir[w] /\ ~dir'[w] => asked[w]]_vars

\* A workspace that wants its connector and does not ask otherwise gets one,
\* of the image and with the key of the day.
Converges ==
  \A w \in Workspaces :
    row[w] = "running" ~> \/ row[w] \in {"stopped", "deleted"} \/ w \notin account
                          \/ ~Timely(w)
                          \/ container[w] = "running" /\ image[w] /\ read[w] = key[w]

\* A deleted account leaves nothing on the host; what only the orphan sweep
\* sees waits for there to be another account.
Cleaned ==
  \A w \in Workspaces :
    w \notin account ~> Clean(w) \/ (account = {} /\ (w \in Leftover \/ ~Timely(w)))

\* A session whose removal was asked for is removed.
RemovalDone == \A w \in Workspaces : row[w] = "deleted" ~> Clean(w)
=============================================================================
