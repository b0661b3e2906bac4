------------------------------ MODULE Exporter ------------------------------
(***************************************************************************)
(* The export of sessions and devices (exporter.py): a task reads its      *)
(* configuration, moves the date of the last export to now, writes a file  *)
(* of the sessions and one of the devices between that date and now, and   *)
(* sleeps for a step.  The page of the administrator (admin.js, Exporter)  *)
(* saves the whole configuration, with the date as it was loaded or typed. *)
(* The upload of the files by curl is left out: nobody looks at how it     *)
(* ends.                                                                   *)
(*                                                                         *)
(* Records are sessions and devices.  A process that changes one takes the *)
(* time before its update lands in the database.  A session has a first    *)
(* and a last time, a device its last only.                                *)
(***************************************************************************)
EXTENDS Integers

CONSTANTS
  Sessions, Devices,
  Step,          \* cfg["step"]
  MaxTime        \* bound: the clock

Records == Sessions \cup Devices
Times == 1..MaxTime

ASSUME ExportAssumption == /\ Sessions \cap Devices = {}
                           /\ MaxTime \in Nat \ {0} /\ Step \in Nat \ {0}

VARIABLES
  clock,
  first, latest, \* times of a record in the database, 0 without one
  pending,       \* the time of an update that has not landed, 0 without one
  enabled,       \* of the configuration
  date,          \* the date of the last export in it, 0 without one
  page,          \* the date in the administrator's page, 0 before it is loaded
  pc,            \* sheduler_callback_async
  now, then,     \* its locals
  owed           \* history: whether a record's last update is in a file

records == <<first, latest, pending>>
config == <<enabled, date>>
task == <<pc, now, then>>
exporter == <<clock, records, config, page, task, owed>>

Kind(r) == IF r \in Sessions THEN "session" ELSE "device"

Steps == {"down", "start", "config", "stamp", "sessions", "devices", "sleep",
          "later", "over"}

ExportTypeOK ==
  /\ clock \in Times
  /\ {first, latest, pending} \subseteq [Records -> 0..clock]
  /\ enabled \in BOOLEAN /\ {date, page} \subseteq 0..MaxTime
  /\ pc \in Steps
  /\ now \in 0..clock /\ then \in Int
  /\ owed \in [Records -> {"filed", "owed", "lost"}]

ExportInit ==
  /\ clock = 1
  /\ first = [r \in Records |-> 0] /\ latest = [r \in Records |-> 0]
  /\ pending = [r \in Records |-> 0]
  /\ enabled \in BOOLEAN /\ date = 0 /\ page = 0
  /\ pc = "down" /\ now = 0 /\ then = 0
  /\ owed = [r \in Records |-> "filed"]

----------------------------------------------------------------------------
(* Time, the other processes, the administrator *)

Tick ==
  /\ clock < MaxTime /\ clock' = clock + 1
  /\ UNCHANGED <<records, config, page, task, owed>>

\* A process takes the time for an update of r.
Stamp(r) ==
  /\ pending[r] = 0
  /\ pending' = [pending EXCEPT ![r] = clock]
  /\ UNCHANGED <<clock, first, latest, config, page, task, owed>>

InWindowOpen(r) ==                               \* mutant: $gt
  first[r] # 0 /\ first[r] <= now /\ latest[r] > then
InWindow(r) == first[r] # 0 /\ first[r] <= now /\ latest[r] >= then

\* r is in the window that is being written, in the file still to come.
BeingWritten(r) ==
  (pc = "sessions" \/ (pc = "devices" /\ r \in Devices)) /\ InWindow(r)

\* r is in that window or the next.
ToRead(r) == latest[r] >= date \/ BeingWritten(r)

Lands(r) ==
  /\ pending[r] # 0
  /\ pending' = [pending EXCEPT ![r] = 0]
  /\ latest' = [latest EXCEPT ![r] = pending[r]]
  /\ first' = IF first[r] = 0 \/ r \in Devices
              THEN [first EXCEPT ![r] = pending[r]] ELSE first
  /\ UNCHANGED <<clock, config, page, task>>
  /\ owed' = [owed EXCEPT ![r] = IF ToRead(r)' THEN "owed" ELSE "lost"]

\* What was to be read and is in no window any more is lost.
PassedOver ==
  owed' = [r \in Records |->
             IF owed[r] = "owed" /\ ToRead(r) /\ ~ToRead(r)' THEN "lost"
             ELSE owed[r]]

\* exports_load: a new configuration gets the date of the day, and one without
\* a date raises.
LoadPage ==
  /\ enabled => date # 0
  /\ page' = IF date = 0 THEN clock ELSE date
  /\ UNCHANGED <<clock, records, config, task, owed>>

\* update: the whole configuration is set, with the date the page was loaded
\* with, stale by now, or one that was typed.
Save ==
  /\ page # 0 /\ page' = 0
  /\ enabled' \in BOOLEAN
  /\ date' \in {page} \cup Times
  /\ UNCHANGED <<clock, records, task>>
  /\ PassedOver

----------------------------------------------------------------------------
(* sheduler_callback_async *)

\* run: the loop calls the callback, which makes the task.
Begin ==
  /\ pc = "start" /\ pc' = "config"
  /\ UNCHANGED <<clock, records, config, page, now, then, owed>>

\* Not enabled: the callback is called again in 60 s.  Else `now' is taken.
ReadConfig ==
  /\ pc = "config"
  /\ IF enabled THEN pc' = "stamp" /\ now' = clock
     ELSE pc' = "later" /\ UNCHANGED now
  /\ UNCHANGED <<clock, records, config, page, then, owed>>

CallLater ==
  /\ pc = "later" /\ pc' = "config"
  /\ UNCHANGED <<clock, records, config, page, now, then, owed>>

ThenAfter == now                                 \* mutant: AFTER, not BEFORE
\* The document as it was before the update.
Then == IF date = 0 THEN now - Step ELSE date

\* find_one_and_update: the window is claimed.  What is older than a step
\* before the first export is in none.
MoveDate ==
  /\ pc = "stamp" /\ pc' = "sessions"
  /\ then' = Then
  /\ date' = now
  /\ owed' = [r \in Records |->
               IF date = 0 /\ owed[r] = "owed" /\ latest[r] < now - Step
               THEN "lost" ELSE owed[r]]
  /\ UNCHANGED <<clock, records, enabled, page, now>>

Files(kind) ==
  owed' = [r \in Records |->
             IF Kind(r) = kind /\ InWindow(r) THEN "filed" ELSE owed[r]]

WriteSessions ==
  /\ pc = "sessions" /\ pc' = "devices"
  /\ Files("session")
  /\ UNCHANGED <<clock, records, config, page, now, then>>

WriteDevices ==
  /\ pc = "devices" /\ pc' = "sleep"
  /\ Files("device")
  /\ UNCHANGED <<clock, records, config, page, now, then>>

Wakes ==
  /\ pc = "sleep" /\ clock >= now + Step /\ pc' = "config"
  /\ UNCHANGED <<clock, records, config, page, now, then, owed>>

----------------------------------------------------------------------------
(* Failures *)

\* The disk is full, a session has no ip, the database is away: the task ends
\* with its exception, and nothing calls it again.  What was to be read in its
\* window only is lost.
Raises ==
  /\ pc \in {"config", "stamp", "sessions", "devices"} /\ pc' = "over"
  /\ UNCHANGED <<clock, records, config, page, now, then>>
  /\ PassedOver

\* The process is killed, or started.
Killed ==
  /\ pc' = "down"
  /\ UNCHANGED <<clock, records, config, page, now, then>>
  /\ PassedOver

Started ==
  /\ pc = "down" /\ pc' = "start"
  /\ UNCHANGED <<clock, records, config, page, now, then, owed>>

----------------------------------------------------------------------------

Task == \/ Begin \/ ReadConfig \/ CallLater \/ MoveDate \/ WriteSessions
        \/ WriteDevices \/ Wakes

World == Tick \/ LoadPage \/ Save \/ \E r \in Records : Stamp(r) \/ Lands(r)

ExportNext == World \/ Task \/ Raises \/ Killed \/ Started
ExportSpec == ExportInit /\ [][ExportNext]_exporter

----------------------------------------------------------------------------
(* Properties *)

\* What is older than the date of the last export is in a file, whatever the
\* times at which sessions go on, exports sleep, processes are killed and the
\* configuration is saved; except (1) what landed with a time before the date,
\* too late for the window being written, (2) what was in one that broke off,
\* (3) what a date saved by the administrator, or that of a new configuration,
\* passes over, and (4) what is older than a step before a first export whose
\* configuration has no date.
NothingMissed ==
  pc \notin {"sessions", "devices"} =>
    \A r \in Records : latest[r] < date => owed[r] # "owed"
=============================================================================
