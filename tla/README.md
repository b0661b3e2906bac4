# Spot4 in TLA+

Spot4 runs hotspots: a visitor of a wireless network is led to a portal page,
proves a telephone number, and is let in by the router through RADIUS, with the
limits of the place or of a tariff. This directory holds TLA+ modules of that
server, TLC configurations that check them on small instances, and proofs for
every instance that TLAPS checks. Paths are those of the repository; `server/`
stands for `src/server/`.

## 1. The system

One supervisor (`server/server.py`) starts a set of processes. They share
nothing but MongoDB: each is a single-threaded asyncio loop in which a handler
runs until its next `await`, and between two awaits of one handler any other
handler, of the same or of another process, may run. An operation on one
document is atomic in MongoDB; a handler is not.

| Component | Process | State | Operations |
|---|---|---|---|
| Registration (`rest/phone.py`, `rest/device.py`) | http | `devices`, `users`, `counters`, `sms_sent` | POST /register/phone, POST /device/id |
| Incoming proofs (`zte.py` recieve_loop, worker, handle; `sms/zte.py`, `sms/smstools.py`; `ami.py`) | smser, ami | `devices`, the memory of a modem, the files of a spool | an SMS or a call arrives |
| SMS sender (`zte.py` send_loop, get_gate) | smser | capped collection `sms_sent`; cursor, last id, round robins in memory | insert, follow, send copies |
| Billing (`rest/billing.py`) | http | `invoice`, `voucher`, `tarif` | addinvoice, voucher, generate |
| Access and limits (`literadius/protocol.py` Auth) | radius.auth | `rad_sessions`; reads `devices`, `users`, `uamconfig`, `limit`, `invoice`, `accounting` | Access-Request |
| Accounting (`literadius/protocol.py` Accounting, `radius.py`) | radius.acct, radius.auth | `accounting` | Start, Interim-Update, Stop, Accounting-On; close_sessions at start-up |
| NetFlow collector (`netflow.py`) | netflow.5 | list `flows` in memory, capped collection `collector` | datagram, flush, shutdown |
| Supervisor (`server.py`) | main | list of processes, a lock, `sys.running` | set up, start, restart, kill, wait |
| Exporter (`exporter.py`) | exporter | the date of the last export, in the database | export, sleep |
| RADIUS packets (`literadius/packet.py`, `mschap/`) | in the radius processes | none | read, check a password, sign, write |
| AT modem library (`gsmmodem/`) | none: imported by no module | the serial line, its lock and events, the memory that is selected | write, read thread, stored messages, sendSms, sendUssd |
| Redirector (`rest/redirector.py`), administration, other drivers, EAP, pages | | | see section 7 |

How they interact. The page registers a phone and polls the device.
`phone_handler` inserts the device, finds or opens the account of the phone, and
either queues an SMS with a code, names a number that the visitor should text or
call, or lets everyone in. `device_handler`, the SMS receiver and the call
handler set `checked`. The page of a checked device gets a one-time password
and, where the portal has a tariff, an invoice. The router sends the password in
an Access-Request; radius.auth checks it, computes the limits from the profiles,
the invoice and what accounting has recorded, and writes a session. The router
then reports to radius.acct, whose documents are what the next Access-Request
is charged with.

What is hard, and what makes each component correct:

- **Registration.** A handler reads the device once and writes it after up to
  four awaits; the account is looked up, numbered and inserted in three
  operations; the insert of the SMS is not awaited; a handler may fail, be
  cancelled or die with its process in between. Correct means: no password without
  a proof, no checked mark lost, the code waited for was sent, a phone has few
  accounts and they are its own, few repeated texts, and a registration that broke
  off can be done again.
- **SMS sender.** A tailable cursor dies when the capped collection overtakes
  it; inserts may arrive out of the order of their ids; the task may die of an
  exception. Correct means: each text is sent as often as asked, through
  different gates, none twice, none forgotten.
- **Billing.** Find-then-insert in `addinvoice`, update-then-insert in `voucher`
  with no transaction (`TODO` at `billing.py:61`). Correct means: one invoice
  for a code, none lost but by a crash.
- **Access.** Requests are repeated, cancelled after 5 seconds and interleaved;
  a session is found by password, by mac, or made; what a tariff has left is
  computed from documents that others write. Correct means: every session is
  backed by a proof and a tariff is not exceeded.
- **Accounting.** UDP loses, repeats and reorders; the upsert is not awaited and
  its key has no unique index; two processes close open documents when they
  start. Correct means: a document charges no more than was counted, a session has
  few documents, a stopped session stays stopped, a live one is shown as live.
- **NetFlow.** A list is filled by datagrams and swapped out by a task; the
  wake-up event is cleared after the insert; an insert may fail half-way; the
  shutdown stores once more. Correct means: a flow is stored at most once, in
  order, and either stored or accounted for as lost.

- **Incoming SMS.** A driver marks a text as read, or moves its file, before anybody has
  looked at it, and does not look at whether the modem has done so; the loop waits for
  all gates; a modem that is nearly full is emptied. Correct means: a text proves once,
  none is forgotten without a fault, a dead gate holds up no other, and a full modem
  takes texts again.
- **Supervisor.** Signal handlers run inside whatever the main thread is doing,
  and inside each other; a process may outlast the ten seconds it is given.
  Correct means: no service runs twice, all of them run between restarts, and
  restarts and the program end.
- **Exporter.** The date of the last export moves before the files are written, the
  administrator's page sets it too, and records land after the time they carry. Correct
  means: nothing that landed in time falls between two windows.
- **RADIUS packets.** Values are cut into attributes, lengths fit an octet,
  numbers of more than 32 bits have two attributes, a long password is chained.
  Correct means: what is written is what is read, and a password is accepted
  exactly when it is the right one.
- **Modem library.** A line of the modem does not say whose it is, and a place of a
  message is read and deleted in two commands, which name it in hexadecimal. Correct
  means: no message is lost, and no call waits for ever.

PROJECT.json lists these hazards with the line where each bites and the
properties that cover it.

## 2. Modules

| Module | Models | Composes |
|---|---|---|
| `Registration` | phone_handler, setuser, nextuser, device_handler, zte.handle, newchannel_cb, kill, handlers that end early | registration with the two receivers; implements `Admission` |
| `SmsReceiver` | recieve_loop, worker, handle and the drivers `zte` and `smstools` with their modem and spool | loop, tasks, drivers and network; implements `Intake` |
| `SmsSender` | the insert of phone_handler, `sms_sent`, send_loop, get_gate, restarts | queue and sender |
| `Billing` | addinvoice, voucher, kill | |
| `Access` | handle_auth and what it calls, mark_device, cancel_answer | EXTENDS `Billing`; its NAS follows the sessions |
| `Accounting` | handle_acct, close_sessions, restart | the two radius processes, the wire and the NAS |
| `Admission` | what the portal promises: who is let in, by what, and who is told the password | |
| `Intake` | what a collector of flows or texts promises: a thing is received, then settled once | |
| `Netflow` | nf5, store_once, store, run5 | implements `Intake` |
| `Logins` | check_password and pw_decrypt, the functions of `mschap.py` they call, the keys of `des.py` | extended by `Access` and `RadiusPacket` |
| `RadiusPacket` | reading, writing and signing a `Packet`, set_limits | checked beside `Access` by `MCAccess` |
| `Supervisor` | main, setup, start, stop, kill, wait, restart | main thread, handlers and processes |
| `Exporter` | the task of the export, its two windows, the writers of records, the page of its configuration | |
| `Modem` | serial_comms.py, and of modem.py the stored messages, announcements, reports, sendSms, sendUssd, processStoredSms | host, line and modem |
| `MC...` | settings of portals, tariffs, gates, texts and services for TLC | |
| `..._proofs` | the theorems about a module, which they EXTEND | |

**Registration.** `dev` is the collection `devices` as a function of (phone, mac), the
unique key of `reindex.py:32`; `req` and `poll` are the handlers under way, with the
local variables that survive an await. A request goes through `PhoneStart` (lines 36-71,
up to the count of texts), `PhoneUpsert` (88), `PhoneCount` (94), `FindUser`,
`NextUser`, `InsertUser` (setuser), then one of `PhoneUnchanged`, `PhoneQuiet`,
`PhoneText` for the decision of lines 115-202, and `PhoneUpdate` (209). `PhoneRefused`
is the duplicate key of the index on (username, mac), which holds devices that have no
account yet; `InsertUser` and `PhoneUpdate` end in the same exception when the number,
or the account on that mac, is taken. `Fail` ends a handler at any await (an exception
of the database, which may have done what it was asked, or a browser that hangs up,
which cancels it) or all of them with the process (`BreakOff`). Codes and portals are
drawn from sets. `accepted`, `contacted` and `granted` are histories.

**SmsSender.** A text is its `_id`. `Insert` gives the id, `Lands` appends the text to
`log`, of which the capped collection holds the end: the oldest roll out. A cursor
has fetched the log up to `position` and send_loop has taken the batch up to
`taken`, so that a record that rolls out after it was fetched is still sent. The
loop is `FindLast`, `OpenCursor`, `GetMore`, `Take`, `SendCopy` (one copy, with the
recursion of get_gate as `Tries`), `CopiesDone`, `Slept`; a cursor is dead when its
position has rolled out (`GetMore`) or the server closed it (`CursorDies`); `Fails`
is the database raising in the `async for`, after which the task has ended until
`Restart`. Sending itself is external and its errors are ignored, as in lines
165-169.

**Billing and Access.** A call of addinvoice is `Ask`, `FindInvoice`,
`InsertInvoice`; a voucher is `Enter`, `Claim`, `InsertPaid` or `NoTariff`. An
Access-Request is `Receive`, one of `KnownPassword`, `OneTimePassword`, `ByMac`,
`Refuse` (lines 541-592), then `Reduce` (600-607), `FindDevice` (609),
`FindLimits` (337-368 and the query of 255), `Bill` (266-288) and `Insert`
(616-633). Limits are functions from the names of limits to numbers, so that
merging, lifting by 0, reducing and capping are operators on functions. A tick is
the step of a one-time password, and a password is named by its tick. `bytes` is
handled as `time` is and is left out. The order of a driver's thread and of the
assignment at line 596 to the filter it was given is a choice (`MarkLands`,
`MarkLost`). The limit profiles exist, as `get_uam_config` makes them.

**Accounting.** A handler that looks its user up and the write it starts are one
job; a packet that arrives again has a job of its own, which `copy` tells from the
first. A packet is answered when its write is started, so that the NAS sends the next
one whether it is done or not: it sends when it likes. A write is a `find` and, when
nothing matched, an `insert` that may come after another one's. `overlap` is the
history of how many writes of a session were under way at once. A gigaword is the
constant `Giga`. The NAS is external; it counts, reports, stops and reboots.

**SmsReceiver.** `place` says where a message is: on its way, unread, read, sent
(a reply that lies in the memory of the modem) or gone. A round of recieve_loop
starts a task for each gate; the tasks of modems go through `unread`, `mark`,
`handle`, `capacity` and `clean`, those of spools through `unread`, `file` and
`handle`. The drivers block, so a task runs from one wait for the database to the
next and everything in between is one step, but for what the network and a kill
do meanwhile. A call may fail before or after it has had its effect; a gate in
`Flaky` may fail for ever, the others up to `MaxFaults` times. A modem may also
answer that it refuses, which no driver looks at: a text that it would not mark is
handled all the same and listed again (`MarkRead`), and what it would not mark or
delete while it is cleaned stays. Its capacity is the larger of two memories, and
what is counted is in both, with the drafts (`Drafts`, `OnSim`), while one is listed
and cleaned. A broken file is one the driver raises on, a garbled one has no bytes,
for which the driver takes the words of the file before it (`says`), and a file that
cannot be parsed is skipped. `taken`, `refused` and `dropped` are histories.

**Admission.** A device is let in (`checked`) by a code that came back from where it
was sent, a call, a text, or a portal that asks for nothing; it stays in; and it gets
the password (`granted`) only inside. `Door` in `Registration` maps it to the marks of
the collection and the histories. That a page is answered from a document read before
several awaits is hidden by it, which is the point.

**Intake.** What was received is held until it is done or lost, each in one way and for
good; but its source may keep it (`Keep`, of which `back` is the history), and it is
held, and dealt with, again. `Netflow` holds its three lists of flows; `SmsReceiver` the
texts that are unread or in the hands of a task.

**Logins and RadiusPacket.** An octet is a number and a set of digest octets under
exclusive or, so that hiding a password and its recovery are computed and not assumed;
a digest is a symbol for its input, that is, free of collisions. In `Logins`, `Before`
chains the blocks of a password, `ChallengeResponse` makes the three DES keys of a
hash, and `CheckPassword` takes the four methods in the order of the code. The router
is as RFC 2865, 2433 and 2759 have it: `Hides` says what it sends for a password, and
`Login` the attributes of each method. In `RadiusPacket`, `Data` writes and `Received`
reads attributes, with vendors, pieces of long values, and the signature; it computes
by recursion what the router hides, and `RepliesUnderstood` also says that the packets
of `Logins` are what is read of the octets. The properties compare both directions
with what a router does.

**Supervisor.** `stack` holds the frames of the main thread, main's first; a
handler is pushed on it at any step, also on the handler before it, and the
program goes on with the top frame. The processes of one set-up are a generation,
and `services` is the generation in the list. `lock` is a `multiprocessing.Lock`: who
waits for one that is held beneath it waits for ever (`Stuck`).

**Exporter.** A writer takes the time (`Stamp`) before its update lands
(`Lands`); a session has a first and a last time, a device only its last. The task
is `config`, `stamp` (the date moves), `sessions`, `devices`, `sleep`. The page of the
administrator loads the configuration (`LoadPage`) and sets all of it later (`Save`),
with the date as it was, another one, or that of the day for a configuration that is
new. `owed` is the history of whether the last update of a record is in a file; it is
`lost` when no window has it any more.

**Modem.** Threads are known by the message they were started for. `Write` takes
the lock and puts a command on the line; `Execute` is the modem, `ReadLine` the
thread that reads, which gives a line to whoever waits or handles it as an
announcement. A line carries the thread whose command it answers, for the
invariants; the reading thread never looks at it. After `TimedOut` what was waited
for answers nobody, and whoever gets it has a mixed answer. A thread keeps the
memory and the place it was told; `Understood` is the place that the modem makes of it,
as the code writes it with `%x` and the modem reads a decimal number. `FirstRead` looks
at the first line of an answer only, as the code does; `PlaceOf` is the place that
listStoredSms keeps beside a message, which is that of the message before when that one
could not be decoded. `reading` is whether the reading thread lives: a timeout between
its look at the event and its use ends it (`Unlocked`).

**Netflow.** Flows are numbered by arrival. `Taken` and `Fresh` are the two
halves of the swap in store_once; `Outcomes` gives the prefixes that an ordered
insert_many may have taken when it fails.

## 3. Runs

Every run finishes in under five minutes on two cores.

| Run | Properties | Question | Instance | States |
|---|---|---|---|---|
| `registration_verify` | `PasswordOnlyAfterProof`, `AdmissionSpec` | Does any interleaving of a registration, a poll, an SMS, a call and sms.ru let someone in without proof, take a checked mark back, or tell the password to who is not in? | 1 device, 1 request, 1 poll, 2 codes, 1 tick, 1 failure or kill | 1.2 million |
| `registration_sms` | `ResendsBounded`, `TextedGetsIn` | Are repeated texts bounded, and does a visitor who was texted get in? | 1 device, 2 overlapping requests, a poll, 1 tick, 4 texts | 590 000 |
| `registration_accounts` | `AccountsBounded`, `LeftIsRegistered` | How many accounts does a phone get, and is a registration that broke off done in the end? | 2 phones, 1 mac, 2 requests, 5 numbers, 1 failure or kill | 900 000 |
| `receiver` | `TakenOnce`, `InboxSpec`, `CheckedByText`, `HandledInTheEnd`, `RoomInTheEnd` | Does a text prove once and by its own words, is it ever forgotten, does a full modem recover, and does a dead gate stay alone? | a modem of 3 messages (1 a draft) with 1 on its SIM, a spool with a broken and a garbled file that may fail for ever, 5 texts, a reply, 1 fault, refusal or kill | 400 000 |
| `sender` | `NeverTooMany`, `NoneSkipped`, `NothingOld`, `SentInTheEnd` | Is each text sent, as often as asked, once? | 4 texts, capacity 2, 3 gates, two of them with filters, in a general round robin of two and one of a callee, failures, a restart | 81 000 |
| `billing` | `VoucherSpentOnce`, `PaidIsInvoiced`, `TarifOnce` | Can a code be used twice or for nothing, can a tariff be given twice? | 2 users, 2 codes, 2 calls, 2 redemptions, kills | 3.0 million |
| `access` | `SessionsBacked`, `StaleOnlyInSession`, `QuotaKept`, `TariffEnds`, `LoginsChecked`, `RepliesUnderstood` | Who gets a session, for how long, and how much of a tariff? Are packets read as they were meant? | 1 device, 2 handlers, 4 ticks, 2 sessions, invoices of a portal and of a voucher, kills | 3.0 million |
| `accounting` | `ChargedAsCounted`, `DocumentsBounded`, `StopIsFinal`, `OnlyUpdateReopens`, `OnlineAgain` | What survives loss, repetition, disorder and answers that precede the writes? | 1 session, 2 octets, 2 packets, lookups or writes under way, a restart, a reboot | 380 000 |
| `netflow` | `Conserved`, `OldestFirst`, `LogSpec`, `Settled` | Are flows stored once, in order, in the end, and is `Intake` implemented? | 6 flows in datagrams of 2, failures, both kinds of stop | 5 000 |
| `supervisor` | `OneOfEach`, `Serving`, `RestartEnds`, `StopsInTheEnd` | What may signals do to each other and to the services? | 2 services, one of them slow and on a port, 2 SIGUSR1, a SIGINT, a midnight, a crash, a failed set-up | 71 000 |
| `exporter` | `NothingMissed` | Does anything fall between two windows? | a session, a device, 4 ticks, a step of 1, a page saved with any date, kills | 10.4 million |
| `modem` | `NoneLost`, `CallsEnd` | Is a message lost, also by the place or the index of another one, does a call wait for ever? | 2 messages (one a report that cannot be decoded), a memory with places 3 and 16, one with 10 and 16, 1 call of 3 kinds, 1 fault | 690 000 |

What they show. The properties hold on all states of the instances; for each one
PROJECT.json names a plausible fault of the code that breaks it.

Some properties state what is left after a race or a fault that the code has,
rather than its absence:

- `AccountsBounded` allows a phone one account for each request that can overlap, since
  nothing makes the phone unique in `users` (`phone.py:25`). A visitor whose
  registration was refused by the index on (username, mac), or broke off, must try
  again himself (`LeftIsRegistered`): nothing cleans up after it.
- `DocumentsBounded` allows a session one document for each write that was under way at
  once. A router that waits for its answers does not exclude it: the answer leaves before
  the write is done (`protocol.py:223-229`). Each document is charged (`reduce_limits`
  adds them up), so that such a session is charged more than it counted;
  `ChargedAsCounted` is about one document. For the same reason a late Update may be
  written after the Stop and open the session again, which `StopIsFinal` leaves out by
  the history `stopped`, and a late Start may insert a second document that is open,
  which `OnlyUpdateReopens` allows by name.
- `TarifOnce` allows one more invoice for each overlapping call;
  `PaidIsInvoiced` and `SessionsBacked` name the crashes.
- `ResendsBounded` allows 1 + 2 + ... + n texts inside the timeout for n requests
  at once. Each may send before the others have written their times, and a slow
  request then writes the time of its own, older text over that of a newer one
  (`phone.py:209` sets what was computed from line 88), so that the next requests
  send at once. The bound is reached: with two requests, three texts.
- `QuotaKept` is for one device whose Stop is written before it asks again; with
  two devices of one account each gets the whole of what is left.
- `InboxSpec` has what loses a text in `dropped`: a fault, a kill between the mark and
  the handling (`zte.py:55`), and clean, which also deletes the texts that came
  after unread (`zte.py:62`). `TakenOnce` and `InboxSpec` allow a text to be handled
  again for each time its modem refused to mark it (`sms/zte.py:238` does not look at
  the result). `CheckedByText` allows a garbled file the words of another file of its
  spool (`sms/smstools.py:69`).
- `RoomInTheEnd` supposes that a full modem is seen to be nearly full (`FullIsSeen`):
  with a SIM that holds more than the modem and is empty, the larger capacity is what
  the modem's messages are compared with, and it is never cleaned.
- `OneOfEach` leaves out the services that outlast their ten seconds; `Serving`
  those that found their port taken by such a one; `RestartEnds` ends in `Stuck`
  when SIGUSR1 comes during a restart, which then waits for itself
  (`server.py:187`); `StopsInTheEnd` leaves out a SIGINT that a restart swallows
  (`server.py:192`).
- `NothingMissed` leaves out a record that lands with a time before the date, too late
  for the window being written, the window of an export that broke off
  (`exporter.py:78`), what a date saved by the administrator or that of a new
  configuration passes over (`admin.js:264`, `admin.js:255`), and what is older than a
  step before a first export whose configuration has no date.
- `NoneLost` has five causes: an exception after the read, an answer left behind
  by a timeout, a memory selected by another thread between a read and a deletion,
  a place that the modem takes for another one or that goes with another message
  (`misplaced`; never with places below 10 and messages that can be decoded,
  `NothingMisplaced`), and two readers of one message.

### Where the code and the repository's words disagree

No run states these; the modules have what the code does.

- `phone.py:107` writes `or -1`, so that the documented 0 (always, `uam.html:266`)
  means the timeout of the re-registration, and the documented -2 (never) becomes
  `False`, which line 179 takes as no timeout.
- `protocol.py:170` computes `gigawords or (0 << 32 | octets)`: a session of more
  than 4 GB is recorded by its gigawords alone, whereas `limit.html:36` lets a
  MikroTik have limits beyond 4 GB. `Counted` is that expression.
- `protocol.py:255` reads one invoice; once that is used up, a voucher redeemed in
  addition has no effect until the first one ends (`limits.html:56` says that it
  overrides the limits of the portal).
- A vendor's value is cut into pieces of 249 octets, which with the 8 octets of
  header do not fit the length octet (`packet.py:131`); `RepliesUnderstood` is
  for values of up to 247.
- In set_limits `nas | typeofNAS.mikrotik` (line 411) is true whatever `nas` is,
  so that a limit of bytes goes to the attributes of a MikroTik for every router,
  and those of line 417 are never set. `Written` does the same.
- A CHAP request without a challenge attribute, which RFC 2865 allows, raises in
  `check_password`; the requests of the properties carry one.
- deleteStoredSms "Deletes the SMS message stored at the specified index"
  (`modem.py:1094`), but line 1104 sends the place with `%x`, and the modem takes a
  decimal number: of a message at place 16 it clears place 10. Reading does the same
  (line 1054). `Understood` is that conversion.
- In the modem library an announcement that comes within an answer or shares a
  notification with another is not handled, and the message stays in the modem
  until somebody asks for what is stored; the writing branch of `_setSmsMemory`
  calls `self.write()` without a command and would raise.
- Texts of a month are counted before the device is read and inserted later
  (`phone.py:64`), so that overlapping requests exceed the limit by one each; and
  `devmax` counts the unchecked devices of the mac and not of the phone
  (`phone.py:94`, `uam.html:305-309`). Both are modelled, neither is a property.

### Bounds

The interesting cases need two actors on one document: two requests or a request and a
poll, two writes, two calls. More actors repeat the same pairs. Times need only tell
before from after a timeout, so one to four ticks are enough; the tariffs of `MCAccess`
are chosen so that one ends by its time and the other by its use. The sender needs a
capacity smaller than the number of texts, for the cursor to die, a gate that takes some
texts only, and a gate of a callee, which is in no other round robin (`zte.py:133-138`).
In `access` the invoices are there from the start (`PaidSpec`: those that Billing may
write), since `billing` has checked how they come to be. An octet of its integers has 4
values and a megabyte 16, so that limits beyond one word, which the gigaword attributes
carry, are within reach; the functions of packets are evaluated in its first states. The
receiver needs a modem that its texts and a reply overfill, a clean in more than one
call (`Chunk`), a refusal and, for the words of one file to be taken for another's, a
file before the garbled one. Of places 10 and 16, the smallest that `%x` confuses, one
is taken for the other and one for none, and 3 and 16 let a message be deleted by the
index of one that could not be decoded. A second document of a session needs two writes
under way at once, which `MaxLoad` allows; a second account of a phone needs two
requests that overlap, and a device left without one keeps another phone out. The
supervisor needs two restarts and a midnight for handlers inside handlers, one of them
during a restart. The modem library needs a fault, for an answer that comes late; with
two faults and two calls a thread can get its own stale answer, which therefore counts
as mixed. `registration_sms` needs a tick, for a slow request to put an old time back,
and one code is enough there: `CodeWasTexted` is proved for any number of them. Deadlock
is checked for the collector; elsewhere a run may stop at its bounds (last tick, last
text, last document).

### Fairness

- `Registration`: weak fairness of each handler's step (an asyncio loop runs what
  is ready, and the database answers) and of the insert of a text; strong
  fairness of the visitor who types a code received, as the poll slot may be
  taken in between. Nothing is assumed of the clock, of requests or of kills.
  `registration_accounts` has a fairness of its own (`RetrySpec`): each handler goes on,
  and the visitor of a device that was left without an account tries again (strong, as
  the slots of requests may be taken in between). A visitor who gives up leaves the
  hardware address taken. Nothing else of the visitors is fair.
- `SmsSender`: weak fairness of the loop and of inserts. Failures and restarts
  are not fair; `SentInTheEnd` is about a loop that is running.
- `SmsReceiver`: weak fairness of the loop and of each task, which either goes on
  or fails (drivers have timeouts); strong fairness of the network, which tries a
  full modem again. Faults and kills are not fair.
- `Supervisor`: weak fairness of the main thread, of a handler that is due, and of
  the death of a process that was told to terminate; a slow one need not die
  before the end of the program.
- `Modem`: weak fairness of the threads, of the reading thread as long as it lives and of
  the modem, which may nevertheless keep silent; a wait whose answer cannot come any
  more times out (part of the step of its thread).
- `Netflow`: weak fairness of the timeout, of inserts that end one way or the
  other, and of start and exit. The wake-up by the event is not fair, which is
  why `Settled` shows that the timeout makes up for the one that is lost.
- `Accounting`: the router reports a session again and again and some report
  gets through (strong fairness, as packets may be lost infinitely often), lookups
  and writes are done (strong, since one may be cancelled), and processes that
  were stopped start (weak).

## 4. Theorems

For every value of the constants that their assumptions allow. Most of these are
types. The others: a round robin has a gate once at most (`CyclesAssumption`: it is
made from the clients of one callee, and get_gate makes one try more than there are
clients, `zte.py:131-139`; a longer one could pass over its only fitting gate);
limits are integers (`LimitAssumption`, as `protocol.py:327-335` subtracts and
compares them); the names of threads, messages and `None` differ
(`ThreadsAssumption`); the services in the order of the start are distinct
(`KindsAssumption`); a password has no zeros and is of octets, as it is text
(`CleartextAssumption`), and a router hides it as RFC 2865 says (`HiddenAssumption`).

`Registration_proofs`. `Typed` strengthens the type invariant by what a handler's locals
hold at each of its steps; it is inductive (`TypeCorrect`). `Accounts` says that no
account has a number above the counter, that a number drawn and not yet used is that of
no account and of no other handler, and that the account a handler is about to give is
of its own phone; it gives `AccountsSafe`, that is `NeverDuplicate`, and `AccountsOwn`,
that is `AccountOfPhone`: an account on the same mac is of the same phone, and so on the
same device. `AccountsFew` says that the accounts of a phone and the handlers about to
open one (`Opening`) are together no more than handlers: one starts to open an account
only when it finds none, when all the others may be opening one. It gives
`AccountsNotMany`, that is `AccountsBounded`. `Vouched` says that every document and
every copy of one in a handler that is checked is justified, and that every code in a
document or in an update was texted; it is needed because handlers trust what they read
long before, so that the property must hold of their copies too. It gives
`ProofBeforePassword` and `CodeWasTexted`. `CheckedForGood` is the action property
`StaysChecked`: the update of a registration sets `checked` or leaves it out, and never
writes what was read. `AdmissionRefined` is `AdmissionSpec`: every step of a handler is
a step of `Admission` or stutters. It needs `Current`, that a copy in a handler, however
old, has no mark that the collection lacks, and that a registration writes the mark only
where no proof is asked for: so the page that is answered from an old copy is one of a
device that is in (`Grant`), and with `Vouched` the code that comes back was texted
(`Return`). All of these hold wherever handlers fail. `FewResends` is `ResendsBounded`,
which supposes that none has. For a time s and a device let c be the texts sent within
the timeout from s on, a the handlers that may still text (`Texters`) and k those that
began before s and may still write an older time back (`Elder`). `RoomLeft` says 2c + 2a
+ k(2n - k + 1) <= n(n + 1) for n handlers: a text moves one from a to c, and when an
elder ends, the n - k handlers that are free and itself may text again, which is what k
gives up. `Timed` is needed for an elder to be one: a handler writes the time it began
with, and only after it has texted.

`Records_proofs`, on Netflow. `IInv` adds to `OnePlace`, `Conserved` and `OldestFirst`
that no list is overwritten while it holds flows (`NoOverwrite`) and that the batch
under way is older than the list being filled (`BatchFirst`): without the first a
swap could lose a batch, without the second an insert could store out of order.
`Refinement` shows that every step is a step of `Intake` or stutters, with `held`
mapped to the three lists; `NoFlowLost` that nothing is lost without faults. On
Exporter: `OwedIsRead` says that what is owed is in the window that is being written or
in the next one, for any date in the database; it needs that what has never landed is
not owed (`OwedLanded`) and the order of the times of a record with the update under
way (`Ordered`). When no window is being written it is `NoneMissed`.

`Accounting_proofs`. `IInv` says of every packet, on the wire, in a lookup or in a
write, that it reports no more than its session has counted (`Honest`), without which a
late write could charge too much; `OnInserts` says that an Accounting-On never inserts a
document. They give `NeverOvercharged` and, with the step lemmas behind
`OpenedByUpdates`, that only the write of an interim update opens a closed document, and
that a finished session is shown as online again by one or by a Start that had missed
the document of another write. `CountedBound` shows that the precedence of line 170,
wrong as it is, never charges more.

`Access_proofs`, on Billing. `SpentInv` adds to `VoucherSpentOnce` that a handler past the
update that marks its code is the only one with it and that no invoice has it yet
(`Claimed`): without it two redemptions that overlap could both write. It gives
`SpentOnce`. `PaidIsInvoiced` is inductive with the types (`NoneForNothing`): a
claim makes its own excuse, and only the insert, a tariff that is gone or a kill
takes it away, each leaving another one. `Shared` says that a user's
invoices of the tariff and the calls that may write one are together no more than
there are slots: a call finds no invoice (`HasStarted` excludes one that begins later)
only when there is none, and it becomes the invoice that it writes. It gives
`OneTarifEach`, that is `TarifOnce`.

`Accounting_proofs` also counts documents. `Bounded` says that the documents of a session
and the writes that have missed them and are about to insert (`Inserting`) are together
no more than the most that were under way at once: a write misses only when there is no
document, and then all of the others may be inserting. It gives `DocumentsFew`
(`DocumentsBounded`). `FinalInv` adds that a Stop is the last packet of its session with
the final count (`LastPacket`), that a stopped session has ended (`Down`), and that a
document of it stays closed with that count (`Final`): only an Update changes it, and
after one the session is no longer stopped. With `Bounded` it gives `StopStays`
(`StopIsFinal`), through restarts of both processes and reboots of the router.

`Access_proofs`, on Access. `Inv` says of every handler past its checks that its device
is checked or about to be (`LetIn`), and of every handler from its check on where its
password comes from (`Sources`): it is fresh, or a session that lives began with
it. Handlers carry these facts over their awaits, while sessions are only added.
It gives `Backing` and `StaleOnly`.

The tariffs (`NeverOverUsed` for `QuotaKept`, `EndsOnTime` for `TariffEnds`) rest on
`AccessTyped`, which also has the limits as integers and a handler that is done
empty, on `Ordered` and on `Tariffs`. `Ordered` is the order that the router keeps:
it asks for a device without an open session only (`AskedOnce`), a session's time is
what passed since it began and at most its limit (`Counted`), a handler lasts a tick
(`Prompted`), and neither it nor a session of the database is younger than the session
of the router that came of it (`Early`). `Tariffs` follows the limit: `Bill` gives what
the invoice has left over the documents that began before the request (`Held`); as
long as the router asks, the device has no open session and the sum stays; a session
keeps that limit for a later login by mac (`Kept`), which is reduced by what was used
since; the router holds the session to it beside the other documents (`Charged`); so a
tick, which only the one open session uses, stays within the invoice (`Quota`). That a
tariff's end is kept needs only the first half of `Held`. The hypotheses, one device
for a user and no session limit, are those of the property. Sums are `SumFunctionOnSet`
of the library; its lemmas are proved from the least size of a set for which they
would fail, since an induction theorem would take an operator.

`Access_proofs`, on Logins. `LoginsRight` is `LoginsChecked`, for passwords of any length
and any number. PAP: what the router hides an octet by is what the portal takes for it
(`HiddenByBefore`), exclusive or twice gives the octet back (`XorTwice`), and what
`rstrip` takes off is the filling and no more (`StrippedPadded`), which is where a
password that ends in a zero would fail. CHAP and MS-CHAP: a digest has one input
(`NoCollision`), and joined sequences can be told apart when one of them is known
(`CancelLeft`, `CancelRight`), so that the first octet of the response gives the first
DES key (`ResponseOne`), that the first octet of the hash, and it the password
(`HashOne`); the portal finds the response at its place in the attribute (`Value`,
`Mschap2Is`). The answer to the router goes the same way through its four digests
(`SuccessRight`). `KeyKeepsBits` is about the arithmetic of `des.py` alone: an octet of a
key has the low bits of one octet and the high bits of the next (`Shifted`), so the eight
have every bit of any seven octets; the run looks at the 56 with one bit set.

`SmsReceiver_proofs`. `Stages` says what each step of a task has in hand, that it
has texts of its own gate only, and where the messages of a modem and of a spool
can lie; `Untaken` that a text that can still be listed, or is in hand, has been handled
as often as its modem refused to mark it, but for the time that is to come. Without it
marking a text twice could give it twice. They give `Once` and `Kept` (`NoneForgotten`).
`Words` says that the words a driver has for a file are those of a file of its spool,
its own unless it is garbled; it gives `Checked`. `Refinement` is `InboxSpec`: every step
is a step of `Intake` or stutters, a refusal one of `Keep`. It needs `LostIsGone` besides,
that what was lost is not unread nor in hand again, unless it was refused: a kill between
the mark and the handling would otherwise be a text that is lost and then done.

`SmsSender_proofs`. `Typed` has the types; `OldBehind` says that nothing from before
the start is ahead of the cursor, and gives `NothingOldIsSent` for any order of
inserts. When inserts are done in order (the property's own hypothesis) the log is in
order (`Increasing`), what lies before the cursor and has not rolled out is at most
`last` and what lies behind it is above (`Cursor`), and the copies out of each text are
none, all, or those of the loop's counter (`Counts`). `Cursor` is what a new cursor
after a dead one needs: the query starts at `last`, which must be neither below a text
that was sent nor above one that was not. They give `NeverSentTooOften` and
`NoneIsSkipped`.

`Supervisor_proofs`. `Frames` gives the shape of the stack, `Locked` that one restart
at most is past the lock, `Cleared` that a restart about to set up has joined the
old processes, `Fresh` that nobody can ask for a restart before the first set-up,
and `Present` that only processes of the present generation live, the slow ones
aside. The last gives `One`. `Budget` counts that every set-up but the first answers a
signal or a midnight, those that wait included, so that a generation exists for each
(`TypeCorrect`). `Started` says how much of the present generation runs (`Begun`,
`AllUp`) at each step of whichever frame is starting it: a restart may replace the
generation that main is in the middle of starting, and main then goes on over the old
one. With `Cleared` it gives `Serves`, that is `Serving`.

`Modem_proofs`. `Types` (`TypesHold`) says what a thread knows at each of its steps and
that a command names a place when it needs one. `NoMessageLost` is `NoneLost`, from
`Inv`: the types, and a named cause or `Core`, whose parts are

- `Waits`: one thread waits; commands and lines on the way are its own or nobody's, its
  command is the last and is gone when its answer is there, and one line ends that. The
  lock alone does not give this, as a timeout leaves lines behind.
- `Ended`: an answer that is complete and not mixed leaves nothing of it on the line.
- `Truthful`: what a line on the way says of a place or of the list of them is so until
  its thread has it, although the network stores and other commands delete meanwhile.
- `Untouched`: the places that a thread has still to delete hold what it read.
- `Orphans`: a deletion whose thread has raised is of a message on record as failed, and
  no two deletions are of one place.
- `Held`: a message that was read is in one hand, and `Kept` is `NoneLost` itself.

Without a misplaced index the places that listStoredSms deletes are those it has read,
as the modem understands them; `NothingMisplaced` is that this is so for places of one
digit and messages that can all be decoded.

A deletion frees a place safely only by `Untouched`, which needs `Truthful` for the
places that the thread was told, `Waits` for the deletion to be its own, and `Orphans`
when it is nobody's; a hand is emptied safely only by `Held`. `DeletesWhatWasRead`
states the parts themselves for a run without a named cause.

## 5. Only model-checked

- `RepliesUnderstood`: `RadiusPacket` reads a packet by recursion over its octets, and
  that what was written is read for every packet takes an induction over them.
- Liveness (`TextedGetsIn`, `SentInTheEnd`, `HandledInTheEnd`, `RoomInTheEnd`,
  `OnlineAgain`, `Settled`, `RestartEnds`, `StopsInTheEnd`, `CallsEnd`,
  `LeftIsRegistered`): the prover has no ENABLED and no fairness.

All the other properties of the runs are theorems. What a recursive definition computes
for every input is out of reach where it takes an induction over an operator, which the
provers do not have. So the modules with theorems declare no RECURSIVE operator: the
chain of a hidden password is a condition on its octets (`Hides`) and not a computation,
and for the sums of the tariffs a least counterexample stood in for the induction.

Only proved: the type invariants, `OnePlace` and `NoFlowLost` of Netflow,
`DeletesWhatWasRead` and `NothingMisplaced` of Modem, `NeverDuplicate`,
`AccountOfPhone`, `CodeWasTexted` and `StaysChecked` of Registration, `NoneForgotten` of
SmsReceiver and `KeyKeepsBits` of Logins. Most are conjuncts or consequences of
inductive invariants, or of the refinements, and the runs have the properties that rest
on them.

## 6. Plan

Built first: Registration with its proofs, as everything rests on who is let in;
Netflow with its abstract specification; Accounting; SmsSender; Billing and
Access. Then the receiver, the supervisor, the exporter, the packets and the modem
library, and the proofs: of every safety property that the provers can reach, to the
texts of Registration, the sender, the tariffs of Access, the restarts of the supervisor
and the modem library; last the abstract specifications that Registration and the
receiver implement, and the passwords of the packets. What is left:

1. Two devices of one account and two macs in `Access`, with the quota that
   overlapping sessions may exceed; Access together with the writes of Accounting,
   in place of documents that follow the NAS.
2. `SmsReceiver` and `SmsSender` composed on the memory of the modem: replies are
   messages of the receiver so far, sent at any time.
3. An abstract specification of a mailbox for `SmsSender`.
4. The order of states of the page (`uam.js`).

## 7. Not modelled

- Administration (`rest/admin.py`, `rest/views.py`, `admin/`): single queries and
  updates that set the constants of the models. The signal that admin.py sends is
  an action of `Supervisor`, and the page that saves the exporter's configuration with
  its date is one of `Exporter`.
- The redirector (`rest/redirector.py`): one handler and a mark for each address
  that chooses the wording of a page.
- `decoders.py`, the LM functions of `mschap.py` (no caller), `mschap/mppe.py`
  (imported by nobody) and `eap/` (its handler is inside a string literal and
  never runs).
- Of `gsmmodem/`: connect, voice calls and `pdu.py`, the encoding of messages. The
  library is kept in the repository and imported by no module of it; it is modelled
  for what it promises to whoever would. Of the decoder only EncodingError is told from
  success: another exception of it ends a call as an error of the modem does.
- The other drivers in `sms/` (`huawei.py` is built as `zte.py`, the rest send by
  one HTTP request, `at.py` is one string literal), `call/`, `caller.py` (commented
  out), `lightami/`: calls that succeed or fail.
- `generate` of `rest/billing.py` writes unused vouchers in one insert_many;
  `billing.close` is neither routed nor complete.
- `rest/recent.py` is not routed. `rest/vk.py` registers a device by an ident in place of
  a phone and sets `checked` by what the page sends; `rest/xbillorg.py` sets it for the
  device that a paid order names (line 21). Both take a service outside the server as
  the proof; devices with an ident are not those of `Registration`.
- IPFIX (`nf10`) is not started by `netflow.setup`.
- Of the exporter, the upload of the files by curl, whose end nobody looks at.
- Scripts for routers and hosts (`chilli/`, `mikrotik/`, `as-ip/`, `sign/`) and
  Windows services.
