# A TLA+ model of SwitchInfoNX

SwitchInfoNX is a homebrew application for the Nintendo Switch: a system-information
screen with an FTP server, an MTP responder, a game-save manager, a file browser, network
tests, fan control and a traffic overlay. This directory holds TLA+ modules for the parts
whose behaviour is hard to test, TLC configurations that check them on small instances, and
proofs of the safety properties for instances of any size.

Line numbers refer to `src/source/main.c` unless another file is named.

## 1. The system

The application is one process. Its UI thread runs an event and drawing loop (9484-11068)
and calls everything else; a few kinds of work run on threads of their own. There are no
unit tests in the repository; what the code promises is in `README.md` and in comments.

| Part | State | Operations | Talks to |
|---|---|---|---|
| FTP server (3577-4368) | `ftp_on`, four descriptor numbers, `ftp_thr`, session globals (`ftp_cwd`, `ftp_rest_offset`, `ftp_rnfr`, `ftp_expected_xfer_size`), transfer counters | `ftp_start`, `ftp_stop` (UI thread); `fserve`, `fcli` (server thread) | peers over TCP; the SD card; `add_alert`; the descriptor table shared with all threads |
| MTP worker (`source/mtp/mtp_wrapper.cpp`) | `g_thread`, `g_running`, `g_stop_requested`, `g_server`, the server's `mRunning` | `mtp_server_start`, `mtp_server_stop` (UI thread); `worker`, `MtpServer::run` | the USB device service |
| MTP responder (`source/mtp/MtpServer.cpp`, `include/mtp/SwitchMtpDatabase.h`) | the object database (handle to path, parent, size, scanned mark), the pending `SendObject` handle, the open edits | one handler per MTP operation | host over USB; the SD card |
| MTP packets (`source/mtp/Mtp*Packet.cpp`, `MtpStringBuffer.cpp`, `MtpProperty.cpp`, `Mtp*Info.cpp`) | the request, data and response packets | put and get of numbers, texts, lists, dates and descriptions | the responder's handlers; `usb.c` |
| Save manager (`source/save_manager.cpp`) | the list of saves, the list of snapshots of one save, snapshot directories and markers on the card | refresh, list, back up, restore | the journaled save file system; the SD card |
| Network test (4683-4957), telemetry check (4960-5085), SD scan (6137-6429) | one `Thread`, one "started" and one "running" variable each, and their results | start, cancel at exit; the thread function | the UI thread through flags or a mutex |
| Notifications (221-225, 3651-3667, 10919-10958) | `notif_msgs`, `notif_ticks`, `notif_count` | `add_alert`, drawing | every thread |
| Traffic (`source/network_counters.c`, 6851-6916, `overlay/`, `network_sysmodule/`) | last counters, baseline, rate history, session totals | sample once a second; answer one UDP request | the OS's interface counters; overlay and system module over UDP |
| File browser (5928-6015, 9068-9357) | list of the directory shown, clipboard, the question on the screen | open, sort, copy, cut, paste, delete, rename | the SD card |
| Settings and tutorial (2589-2800, 10242-10376, 10475-10557) | the settings, the colour editor, `config.txt`, `tutorial.json` | change by key or touch, edit, save, load | the SD card |
| Controller and tools pages (89-190, 2939-3144, 5170-5183) | motors on and to be stopped, clock targets, brightness | hold, rumble, set, reset, apply | HID, clock and backlight services |
| Pages (9472-9555, 10176-10240, 10736-10837) | the page, nine scrolls, a drag, the guide, the screen test | keys, stick, finger | every page |
| Fan control (6026-6126) | manual flag, requested level | start, apply, 2 s safety update, restore at exit | the fan and temperature services |
| The rest: battery, cleaner, exports, speed tests, game list, drawing, translations | | | system services |

What is hard here:

* **Two threads and four numbers.** The FTP server has no lock. `ftp_stop` wakes the
  server thread by shutting down and closing whatever descriptors it finds in `ftp_srv`,
  `ftp_cli_fd`, `ftp_data` and `ftp_xfer_fd`; the thread closes the same numbers again. The
  numbers are reused at once by any thread that opens a socket or a file.
* **A blocking stop.** `ftp_stop`, the worker starts and the exit sequence join threads from
  the UI thread. A thread that is asleep on something nobody will touch freezes the screen.
* **Sessions that leave something behind.** `REST`, `ALLO` and `RNFR` are globals; some are
  reset for a new client, some by a new start, some by their use.
* **Power off.** The save manager clears a live save and copies a snapshot into it; it is
  killed, fails, or finds that somebody deleted the snapshot over FTP in the meantime.
* **Two name spaces for one card.** The MTP database works a path out once and trusts it ever
  after, while renames, deletions and other users of the card move what is under it.
* **Counters that are read three ways.** The traffic totals are sums of differences of the
  kernel's counters, which come from a UDP answer that may be late, from a direct read that
  may be partial, or not at all.
* **One frame, many handlers.** A key or touch is looked at by every part of a long loop body:
  one that turns the page also acts on the page it arrives at, and one that opens a list may
  touch a row of it.
* **Answers that come late.** The responder's reads time out after a second; data it no longer
  waits for is read as the next request.
* **Thread handles.** Three copies of the same start-and-reap code, each with a different
  error path.

## 2. The modules

| Module | Models | Checked by |
|---|---|---|
| `Service` | what a service with a worker thread promises the UI thread (abstract) | implemented by `FtpServer` and `MtpWrapper` |
| `FtpServer` | the two threads of the FTP server and the descriptor table | `MCFtpServer`, `MCFtpServerLive.cfg`; `FtpServer_proof` |
| `FtpSession` | what the FTP commands do to the files on the card | `FtpSession.cfg`; `FtpSession_proof` |
| `SaveManager` | backup and restore of one save | `MCSaveManager`; `SaveManager_proof` |
| `Workers` | the three background threads and the exit | `Workers.cfg`; `Background_proof` |
| `Alerts` | `add_alert` called by several threads | `Alerts.cfg` |
| `MtpWrapper` | the MTP worker thread, its start and its stop | `App.cfg`, `MtpTransfer.cfg`; `MtpWorker_proof` |
| `MtpTransfer` | the same with the data phases of one file | `MtpTransfer.cfg`; `MtpWorker_proof` |
| `MtpServer` | the handles of the MTP database against the card | `MCMtpServer`; `MtpServer_proof` |
| `MtpData` | what is written into a data packet and read out of it | `MCMtpPackets`; `MtpPackets_proof` |
| `MtpPackets` | the request loop, and the requests that describe device, storage and objects | `MCMtpPackets`; `MtpPackets_proof` |
| `Fan` | manual fan control | `App.cfg`; `MtpWorker_proof` |
| `App` | the MTP worker and the fan around the one UI thread | `App.cfg`; `MtpWorker_proof` |
| `Traffic` | the byte counters and their three readers | `Traffic.cfg`; `Background_proof` |
| `Frame` | the page that shows, which all parts of the user interface share | `MCUi`; `Ui_proof` |
| `FileBrowser` | the browser of the SD card | `MCUi`; `Ui_proof` |
| `Settings` | settings, colour editor, `config.txt`, tutorial | `MCUi`; `Ui_proof` |
| `Controls` | motors, clock targets, brightness | `MCUi`; `Ui_proof` |
| `Pages` | scrolling, the guide, the screen test | `MCUi`; `Ui_proof` |
| `Ui` | which keys and touches reach which of them | `MCUi`; `Ui_proof` |

Components that interact are composed where the interaction matters: `App` joins `MtpWrapper`
and `Fan` through the UI thread, which updates no fan while it waits in
`mtp_server_stop`; `MtpTransfer` runs data phases inside the worker of `MtpWrapper`;
`Traffic` has the kernel, the overlay, the system module and the application in one module,
since they only talk to one another; `Ui` joins the parts of the user interface through the
page. The FTP server meets the rest of the program in the
descriptor table, where other threads are the `foreign` entries.

### FtpServer

A step is one access to shared state with the system call it feeds: `StopRead`, `StopClose`
and `StopClear` are the read of a number, the `shutdown`/`close` and the store of -1 in
`ftp_stop`; `DataAccept`, `DataClose`, `DataClear` and `PublishXfer` are the four steps of
`fcli` around `accept(ftp_data)`. A test of `ftp_on` and the blocking call after it are one
step; the gap between them is covered, because a call that began before the stop is what
the properties are about.

* `on`, `pub` are `ftp_on` and the four numbers; `cfd`, `dfd` are `fcli`'s locals `fd` and `df`.
* `tab` is the process's descriptor table: for every number, whether it is free, one of the
  FTP server's sockets, or another thread's (`foreign`). Allocation takes any free number,
  so a number is reused in every possible way. `held` is what other threads think they own.
* `pc` is where the server thread is, `ui`, `slot`, `snap` where the UI thread is.
* History: `stray` records that FTP code has closed a descriptor of another thread.

Every failure of `socket`, `bind`, `listen`, `accept`, `send`, `recv`, `threadCreate` and
`threadStart` is an action. `LIST`, `NLST` and `MLSD` are one operation ("LIST"), as are
`STOR` and `APPE`: only `LIST` differs in control, since its loops do not test `ftp_on`.
A session has as many commands as its client likes. `Command` is one line of them, or an empty
one, or a byte of a line, each of which gives the client another 4 s; `Reply` is the answer, a
`send` without a timeout that waits for a client that does not read, and `ReplyFails` the same on
a descriptor `ftp_stop` has closed. `Off` is the thread's last store together with its exit: on
its way from the one to the other it touches nothing of the server's.

### FtpSession

Paths are names as `fclean` returns them; a file is a sequence of blocks; a block was on the card
before, was sent by the client, or is the zeros that fill a hole. One action per command that
changes something; a transfer is `Retr` or `Stor`, `DataAccept`, blocks and an end. `Stor` is the
`fopen` and the consumption of the `ALLO` size, whether or not a data connection follows
(4124-4128). History in `x`: the old content and whether the stream was seen to its end.

### SaveManager

`live` is the save as the game finds it, `work` the mounted view that only
`fsdevCommitDevice` makes durable, `snaps` the directories on the card keyed by second and
suffix as `parse_backup_name` orders them. `Copy` writes one file of a snapshot; the order
is any, as `readdir`'s is. `list` and `seen` are `g_backups` and the UI's
`save_backup_list_save`; the directory is read one entry a step (`RefreshEntry`), so that
snapshots are deleted meanwhile. Outside the program: the game is played, the clock is set,
snapshots are deleted, the process is killed. Writing the target into the mount is one step
since nothing of it is durable before the commit; its failure leaves any mixture behind.

### Workers

`flag` is `net_test_running`, `antiban_running` and `storage_scan_state = RUNNING`;
`started` and `handle` are the `*_started` variables and the `Thread` structures. `Begin`,
`Reap`, `Create`/`CreateFails` and `Launch`/`LaunchFails` are the start functions, with the
differences between the three spelled out where they differ: `net_test_started` is not
cleared by a reap (4946-4949), the telemetry check ignores the result of `threadStart`
(5069). `Exit`, `TestFlag`, `Wait` and `CloseAtExit` are the cleanup functions in the order
of 11082-11084; two of them may close the handle of a thread that is still ending, which then
ends without it. `host`, `overall` and `scan` are the results the UI shows.

### Alerts

`count` is `notif_count`; a step is one access to it.

### Service

Four booleans: the switch the user sees, the UI thread stopping, a worker, and what the
worker holds. `Begin` may not find a worker, `EndStop` may not leave one, and a worker that
ends holds nothing. `FtpServer` maps `asked` to `ftp_on`, `worker` to the thread and `holds`
to its sockets (data listeners aside); `MtpWrapper` maps `asked` to `mtp_on` and `holds` to
the USB session and the server object. The mappings are at the end of each module.

### MtpWrapper

A step is one access to `g_running`, `g_stop_requested`, `g_server` or `mRunning`; what is done
under `g_server_mutex` is one step. `Publish`, `Flag`, `Check` are the worker's three steps
between creating the server and running it, `MtpStop`, `StopClear`, `StopTell`, `StopJoin` those
of `mtp_server_stop`; a stop that finds no server yet must be seen by `Check`. `ReadNothing` is the
read that times out after a second; `Serve` is a request carried out without the host,
`BeginTransfer` and `EndTransfer` bound a data phase, and `Answer` is the data container and the
response that follow, which are written without a timeout (`USBMtpInterface.cpp:42`). `OpenUsbFails` and `BuildFails` are the two ways in which the
set-up gives up; both leave `mtp_on` set until the user switches it off.

### MtpTransfer

One file, its size in the database, one open edit, and `rx`, the data phase under way. What
`receive_file` does is there block by block: a read that times out is counted as -1, so after
a pause the count is one short and the next request is taken for data; `write` is not looked
at, except for the data that came with the header. `known` is the history variable: what a
host that was answered OK believes to be on the card, or `None` once something happened that
the code answers OK although it lost data. `goal` is what `known` becomes.

### MtpServer

`card` maps paths to files and directories, `db` handles to entries with the path, the size and
the storage id as the code stores them; `edits` are the files kept open by `BeginEditObject`. One
action per request that changes something; a request whose handler only reads matters where it
reads a directory into the database (`List`), forgets an announced upload (`Answers`, which all
but those of an upload do) or throws (`ListThrows`: `std::map::at` in `getObjectList`, or the
iterator of a directory that cannot be opened, which nobody catches, so that the program ends).
`Restart` is a stop and a start, which read the card afresh. Between two requests `OutsideRemove`, `OutsideCreate` and
`OutsideWrite` are the FTP server and the file browser. What hides an object from the host, or
makes a size go stale, is modelled as the code does it:

* `AddEntries` gives every entry of a directory a handle and leaves out those whose properties
  could not be read (`skipped`), while the directory counts as read all the same.
* Listings and announcements come with a storage id, which `hasStorage` accepts if it is the card's,
  0 or 0xFFFFFFFF; entries get the id of the request that made them, and `getObjectList` compares
  it (`Ids`; one other id stands for both). `hidden` names what is then not shown.
* Edits: `SendPartial` and `Truncate` change a file behind every entry of it (`Overwrite`), its own
  included, until `EndEdit` takes the size over, which may fail since the file is still open. The
  file system, which is external, does not open, remove or rename a file that is open.
* `SendObject` may end with a size that `endSendObject` could not find out (`known`).
* `Delete` leaves any part of a tree behind that is closed upwards (`Remains`).

History: `truth` is where the object a handle was given for really is, `why` what happened behind
the handle's back, `hidden` which listings the host has that miss an object.
`RenameOnCard` is the rename with what it does to these; `Misnamed` is the case that its handle
stands for an object somewhere else, whose listed name the rename makes wrong.

### MtpData and MtpPackets

A packet's payload is the sequence of its fields, `<<width, value>>`, since the code puts and
gets numbers of one, two and four bytes; a reader that asks for another width than was written
takes the bytes apart (`Field`). Texts are sequences of code points on our side and of UTF-16
units on the host's; `BufferOf` counts characters as `MtpStringBuffer::set` does, in one byte
(`Byte` stands for 256). `Read` is a reader: it takes a layout, one type after the other, and
gives values, or tells that they do not fit. Walks over a payload are recursive functions on
places in it: where the pointer of `writeToPacket` is for each unit (`PutText`), what a reader has
after each item (`Read`) and after each element of a list (`ListTellsTruth`).

`pc` is where `run()` is in its loop, `wire` what the host has sent and the responder has not
read, `data` the fields of `mData`. `DataLate` is the read that times out: `run()` goes back to
the request (189-192), and the data container, when it comes, is read as one. `Handler` is the
whole of `handleRequest`. `SendData`, `Respond` and `WriteFails` are the two writes.
`resp.of` is history: the request a response was made for. `card` is what the objects really
are, against which the answers are read.

### Fan

`level` is the last value given to the fan service, 0 when the system controls it; `heat`
counts the seconds since the temperature band changed. `Second` may not pass a due
`fan_safety_update` unless the UI thread is held up, since the loop runs every 16 ms.

### Traffic

The kernel counts (`Count`) and is disturbed (`Disturb`: an interface goes up or down, or its
counter begins again). A read gives the routing-table sum of the interfaces that are up, or
any partial sum of the `ioctl` path, or fails. `ask`, `sock`, `inbox`, `mod` and `queue` are
the UDP request and answer; a socket that was given up takes its late answer with it. `s` is
the sampler's state with its ring, `h` history: whether everything was read, where it began,
what was missed, all differences in order.

### The user interface: Frame, FileBrowser, Settings, Controls, Pages, Ui

A step is one pass of the main loop with at most one key or touch; only a paste has steps
of its own, because it can fail at each. `acts` bounds the keys and touches, `rare` what goes
wrong. The parts share the page (`cur`) and nothing else, so a behaviour uses one part
(`used`) and reaches it through the pages.

* `FileBrowser`: `tree` is the card, a function of paths (sequences of names; a name is a base
  and the number of its `_copy`s). `fb.rows` keeps what earlier lists left behind
  `fb_count`, as `fb_entries` does. `job` is the recursion of `fb_copy_recursive` as a
  stack of calls. History: `paste` has the card before the paste and whether the card failed
  without a word (`readdir`, `fread` and `fclose` errors, which the code does not look at);
  `asked` is the row the question on the screen was asked about.
* `Settings`: `file` is `config.txt` as lines; a failed write leaves its first lines with a
  number cut short in the last one. `want` is what the user has set, `beneath` what was done
  to the controls under the open editor.
* `Controls`: `turning` is what the motors do, `vibe` what the program believes. A frame is
  one operation, `MotorFrame`, in the order of the loop. `hw` are the clocks.
* `Pages`: `scroll` and `limit` per page; `over` is the height its content has when it is
  drawn next. The end of each frame (`FrameEnds`) is part of every action.

## 3. The checks

| Run | Question | States |
|---|---|---|
| `ftp_server` | can starting, serving and stopping in any order lose, leak or confuse a descriptor, a handle or a thread? | 0.20 M |
| `ftp_server_live` | does `ftp_stop` return, and does a queued client get its turn? | 0.17 M |
| `ftp_session` | is what is answered what has happened to the files? | 0.91 M |
| `save_manager` | can a backup or restore lose a save, or take a broken snapshot for a whole one? | 5.5 M |
| `workers` | are threads reaped exactly once, results not mixed between runs, and does everything end? | 0.11 M |
| `alerts` | does every message get a slot? (violated) | |
| `mtp_server` | does a handle stand for the object it was given out for, and is every object listed, and as long as it says? | 1.0 M |
| `mtp_transfer` | is what was answered OK on the card, and does a stop return whatever the host does? | 0.15 M |
| `app` | is a stop of the MTP worker ever lost, and who looks after the fan meanwhile? | 0.13 M |
| `traffic` | do totals and history lose or repeat bytes when their source changes? | 0.53 M |
| `mtp_packets` | is an answer that of its request, and do the descriptions say what is so? | 1.3 M |
| `ui` | is done what was asked, kept what was set, and stopped what was started? | 0.45 M |

Properties, by what they are about:

* `IsService` (`ftp_server`, `app`): both services keep the promise of `Service`.
* `StopReturns` (`ftp_server_live`): a stop finds and wakes the thread wherever it is asleep,
  in an ordinary listing as well. The one exception the code has is in the statement
  (`MissedListing`): `ftp_stop` is at its join, it found `ftp_xfer_fd` at -1, and the thread has
  since begun to send a listing, whose loops do not test `ftp_on` (4013).
* `QueuedGreetedIfClientsYield` (`ftp_server_live`): who waits is greeted, if no client before has
  the thread wait for it for ever (`ThreadHeld`) or talks for ever (`TalksForever`). Silence is
  enough, since the control connection has a timeout; nobody has to send `QUIT`.
* `ForgottenOnlyInStop`: the only open socket whose number is lost is a passive listener made
  while `ftp_stop` is clearing the one before.
* `StrayOnlyInStop`: the double closes hit another thread's descriptor only in a stop.
* `UploadStored`, `DownloadExact`: 226 means what it says, except for a transfer cut by a
  stop, which the statements name.
* `CompleteIsWhole`, `LiveNeverLost`, `RestoredIsTarget`, `FailedRestoreUndone`,
  `ReadsNewest`: a marked snapshot is whole; at every step of a restore the old save exists
  somewhere; success and failure mean what they say. `FailedRestoreUndone` names the cases
  in which the rollback takes another snapshot than the fresh copy.
* `NoLostThread`, `EverythingEnds`: thread handles, with the network test's stale handle, the
  cleanup that closes without waiting and the telemetry check that never starts named as what
  they are; a test and the exit come to an end.
* `ShieldMeansBlocked`, `ScanResult`, `DetailIsSorted`: what the user is shown belongs to
  the run it is shown for.
* `HandleNamesItsObject`, `ListingComplete`, `PromiseKept`: a handle names its object wherever
  renames carried it, a listing asked with the card's storage id shows every object, and a
  download sends as many bytes as it announces. Each names what the code does not keep track of:
  directories renamed above an object, second handles for one object, other users of the card;
  for a listing also entries that could not be read and those of another storage id; for a size
  also edits that have not ended with the size taken over, uploads whose size was not found out,
  and files of 2 GiB and more, whose bytes `send_file` counts in an `int` (749).
* `HostIsRight`, `StopReturns` (`mtp_transfer`): what was answered OK is on the card, with
  four exceptions that are in the comment at the property; `mtp_server_stop` returns unless
  the worker is with the host for ever, in a data phase or writing an answer that is not read.
* `NoLostStop`: a stop that comes at any point of the worker's set-up is seen.
* `FanFollowsHeat`: a manual level follows a temperature that lasts while the UI thread is
  not held up.
* `TotalsAccount`, `HistoryIsLatest`: the session total is what the counters went up by, less
  what passed unread, whichever source answered; the history is the latest samples in order.
* `AnswersItsRequest`, `NoneUnanswered`: what the host takes for the answer to its request was
  made for it, whatever came late or failed before; and it only waits in vain if
  something did.
* `DescriptionsReadBack`, `ListTellsTruth`: the device, the storage, an object, a property, a
  directory and a list of properties, read back by type, are what the card and the tables
  have. What the codec does not carry is named: characters of four bytes, texts of 255
  and more, sizes of 4 GiB, and three cases of the property list.
* `PasteIsWhole`, `AskedIsDone`: a paste that reports success is whole, and nothing else on
  the card changes; what a question asks about is what its answer does.
* `EditorUndone`, `RestartKeeps`: Cancel goes back to the colours that were saved, and the next
  start has every setting as it was left; a failed write, and touches beneath the
  open editor, are excepted.
* `MotorStops`, `ControlsTrue`: a motor that nobody holds stops or is being told to; a target
  that shows is what the clock has.

### What the violated run shows

* `alerts`: two threads pass the check of `notif_count` together and the later one writes at
  index `NOTIF_MAX`.

### What the passing runs name as exceptions

Behaviour a reader of the code may want to know of; each is an exception in a property or a
step of a model, so the properties hold with it.

* A client that sends `PASV` and `LIST` and makes no data connection holds the only server
  thread in `accept()` (4002) for ever, although the 4 s timeout of the control socket was
  introduced so that a queued client is greeted soon (3787-3791). So does one that does not read
  its answers (3674), one whose transfer never ends, and one that sends a byte every 4 s: the
  timeout is of each `recv`, not of the session (3738-3747, 3793, 3822).
  `QueuedGreetedIfClientsYield` shows that these are the only ways.
* `REST` and `STOR` are announced as resumable (3876, 4135), but `STOR` opens the file with
  `"wb"` (4123): what was uploaded before the offset is gone. `UploadStored` speaks of uploads
  without `REST`.
* `ftp_rnfr` outlives its session: `RNTO` of the next client renames what the last one named.
* Creating a folder or uploading adds a handle; if the parent had not been read yet, reading
  it gives the same file a second handle. What is done through one is not told to the other.
* After a directory is renamed, handles below it keep their old paths; `DeleteObject` through
  such a handle answers OK. Deleting a directory forgets the handles right below it, deeper
  ones stay, although `include/mtp/SwitchMtpDatabase.h:905` says "Recursively remove children".
* `MoveObject` gives the entry a new parent and leaves the file where it is. `GetPartialObject`
  beyond the end wraps its length round; `PromiseKept` speaks of offsets within the file, and of
  files below 2 GiB.
* An entry whose properties cannot be read is left out, and its directory counts as read (133-139,
  165 in `include/mtp/SwitchMtpDatabase.h`): it is not shown until the next start. A host that
  lists or sends with storage id 0 makes entries that a listing with the card's id does not show.
* From `BeginEditObject` to `EndEditObject` the database has the size from before the edit.
* A pause of a second in an upload makes `receive_file` count -1: it takes the first byte of
  the next request for data, or waits for one that does not come. Neither it nor `send_file`
  looks at `mRunning`, and answers are written without a timeout, so with a host that neither
  sends nor reads `mtp_server_stop` waits for ever.
* Data that come with the header of a partial write go where the descriptor is, not to the
  offset asked for. `commitEdit` may not learn the size, since the file is still open.
* If USB cannot be set up, `mtp_on` stays set with no worker until it is switched off.
* The fan service stays open, with the fan under the system's control, when its popup is
  replaced by another, until the exit closes it.
* When an interface goes down and up again, or only some interfaces can be read, the next
  difference repeats a whole counter: the totals are then not "totals since opening/reset"
  (`README.md:86`). `TotalsAccount` covers the sessions in which that did not happen. The
  exported "seconds_ago" counts samples, and a sample may take longer than a second.
* A host that gives up and asks again may find its late data taken for a request; the answer
  it gets then is for a transaction it no longer waits for. The list of all properties of
  three or more objects announces six elements for each and sends fewer.
* `fb_paste` appends `_copy` once: the third paste of a file overwrites the second one's
  `_copy`, and that of a directory fails. A copy of a directory into itself goes on until a path
  is too long. Errors of `readdir`, `fread` and `fclose` pass for the end.
* Arriving on the storage page with L, R, ZL or ZR while the browser is open also copies, cuts
  or pastes there. With an empty list, A opens the row an earlier list left.
* The controls beneath the open colour editor react: one that saves writes the colours
  being tried to `config.txt`, and the editor's own button makes them the backup.
* A number of `config.txt` that was cut short is taken as it stands; language, theme and interval
  are checked, thresholds and targets are not (2740-2758).
* If `tutorial.json` cannot be written, the tutorial cannot be finished or skipped, and it takes
  all input, so that only the system can end the program.
* A `hidSendVibrationValue` that fails while a motor turns clears `vibe_active`: the motor may
  turn on without the program knowing (`lost`). The exit sends each stop once and does not retry
  it.
* `scale_reset_all` that fails half way leaves the targets of clocks it has already reset. Targets
  loaded from `config.txt` are shown although nothing has set them.
* The comment at 10384 has the screen test cycle through 1 to `SCREEN_TEST_PHASES` - 1; the code
  goes from 4 back to 1.

### Bounds

* `FtpServer`: five descriptors are the listener, control, passive and transfer socket at
  once and one for another thread or a second passive listener, which is every role at the
  same time plus a reuse. One other descriptor (`MaxHeld`) suffices for a stray close. Commands in
  a session and sessions follow one another without limit. The backlog is one of `FTP_MAXCL`: the thread serves one
  client and another waits. The liveness runs use four descriptors and no other thread, no
  symmetry.
* `FtpSession`: two paths are needed by `RNTO`; two blocks tell a prefix from a rest.
  Any number of commands and sessions.
* `SaveManager`: two files tell part of a save from all of it; three snapshots are a target,
  a fresh copy and one that comes between them; two seconds and two suffixes give names
  before, between and after; a list of two drops one. Symmetry on files is sound: no
  property names one.
* `Workers`: two hosts tell one from all, two entries with room for one tell a truncated
  scan from a whole one. The three workers are the code's.
* `Alerts`: `NOTIF_MAX` is the code's.
* `MtpServer`: three objects on the card, at most three levels deep, are a directory, one in it
  and a file in that (what a deletion forgets), or a directory with two files (what a rename
  replaces). Three handles (2 to `MaxHandle`) are one for each, or two for one object. Files
  have up to one block (`MaxSize`). `MaxRare` is one change by another user of the card, one
  directory with entries that could not be read, one request with another storage id, one
  `MoveObject` or one edit, of any number of writes, as each only adds exceptions. `Width` stands
  for 2^32 and only has to be larger than any offset plus length within a file; that a count of
  `Width`/2 goes negative is then out of a file's reach, and the theorem, which has no bound on
  sizes, is what covers it. Names that may be first in a path are symmetric.
* `MtpTransfer`: two blocks tell what comes with the header from what follows, and a write
  behind the end from one at the end; one version suffices, since a block carries its place.
  Any number of transfers, edits, stops and starts.
* `App`: a pick below and one above the middle floor of the fan's levels. Time is told apart
  up to one second past the 2 s period (`MaxAge`).
* `Traffic`: two interfaces tell a part of the sum from all of it, a ring of two turns after
  the third sample (`MaxSamples`), three requests (`MaxAsks`) let an answer be late for two of
  them; an interface counts up to two bytes. Port numbers are not reused while an answer to
  the old port is under way.
* `MtpPackets`: names of one, two, three and four bytes a character; `Byte` is 4, so that three
  characters are one too many for the count. Handles 2 to 5 are a directory, a file of more than
  4 GiB, a file in the directory and one more from the host; one request that changes something
  (`MaxWrites`) and one thing that goes wrong (`MaxRare`), which is enough for a late container
  to meet a later request. `TroubleOps` are the operations it happens to: the two with data, and
  the one that ends the session. Transaction ids go round in `Tids` = 3, more than can be
  confused by one late container; `PacketsAssumption` says so in general (`MaxRare < Tids`), since
  an id of 32 bits does not come around while a container with it is under way. It also says that
  names are Unicode characters, and a host's UTF-16 units, without NUL, and that handles stay below
  0xFFFFFFFF (`Long` - 1), which is no handle.
* `Ui`: keys and touches (`MaxActs`), failures (`MaxRare`) and pages (`Visited`) are bounded for
  each part by itself: six in the browser are open, enter, copy, back, paste, paste; eight in
  the tutorial are its five steps, a failed end, another and a restart; seven frames let a stop
  be sent three times with two failures between. A directory with a file of two blocks and a
  file beside it are a copy that fails within, between and before files; a list of three
  (`MaxEntries`) truncates once something was pasted. Three languages, themes and two colours
  stand for the code's. Heights, places and games for `Pages` make a scroll end within, at and
  behind its limit. The direction keys on the settings page belong to `Settings`; `Pages` leaves
  them out there.

### Fairness

`FtpServer`: weak fairness of the server thread's own steps and of `ftp_stop`'s. These are
threads the kernel schedules. Included are calls that return by themselves: `recv` on the
control socket (`SO_RCVTIMEO`, 3793), a call on a closed descriptor, `accept` with a client
waiting, an answer that fails. Not included is anything a peer has to do: sending a command,
reading an answer, connecting to a passive port, taking or supplying a block, or falling silent.
`QueuedGreetedIfClientsYield` assumes of the peers what its name says, in `ClientsYield`, and that
the descriptor table is not full for ever.

`Workers`: weak fairness of each thread (its network calls have timeouts, 4710-4726, 5019)
and of what the UI thread has begun. Touching a button is not fair.

`MtpTransfer`: weak fairness of the UI thread's steps of a stop and of the worker's own steps;
reading a request times out after a second (`ReadNothing`). The host has to do nothing, neither
send nor read, so no step of a request is fair (`Serve`, `Answer` and the data phases): that is
why `StopReturns` excepts a worker that stays in a data phase or in an answer.

Deadlock is not checked in `workers`, `app` and `mtp_transfer`, where the program ends, and in
`traffic` and `ui`, where the counters reach their bounds.

## 4. The proofs

Eight modules hold theorems. Everything is proved for all values of the constants under the
`ASSUME`s of the modules: that bounds are natural numbers, that the values that stand for "nothing"
are not among the others, and what the code's types and tables give (below, and section 3 for
`PacketsAssumption`). The listed properties are seldom
inductive; each module states the invariant that is, proves that the initial states have it
and that every action keeps it (one lemma or one step per action), and reads the properties off.

**`FtpServer_proof`**: `TypeOK`, `QuiescentNumbers`, `BlockedIsPublished`, `JoinWakes`,
`StrayOnlyInStop`, `ForgottenOnlyInStop`, `IsService`, and that a start finds no thread, a join has a handle and no
socket outlives its server. That a stop wakes the thread depends on which numbers were
published before it began, and that on who may run, so the invariant is built in layers:

1. `Control`: while `ftp_on` is set there is a thread, an open handle and no stop; while it
   is clear and the UI thread is idle there is no thread.
2. `Numbers`: at each program point of the thread, which numbers are -1 and which equal its
   locals, unless `ftp_stop` has already passed them (`Passed`).
3. `Kept`: a socket of a kind is held by the variable of that kind and nowhere else.
4. `Woken`: once `ftp_stop` has handled a number (`Handled`), a thread blocked on it has had
   its socket closed; and between reading and closing it has read the right number.
5. `Owned`: until the first stray close, what is foreign in the table is what other threads
   hold, and while the server is on every number the FTP code holds is its own socket. This
   is what makes the first stray close impossible before a stop.
6. `Closed`: the thread has closed its listener when it resets `ftp_data`; the control or
   transfer socket `ftp_stop` is about to close is the only one of its kind, and none is left when it
   resets the number; for the listener this is so unless a PASV was under way. From it comes
   `ForgottenOnlyInStop`.

**`MtpWorker_proof`**, of the one worker thread of `MtpWrapper` in its two settings:

* `MtpWrapper`: `NoLostStop`, `NothingLeft`, `IsService`. `MtpInv` says which flags go with
  which points of the two threads: a stop that found no server has set `g_stop_requested` before
  the worker looks, one that found it has cleared `mRunning` after `start`.
* `MtpTransfer`: its worker is that of `MtpWrapper`, so the theorems above hold of it; `TypeOK`
  and `HostIsRight`. `CardInv` says of a data phase that may still end well that what is on the
  card, continued by the blocks to come, is what the host will believe.
* `App`: the worker again, with the UI thread busy elsewhere; `AppTypeOK`, `FanFollowsHeat`,
  `FanGivenBack`. The fan's invariant ties the level to the temperature at the last update, and
  the age of the update to what the UI thread is doing.

**`MtpPackets_proof`**: `TypeOK`, `AnswersItsRequest`, `NoneUnanswered`, `DescriptionsReadBack`,
`ListTellsTruth`. Three invariants, one on top of the other:

1. `PacketsInv` says where the containers of the host's transaction are (`Queued`, `Working`,
   `Lost`, `Heard`), and that whatever else the responder has read or will read is `Stale`: of a
   transaction the host gave up. It gives one up with something under way only when something
   goes wrong, so a stale id is at most `rare` ids behind, and differs from the one the host waits
   for. A data container that was taken for a request (`Mistaken`) has the right id, but waits for
   data of its own that cannot come before the host gives up. The argument is the same for every
   operation; what the handlers put into the packets does not enter it, only that each answers
   exactly once (`HandlerReplies`).
2. `Typed`: every payload, the host's and ours, is of fields that fit their width (`Fields`); the
   parameters are numbers of four bytes; entries of the database have names that are spelt in
   bytes without NUL (`Names`), numbers where numbers belong, and the objects on the card are in
   the database as they are. `TypeOK` follows, but is far from inductive: that a payload fits needs
   the types of all that handlers put into it, which are names a host sent in another payload.
   So the readers have a theorem of their own that asks nothing of the payload: what is got is
   of its type (`AnyGot`, `ReadGot`). One lemma per handler (`...Keeps`).
3. `Described`: what is in `mData` of an answer that is OK, is what the handler writes for the
   request that was read (`Describes`), and so is what the host has heard. It holds from
   the handler to the host's next request since nothing in between changes the database, a late
   data container being answered to nobody (`PacketsInv`).

The other half is the codec by itself. `ReadsAllBack`: a dataset of any number of items, written
one behind the other, is read back by the layout of its types, value by value, with nothing left.
It rests on one lemma per kind of item (`TakesNumber`, `TakesArray`, `TakesText`), each for any
payload that follows. The one for texts is the longest: a text of any characters of up to three
bytes has its characters where `writeToPacket`'s pointer arrives (`Spelt`, `UnitsAre`), and their
count is what `MtpStringBuffer::set` counts (`TextCount`). Then the datasets of the source are
shown to be of items that come back if the name and the size do (`DeviceItems`, `StorageItems`,
`InfoItemsAre`, `PropertyItemsSound`, `HandleList`, `QuadItems`), in the order of their readers'
layouts. A list of properties has no layout: its reader takes the type of each value from the
list. `ListReadsBack` says that a list of elements of four items is taken in whole, the first
`count` of them at least, and `QuadTells` that each element is true. What the prover cannot do by
induction over an operator is done here over sets and functions: `Least`, `Induct` and `Recursion`
say that a set of numbers has a least member, and that a recursive function whose steps stay in a
set exists and is what its definition says.

**`Background_proof`**, of what goes on beside the user:

* `Workers`: `TypeOK`, `NoLostThread`, `ShieldMeansBlocked`, `ScanResult`, `DetailIsSorted`.
  `WorkersInv` has four parts and the types: until the exit a thread exists exactly while its
  handle is open (`Threads`), what the check asked so far, what the scan counted so far, and what is listed of it.
* `Traffic`: `HistoryIsLatest`, `TotalsAccount`. `Ring`: k places before the next one is the k-th
  latest sample, whatever the size of the ring. `Accounts`: while nothing has disturbed the
  counters, the totals account for the last sample, which is not ahead of the counters; no answer
  under way is ahead of them either, and one that will still be read is not behind the last
  sample, since the number of its socket is that of the last request and requests are made after
  samples. That a sum of counters only grows is an induction over a finite set
  (`SumsExist`, `SumsGrow`), carried through a least counterexample.

**`SaveManager_proof`**: `TypeOK`, `CompleteIsWhole`, `LiveNeverLost`, `RestoredIsTarget`,
`FailedRestoreUndone`, `ReadsNewest`. `SaveInv`: what is copied plus what is still to copy makes up the live
save; from its completion to the commit the fresh copy equals it; a rollback that found the
fresh copy puts it back. `Listing`, for `ReadsNewest`: while the directory is read the list is in
order and holds nothing that is still to come, and each complete snapshot is still to come, in
the list, or older than all of a full one. One insertion keeps this (`InsertKeeps`), since the
number of later names in a list in order is the place of the new one (`Place`).

**`FtpSession_proof`**: `TypeOK`, `UploadStored`, `DownloadExact`. `SessionInv`: while a transfer runs,
what is at its path, or with the client, is what has been moved so far.

**`MtpServer_proof`**: `TypeOK`, `HandleNamesItsObject`, `ListingComplete`, `PromiseKept`.
`MtpServerInv` has seven parts:

1. `Tree`: what is above an object on the card is a directory. Deletions, renames of whole
   directories and uploads keep this; the lemmas on prefixes of paths (`PrefixOrder`,
   `CarriedBack`, `CarriedApart`) are what a rename needs.
2. `Typed`: the types of the rest, and that what the history variables name is on the card.
3. `Named`: `HandleNamesItsObject` in terms of the tree.
4. `Sized`: an entry nobody wrote behind has its file's size, which `PromiseKept` follows from:
   below half of `Width` the count that `send_file` keeps is the number itself (`IntHolds`).
5. `Pending`: an announced upload has no object and has not been listed, so that making its file
   hides it from nobody who should see it.
6. `Shown`: a directory that was read shows each of its objects by the handle that was given for
   that object. `ListingComplete` asks only for a handle with the object's name, which a rename of
   another handle could take away.
7. `Edited`: an open edit is of the path its handle still has, if it has one, since what is open is
   not renamed; so the size that `EndEdit` takes over is that of the handle's own file.

What a request does to the listings is in `Shown` only through `hidden`, so an entry that is left
out, or made under another storage id, must be put there by the action that does it.
That `ListingComplete` is not kept when a handle is renamed whose directory was renamed before
came out of this proof; `hidden` has that case (`Misnamed`).

**`Ui_proof`**: `TypeOK`, `AskedIsDone`, `PasteIsWhole`, `EditorUndone`, `RestartKeeps`, `MotorStops`,
`ControlsTrue`. A behaviour uses one part of the user interface, and the invariant `UiInv` is one
conjunct for each part and for what they share:

1. `Counted`: inputs and failures are counted down, from which `MotorStops` reads how often a
   stop may still fail.
2. `PagesAll`: the page is scrolled within its height, the others not at all.
3. `BrowserInv`: as many rows as `fb_count` says are there, the selection is one of them, and a
   question that shows was asked about the selected row; none shows while a paste runs.
4. `PasteInv`: what a paste has done so far. Its calls of `fb_copy_recursive` go down source and
   destination in step (`Shape`), and only what is below the destination has changed
   (`AgreeBut`). A call that waits has copied all it has seen but the entry its caller is at, and
   nothing else is in its copy (`ListSoFar`); a file's copy is a beginning of the file
   (`FileSoFar`). A directory that is copied into itself is the other case: the call whose source is
   above its destination must meet the copy that is being made, so it can never return
   (`IntoCall`). Nothing is said of what was copied once the card failed without a word.
5. `MotorsAll`: a motor that turns is one the program believes to turn, or one that a failed
   call has misled it about (`Known`); the rest is `MotorStops` itself.
6. `SettingsAll`: `config.txt`, if its last write succeeded, reads back as what the user has set,
   colours apart while something was done beneath the open editor; the editor's backup is what was
   set; the editor is open on its own page only.
7. `ClocksInv`: a target that shows is, in whole MHz, what its clock has.

`ConfigReadsBack` is the lemma `RestartKeeps` rests on: `load_config` of what `save_config`
wrote is the settings. Reading is a fold over the lines, and the proof goes by the first
line after which the settings read so far differ from those written. The same form of argument, the
least of a set of bad indices, stands for induction in the proofs about sorting (`Sorted` is a
permutation in the order of `Before`) and about lists of rows.

The constants of the user interface are assumed to be what the code's tables are: colours in the
range of a byte and at least one theme and language (`SettingsAssumption`), targets among the
rates (`ControlsAssumption`), cards that are finite and have each file in a directory
(`FileBrowserAssumption`, `PathsAssumption`) and sets of interfaces (`IfacesAssumption`), heights
and places that are natural numbers (`PagesAssumption`).

Only proved, and left out of the runs once TLC had agreed: the type invariants of
`FtpServer`, `FtpSession`, `SaveManager`, `Workers`, `MtpTransfer` and `App`, and
`QuiescentNumbers`, `BlockedIsPublished`, `JoinWakes`, `NothingLeft`, `FanGivenBack`.

Only model-checked: liveness (`StopReturns` of both servers, `QueuedGreetedIfClientsYield`,
`EverythingEnds`), which is beyond the prover. Every invariant and every action property that a
passing run checks is also a theorem.

## 5. What is not modelled

* Drawing, text tables and translations, about two thirds of `main.c`, have no state that
  outlives a frame. Battery, temperature and screen readings are drawn as they come; the
  cleaner, the exports and the card's speed test are loops of file calls on the UI thread
  that keep nothing; the game list queries system services, and only its length matters (`Pages`).
* In the user interface: two parts used in one behaviour, two inputs in one frame, what the file
  browser's new name may contain, the time a rumble lasts.
* `fclean` and `get_real_path`, `CWD`, `SIZE`, `MDTM`, `MLST`, `STAT` and what a listing
  contains: they change nothing but the current directory, and paths are names here. Two paths
  too long for the buffer are one path for the code (3724).
* A command line cut short by `ftp_stop` (3738-3749), the reply text, the activity log and
  the transfer counters beyond "counted as complete".
* In the copies of the save manager, an error of `readdir`, which the code cannot tell from the end of a
  directory (67, 98 in `save_manager.cpp`): a snapshot cut short by it is marked complete.
  `CompleteIsWhole` is about the errors that are reported.
* In MTP, USB descriptors and endpoint buffers, which are libnx's; events, references and device
  properties, which the code answers without state; 64-bit sizes; storages added or removed later;
  what `send_file` does with a negative count. `hidden` and `ListingComplete` are about listings of
  every format; one asked for a single format is in `MtpPackets`.
* Between two requests of MTP, and only while no paste of the file browser runs, other users change
  the card: a change by FTP between `stat` (9324) and the use of the path is outside `FileBrowser`.
* The time from the FTP thread's last store to its exit, and from a worker's close at the exit
  to the end of the process, in which nothing modelled is touched.
* In `Traffic`, the other direction, the rates and the time between samples; malformed
  requests, which the system module drops.
* Measurements of the network test.

## 6. Plan

Done: all modules of section 2, and proofs for the threads, the saves, FTP transfers, traffic,
the MTP database, its packets with their order and their contents, and the user interface with its
pastes. Left, in this order:

1. `FileBrowser` beside `MtpServer` on one card, in place of its two outside actions.
2. `fclean` and the display paths as functions checked over bounded inputs.

## 7. Running

    tlc -config MCFtpServer.cfg MCFtpServer.tla
    tlc -config MCFtpServerLive.cfg FtpServer.tla
    tlc -config App.cfg App.tla
    tlc -config MCMtpPackets.cfg MCMtpPackets.tla
    tlc -config MCUi.cfg MCUi.tla
    tlapm FtpServer_proof.tla

and likewise for the other configurations. Definitions commented "Mutant:" are faulty
versions of the definition that follows them; replacing the one by the other makes the
property named in `PROJECT.json` fail, which shows that the property can tell.
