# TLA+ verification of adb

This directory holds a formal model of the Android Debug Bridge sources in
`src/`: TLA+ modules translated from the code, TLC configurations that check
them on small instances, and proofs checked by TLAPS. `PROJECT.json` maps every
definition to the lines it models and lists runs, mutants, findings, hazards
and theorems.

## 1. The system

adb is three programs built from one source tree. A **client** (`commandline.cpp`,
`adb_client.cpp`) talks over a local socket to the **server** on the same host
(`client/main.cpp`, `adb_server_main`), which talks over USB or TCP to the
daemon **adbd** on each device (`daemon/main.cpp`). Server and adbd share the
core: an event loop on one main thread, transports with two threads each, and a
multiplexer that runs many streams over one transport.

| Part | State it keeps | Operations | Interacts with |
|---|---|---|---|
| Stream multiplexer (`sockets.cpp`, `adb.cpp` `handle_packet`) | `local_socket_list`, `local_socket_closing_list`, ids, per socket: peer, queue, fd events | accept/connect, OPEN, OKAY, WRTE, CLSE, CNXN, offline, fd readable/writable | event loop (callbacks), transport (`send_packet`), the same code on the other side |
| Transport lifecycle (`transport.cpp`) | `transport_list`, `pending_list`, `transport_lock`, per transport: `ref_count`, `kicked_`, `online`, socket pair | register, unregister, read thread, write thread, kick, unref, close, free | main thread through two socket pairs, USB/TCP below |
| Event loop (`fdevent.cpp`) | `g_poll_node_map`, `g_pending_list`, per fdevent: state, events | install, remove, set, add, del, process, dispatch | everything on the main thread |
| Run queue (`fdevent.cpp`) | `run_queue`, mutex, notify socket pair | run on main thread, set-up, flush | any thread; USB scan, signal handler |
| Smart sockets, host services (`sockets.cpp`, `services.cpp`, `adb.cpp`) | a request being assembled, the waiting peer | enqueue, hand over to a service or a transport | client, multiplexer, transports |
| Listeners (`adb_listeners.cpp`) | `listener_list` | install, rebind, remove, accept, disconnect | transports (disconnect callbacks), multiplexer |
| Authentication (`adb.cpp`, `adb_auth_host.cpp`, `adbd_auth.cpp`) | token, keys left to try, `usb_transport`, `needs_retry` | AUTH token/signature/public key, framework answers | transport, framework socket |
| Device tracker, start-up wait (`transport.cpp`, `adb.cpp`) | `device_tracker_list`, `device_scan_complete` | track, update, close; wait | transports, clients |
| TCP/emulator transport (`transport_local.cpp`) | `local_transports` slots, retry ports | scan, connect, retry, server accept | transports |
| USB of the server, Linux (`client/usb_linux.cpp`) | `g_usb_handles`; handle: mutex, two urbs, condition variable, `dead` | scan, open, read, write, kick, close, exit | transports, `transport_lock` |
| USB of the server, libusb (`client/usb_libusb.cpp`) | `usb_handles`, hotplug queue, handle: device handle, transfers, mutexes | hotplug, process, read, write, kick, close | transports, start-up wait |
| USB of adbd (`daemon/usb.cpp`) | one handle: control and two bulk endpoints, condition variable | open thread, read, write, kick, close | transports |
| File sync (`file_sync_client.cpp`, `file_sync_service.cpp`) | client: sources, files, success; service: file being received | stat, list, send, receive, quit | one stream of the multiplexer |
| Shell (`shell_service.cpp`) | three descriptors, the packet in progress, the child | select loop, pass data, exit code | multiplexer through a socket pair, the child |
| JDWP (`jdwp_service.cpp`) | `_jdwp_list`, `_jdwp_trackers`, descriptors queued for a process | accept, read pid, send descriptor, track, list | Java processes, multiplexer |
| framebuffer, remount, verity services | per request | straight-line | multiplexer through a socket pair |
| Client library (`adb_client.cpp`, `client/main.cpp`) | none shared; the server's port is the common resource | connect, version check, kill and launch a server | server, other clients |
| Command line (`commandline.cpp`) | none shared | parse, print | client library |

What is hard in it:

* **The two ends of a stream are closed and opened independently**, with packets
  in flight: an end may be gone when the other's OPEN is answered; data may wait
  in a queue when CLSE arrives; the server may restart under the device.
* **A transport is shared by four parties** (read thread, write thread, main
  thread, any thread that kicks) and freed by whoever leaves last; requests for
  it travel over two descriptors that are not ordered with each other.
* **Callbacks change the set of callbacks** while events are being delivered.
* **A mutex is held across a blocking write** in the run queue.
* **Two chains of authentication** run over one transport when the server sends
  CNXN twice, and the framework that asks the user comes and goes.
* **Both ends of a file transfer block in reads and writes**, and either may fail
  while the other is in the middle of a message.
* **A USB handle outlives neither its threads nor its device by itself**: bus scan,
  reader, writer, kick and close meet on it under three mutexes.
* **Descriptors are passed and closed by number** while other threads open new
  ones (JDWP hand-over, adbd's endpoints).
* **Clients race for one port**: each may kill and launch the server that another
  has just started.

For each component, what makes it correct: streams deliver in order, completely
and only to their partner, never leave one end open, and never stall;
transports are used only while allocated, closed once and always freed;
the event loop delivers only events still wanted and misses no hang-up; the run
queue runs each function once and in order; a handshake comes to a verdict and
asks a user who can answer; what a file transfer reports as copied is complete,
what it reports as failed leaves nothing half-written that could be unlinked; a
client's request is answered, and no listener or socket is left with a transport that
went offline; a lost device is connected again and a deleted handle is used by nobody;
a shell delivers all output before the exit code; a debugger is attached or
refused. The list `hazards` in
`PROJECT.json` says where in the code each of these is at risk and which
property watches it.

## 2. Modules

| Module | Models | Runs | Proofs |
|---|---|---|---|
| `Streams` (`MCStreams`, `MCStreamPlans`) | sockets.cpp, the packet arms of `handle_packet`, accept in adb_listeners.cpp; both sides of a transport | `streams_safety`, `streams_live`, `streams_two_restarts` | `StreamsProofs`, `SessionProofs` |
| `Transport` (`MCTransport`) | transport.cpp: registration, threads, kick, unref, free; SYNC and CNXN in `handle_packet` | `session`, `transport_offline` | `TransportProofs` |
| `Auth` | the CNXN and AUTH arms of `handle_packet`, adb_auth_host.cpp, adbd_auth.cpp, `remote_read` over USB; both sides | `session` | `TransportProofs` |
| `UsbLibusb` | client/usb_libusb.cpp, the registration and threads of transport.cpp as it meets them, the scan count of adb.cpp | `session`, `libusb_left` | `TransportProofs` |
| `HostServer` | the smart socket of sockets.cpp, host requests of adb.cpp and services.cpp, adb_listeners.cpp, choice and listing of transports, device trackers | `host_server`, `track_devices` | `HostServerProofs` |
| `FdEvent` | fdevent.cpp: poll, dispatch, install, set, remove | `links` | `LinksProofs` |
| `RunQueue`, `CallQueue` | fdevent.cpp: `fdevent_run_on_main_thread`; what it promises | `links` | `LinksProofs` |
| `UsbLinux` | client/usb_linux.cpp, the host part of transport_usb.cpp | `links` | `LinksProofs` |
| `LocalTransport` | the server's part of transport_local.cpp, `register_socket_transport`, `connect_emulator` | `links` | `LinksProofs` |
| `DaemonUsb` | the FunctionFS part of daemon/usb.cpp | `links` | `LinksProofs` |
| `AdbClient` | adb_client.cpp, `launch_server` of adb.cpp, the start of client/main.cpp | `links` | `LinksProofs` |
| `FileSync` (`MCFileSync`) | file_sync_client.cpp and file_sync_service.cpp, blocking I/O of adb_io.cpp | `services`, `file_sync_killed` | `FileSyncProofs`, `FileCopyProofs` |
| `ShellService` | the subprocess thread of shell_service.cpp, `read_and_dump`, `stdin_read_thread_loop` of commandline.cpp | `services` | `ServicesProofs` |
| `Jdwp` | jdwp_service.cpp | `services`, `jdwp_descriptors` | `ServicesProofs` |

`MCSession`, `MCLinks` and `MCServices` put several components into one run. These
components share no variable in the model, so a behaviour of several is a shuffle of
one behaviour of each and no property stated here could tell the shuffles apart
(`TransportProofs`, `LinksProofs` and `ServicesProofs` prove for the three that the
composition implements each part). The variable `part`, chosen in the initial state,
names the component that moves; the others stay in one of their initial states, and
each component's fairness is claimed only while it moves. `MCStreamPlans` has a variable `plan` that restricts
only what the surroundings of `Streams` do, so that one run contains both an
instance with much data and one with restarts.

Components that do interact are together in one module: both sides of the wire in
`Streams` and `Auth`, client and service in `FileSync` and `ShellService`, the
transports with listeners, trackers, clients and service threads in `HostServer`,
the handle with its transport's threads and locks in the USB modules. Where a module
needs a part of another component it keeps only what it meets of it, and says so in
its header.

### Streams

One state holds both sides. `sock[x][i]` is the local socket with id `i` of side
`x`; a remote asocket exists only as the peer of a local one, so it is that
socket's `peer` field. `net[x]` is the FIFO of packets on the way to `x`, and
covers the transport's threads, socket pairs and the wire. `app[x][i]` is the
program at the other end of the fd. All of the code runs on the main thread, so
one callback or one packet is one step. Payload is counted in units that carry
their origin, so that a property can say what was delivered; MAX_PAYLOAD is
`MaxPayload` units.

A read of an fd (`EventRead`) may happen while FDE_READ is off if the program
has hung up, because fdevent polls POLLRDHUP at all times and fakes FDE_READ on
it. A write may take part of the queue, all of it, or fail if the program closed
its end. `HostRestart` kills the server and starts a new one: what was inside
the process is lost, the rest of the wire and the whole device state stay.
`Break` and `Reconnect` fail and renew the wire. A new server begins with its CNXN; that
its read thread sends a second one if the first packet it reads is no CNXN
(transport_usb.cpp) is in `Auth` (`HostData`), not here.

Left out: authentication (the branch of `handle_packet` with `auth_required`
false), empty WRTE packets, `exit_on_close` and `force_eof` of `adb forward`'s
special sockets, and the switch of MAX_PAYLOAD by the version exchange.

### Transport

An element of `Transports` is one allocation of `atransport`. Each thread of a
transport has a program counter (`rpc`, `wpc`); the main thread and one other
thread that may kick (USB hot-plug, a service) have a job (`main`, `other`).
`transport_lock` is a variable only where it is held across steps, which is in
`kick_transport` around `kick_func`; every other critical section is one step
guarded by `lock = Free`. `t->Write` holds `write_msg_lock_` while `wpc = "write"`,
and on the server `kick_func` waits for it. Packet contents are reduced to what
steers the threads: SYNC(1,token), SYNC(0,0), CNXN, anything else. The empty
packet that `SendConnectOnHost` sends ahead of CNXN is not distinguished from it.

`acquire_one_transport` and the listing functions only read the state and are
left out, as are the checks for a serial already taken.

### Auth

One transport over USB between a server with a list of private keys and an adbd
that asks for authentication. Tokens are random, so all that matters about one is
whether adbd has generated another since: `fresh`. `keys` is what the server has
left to try (`NextKey`), ending in a sentinel for the public key. `confirm` stands
for `usb_transport` being set together with its disconnect callback. `asked` says
that the framework shows a key to the user. A restart of the server leaves adbd's
packets on the wire, and the first that is no CNXN makes the server's read thread
send a second CNXN (`HostData`): that is where two chains of tokens come from. In
`ConfirmKey` a write to the framework that fails is the same as a key passed on just before
the framework disconnects, and keys, which end with a zero, are never too long. Key
generation and loading, and adbd with several transports, are left out.

### FileSync

Client and service as two sequential programs (`cpc`, `spc`) over two bounded
channels. A blocked `WriteFdExactly` is a non-empty `out`; the header and the
payload of a message are read separately, which shows only when the stream breaks
between them (`half`). A write to a stream whose other end is closed may be
accepted or fail; if the service closed without reading everything, what it had
said may be lost, as the comment in handle_send_file describes. Every file
operation of either side may fail, also those whose failure the code ignores: the unlinks
(`stuck`), the lstat of a directory's entry and the opening of a directory inside it
(`unlisted`). The device may have another version of a file (`Outdated`); what a push
without O_TRUNC leaves of it behind the new chunks is `old`. `adb push`, `adb sync`, `adb pull` and `adb ls`
are the initial values of `cmd`; a single file is treated as a directory of one.
`copied`, `failed`, `reported` and `trouble` are history. Left out: what is in nested
directories, targets that are neither regular files nor links, --list-only,
permissions and progress. `CopyDone`'s "premature success" cannot happen:
`expect_done_` is set before every call.

### HostServer

`hsT` holds the transports as clients see them: pending or listed, their connection
state, `kicked`, and `down` from `handle_offline` to the removal. The removal need not
wait for `handle_offline`, as the run `transport_offline` shows: then listeners and sockets
keep a pointer to a deleted transport (`HsStale`), the callbacks are freed without having
run, and a state read through the pointer is any state (`HsStateOf`). `hsL` is
`listener_list`, `hsD` the disconnect callbacks of each transport, `hsC` the clients'
sockets with the last status they were sent, `hsW` the thread behind a client
(`wait_for_state`, `connect_service`). `hsTrackers` is `device_tracker_list`, newest
first, as the number under which each client was put on it (0 for none). One event of the main
thread is one step,
with everything it calls: `HsOffline` closes the sockets of the transport and runs
all its callbacks, `HsConnect`, `HsAdd` and `HsRemove` end with `update_transports`,
which drops trackers whose client is gone while it walks them. The service threads
read `transport_list` in steps of their own. Requests that only read (version,
features, devices) are one kind of answer, `HsSimple`.

### UsbLinux

One port of the bus; a handle stands for the `usb_handle` and its `atransport`. The
reader submits an urb and reaps both its own and the writer's; the writer waits on the
condition variable; `usb_kick` discards urbs and signals the reaper, whose signal may
come too early (`signal`). `ubG` and `ubTL` are `g_usb_handles_mutex` and
`transport_lock` where they are held across steps; sections under `h->mutex` that do not
wait are single steps. The poll thread's round (`UbScanNew` ... `UbGc`) has a step per
handle. `ubMain` also takes the exit path of the server, `kick_all_transports`. The writer
may also end before a kick, at SYNC(0,0), here as in `UsbLibusb`.

### UsbLibusb

A device has one handle in its life, as libusb reports an arrival once. `lbProc` is the
thread that sleeps, reads descriptors, opens and registers the device; `lbHot` the
hotplug thread inside `device_disconnected`; `lbQueue` the queue between callback and
thread. A transfer is idle, flying, completed or failed (also by cancellation).
`lbMain` is the main thread inside a kick. `lbUp` turns false where the code stops with
LOG(FATAL). libusb itself is modelled from how the code uses it.

### LocalTransport

`client_socket_thread` and a `connect_service` thread each run through `local_connect`:
check, dial, take a slot, register, each step under the lock the code takes there.
`LtTakeSlot` puts the object into `local_transports` before `LtRegister` finds the serial
taken and deletes it, as the code does; a read of the slot afterwards (`LtFound`) is a
choice. `LtKick` clears the slot, `LtClose` puts the port on `retry_ports`, `LtCollect` and
`LtCopyBack` are the two ends of the retry thread's round on its own copy.

### DaemonUsb

The open thread waits until a new handle is wanted, opens control and bulk endpoints,
registers a transport and goes round; its reader and writer, and another thread inside
`kick_transport`, work on the one `usb_handle`. A kick by that other thread is two
steps, since `usb_ffs_kick` replaces the descriptors one after the other while the
transport's threads move.

### AdbClient

Server processes and clients of one host, of one version or of several that are installed
beside each other (`ver`). `knew` is the server a client has checked or launched, `served`
the one that took its request: the code does not look at the version again in between.
`AcOwners` is the server that holds the port; connecting, asking the version, killing, launching, the acknowledgement over the pipe
and the request itself are separate steps of each client. A server that finds the port
taken, or whose pipe is closed, ends. An exit ends or is stuck for good (`AcExit`), since
`kick_all_transports` may wait for its own lock (section 4); the socket of a stuck server
still accepts.

### ShellService

The child, its pipes, the subprocess thread with `select`'s result still to be handled
(`ready`), the packets in both directions and the client. `raw` mode shares one socket
pair between stdin and stdout, `pty` mode one descriptor for all three; the model follows
the code in closing both directions when one fails. The child reads its stdin or does not;
`select` and the `shutdown` of stdin may fail, and `lost` names the outputs that were closed
without having been read to their end. Descendants may keep an output open (`shHeld`).

### Jdwp

Everything runs on the main thread of adbd, except that other threads open and close
descriptors at any time: `jdTable` says whose a number is, and the lowest free number
is the next given out. `JdSendFd` sends and closes, `JdPop` closes again by number, and gives
up the process if its socket cannot be made non-blocking again. The first list a tracker is
sent is cut at a packet (`JdPacketFits`), updates at a buffer of 1024 bytes (`JdFits`).

### FdEvent, RunQueue and CallQueue

`FdEvent` keeps the poll map, the pending list and the callback that runs. During a
callback any of the fdevent functions may be called on any fdevent. The
shell-exit callback is left out: `WaitForExit` never sends it a descriptor, only -1.
`RunQueue` has threads that push functions, the socket pair with its capacity, and the
main thread that first empties the pair and then takes the mutex. The pair may fill up, and
then caller and main thread may wait for each other (`RqDeadlocked`). `CallQueue` is what
callers rely on: a queue that runs every call once and in order (`CallQueueSafety`), and
runs it at last (`CallQueueSpec` adds the fairness). `RunQueue` implements
it with `waiting <- rqQueue` and `ran <- rqRan`; pushing before the set-up, the bytes and
the mutex are stuttering steps. The deadlock is the one exception to "at last".

## 3. Runs

| Run | Bounds | Shows |
|---|---|---|
| `streams_safety` | either 1 stream, opened from either side, 3 units each way, payload 2, every kind of hang-up; or 2 streams, opened from either side, 1 unit each way, 1 restart, 1 failure of the wire, clients that close | order, nothing lost on an orderly close, exactly one send credit per direction and a peer behind every backlog (`FlowControl`), no crossing of streams or sessions, no half-open stream without a cure under way |
| `streams_live` | 1 stream, 1 unit to the device and 2 back in one packet, 1 restart, 1 failure, every hang-up, fairness | closes propagate and hung-up fds are freed (`EndsPropagate`); OPENs are answered and senders resume (`NoEndlessWait`) |
| `session` | 1 transport of the server, 2 CNXN, 1 send; or 2 keys of which adbd knows any, 2 restarts, 1 failure of the wire, 1 loss of the framework, 2 stream packets; or 2 devices over libusb, one of them read-only, 1 kick by a client | reference count, use after free, close/kick order, one release and CNXN not dropped (`OrderlyLife`), a dead transport is freed; a known key connects, an unknown one reaches a user who can answer; every device that arrives is processed and every lost one released |
| `host_server` | 1 USB and 1 TCP transport, 2 clients, 2 requests, 2 registrations, 1 forwarded name besides the smart socket's | no listener, socket or callback of a transport that went offline or was deleted after that, however its name was bound; a status before every close, trackers know the devices, waiting threads end |
| `links` | fdevents: 2, with 4 calls from callbacks; run queue: 2 threads, 3 calls each, a pair that holds 3 of the 6 bytes and is read 2 at a time; USB on Linux: 2 handles, replugged once, 1 kick; emulators: 2 ports, 2 objects, 1 slot, 2 retries, 1 loss, 1 client; adbd: 2 transports, 2 kicks; 2 clients of 2 versions and 3 server processes | only wanted events are delivered and no hang-up is missed; the run queue implements `CallQueue` up to its deadlock; no deleted handle in use, a usable device is usable again, and an exit gets through its kicks unless a device is inaccessible; one transport per emulator, and its retry is not lost; kicks hit their own endpoints; a client meets a server of another version only if the one it had checked is gone, and all end but for a stuck server |
| `services` | a large file (2 chunks) of which the device may have another version, two small ones, a link, directories of two and of four, 3 argument lists, channels of 1 message; a shell with 1 unit per output, 1 stdin packet of 2 units into a pipe of 1; 2 Java processes, 2 debuggers, 1 tracker, 2 descriptor numbers, updates that hold 1 process and packets that hold 2 | what is reported copied is complete, and nothing half-written stays that could be unlinked; the device's reason for a regular file arrives; nobody waits for ever but in the lstats of a large directory; output precedes the exit code, stdin is neither lost nor doubled, a lost client ends the child unless stdin is full; trackers know the processes that fit, debuggers are attached or closed |
| `streams_two_restarts` (violated) | 3 streams, 2 restarts | an OKAY of the session before connects a new client |
| `transport_offline` (violated) | 1 transport | a transport freed before it was taken offline |
| `file_sync_killed` (violated) | the large file, channels of 1 message | a killed client leaves the service spinning and the file half-written |
| `track_devices` (violated) | as `host_server` | a tracker keeps an old list for ever |
| `jdwp_descriptors` (violated) | as `services` | a debugger's socket is closed by number and another descriptor sent in its place |
| `libusb_left` (violated) | 1 device | the LEFT event deletes a handle in use |

Why the bounds are enough to be of use: three units with payload two produce a
full packet, a partial one and a queue with both; two streams suffice for ids
that differ between the sides (the first OPEN may fail on the device, so that
host id 2 meets device id 1) and for an old and a new session; one transport has
all of its four parties (the proofs cover any number, and adbd, where a kick does
not wait for a write); two restarts give a server that meets the leftovers of a
predecessor that itself met leftovers, and two keys a wrong one before the right
one; two chunks let the device fail while the client has more to send, and channels of
one message let either side block, both of them with four lstats; four callback operations allow
remove and reinstall of an fdevent in the same round; two clients and two
registrations let one client forward, track or wait while the other takes the device
away or binds the name again; two handles and one replugging let a new handle be made
while the old one's threads still run; one slot for two emulators makes the table full;
two transports of adbd let a kick of the first meet the endpoints of the second; two
clients of two versions and a third server let one client kill what another has checked or
launched; a pair that holds fewer bytes than there are calls lets a caller wait with the
mutex; a stdin packet larger than the pipe makes the service wait with the rest of it; two debuggers of
one process queue behind each other. Each property has a mutant of the code that the
run catches.

Deadlock checking is off where the bounded environment may run dry (a stream
finished, all units sent, no plug or request left), which is so in every run that
combines components. The suite is kept to a dozen runs and forty checked properties, so
that all of it, with a mutant for every property, can be repeated after each change of
the code; a property named `...PartSettles` or the like conjoins properties of its
component, each with a name and a comment of its own.

### Fairness

* `Streams`: weak fairness of handling the next packet (the main thread loops and
  the transport threads pump); of writing the whole backlog (a program that does
  not hang up reads its fd; one that does makes the write fail or is read to
  end-of-file); of reading a hung-up fd (poll is level-triggered). No fairness
  for opening, sending, restarting, breaking or reconnecting.
* `Transport`: strong fairness of the main thread's two sources of work, since
  fdevent_loop handles everything one poll reported before it polls again; weak
  fairness of threads that can go on. A read returns once the connection is dead
  and a Write returns; both are promises of the USB and TCP layers below.
* `HostServer`: weak fairness of the main thread serving clients' descriptors and
  messages about transports, of the service threads, and of a kicked connection
  breaking, where either of the two messages of its end may come first. Nothing is assumed of clients or devices.
* `UsbLinux`: the reader, the writer, the poll thread and the main thread go on when
  they can; strong fairness of a kick that waits for a mutex, which others hold again
  and again but never keep, and of finding a present device, since opening it does not
  fail for ever.
* `UsbLibusb`: threads go on; strong fairness of a kick that waits for the lock.
  Nothing is assumed of devices: a transfer the device never takes stays, and
  `LibusbSettles` names the case in which a kick waits for it (`LbStuck`).
* `LocalTransport`: weak fairness of the two threads and the main thread.
* `DaemonUsb`: threads go on; strong fairness of opening the endpoints, which FunctionFS
  allows at last.
* `AdbClient`: every process that is not interrupted goes on; an exit ends or is stuck for
  good.
* `ShellService`: weak fairness of the subprocess thread and of the client's reading. Nothing
  is assumed of the child.
* `Jdwp`: weak fairness of adbd's main thread.
* `FdEvent`: weak fairness of poll, dispatch and return of a callback.
* `Auth`: weak fairness of both main threads handling the next packet. Nothing
  is assumed of the framework, the user, the wire or restarts; properties that
  need them to come to rest say so.
* `FileSync`: weak fairness of both programs; a running process goes on. A write
  that cannot succeed any more either is accepted or fails.
* `RunQueue`: strong fairness of the main thread (the mutex is not withheld from
  it for ever), weak fairness of the write of the byte.

## 4. Findings

Violated runs, each against a line of the repository quoted in `PROJECT.json`:

* `streams_two_restarts`: stream ids begin at 1 in every server, and OKAY carries
  nothing that ties it to a session. One restart is safe (`SessionIsolation`):
  the device's CNXN follows all its old packets. After two in a row the CNXN that
  answers the second server lets the third one take the second's packets.
* `transport_offline`: SYNC(0,0) and the removal request are on different
  descriptors, and the removal may win. Listeners and sockets then keep the deleted
  transport, which `NoDanglingTransport` names as its exception.
* `track_devices`: `update_transports` is missing where a TOKEN makes a device
  unauthorized, where a transport goes offline and where an inaccessible device is
  removed. Trackers do learn of every device that is added or removed
  (`TrackersKnowDevices`).
* `jdwp_descriptors`: `adb_close(fd)` followed by the destructor of the `unique_fd` that
  holds the same number.
* `libusb_left`: `device_handle` is null in a device never opened and in one whose
  transport was just kicked; the LEFT event takes the second for the first.
* `file_sync_killed`: `if (!ReadFdExactly(...)) goto fail` inside the `fail:` loop.
  SYNC.TXT promises that the file is deleted if the transfer fails.

Met while modelling. These have no violated run of their own, as the suite is kept to a
dozen; where the model has the case, the property that would forbid it names it as its
exception:

* protocol.txt:158 says that a WRTE must not follow another without an OKAY; after
  a hang-up of the client it does, because fdevent reports FDE_READ for it whether
  asked or not.
* CLSE is answered with CLSE (protocol.txt:177 says it should not be; the answer
  meets no socket), and an OKAY for a stream that is gone is answered with CLSE
  where protocol.txt:137 says it is ignored. The code's way is needed: with the
  documented one (mutant `OkayToNobody_Ignored`) `EndsPropagate` fails and a
  service on the device stays open for ever.
* An OPEN that adbd sent to the previous server (a reverse forward) may be served by
  the next one, when an old CNXN has made that online; `SessionIsolation` says that the
  reset which ends the stream is under way and no data passes.
* A server restarted under an adbd that was online may take a CNXN of the old
  session for its own and list the device as online while adbd waits for
  authentication. A framework that shows a key and then restarts is not asked
  again (`needs_retry` is only set when it was away).
* `copy_local_dir_remote` writes all lstat requests before it reads an answer
  (file_sync_client.cpp:889-894). With four files and a stream that holds one message per
  direction, as in `services`, client and service end up blocked in a write each; in reality
  it takes as many files as fill the buffers of the stream. `LstatsBlocked` is the exception
  in `ClientEndsAtLast`.
* A failed unlink is ignored. do_send goes on and handle_send_file opens the old file without
  O_TRUNC (file_sync_service.cpp:216-218, 384): if that was longer its tail stays, and the
  answer is OKAY. After "abort:" (309) the half-written file stays. `Stored`, `NoPartialPush` and
  `NoPartialPull` except the files in `stuck`.
* `local_build_list` leaves out an entry whose lstat fails (file_sync_client.cpp:829-833), and
  the result of listing a directory inside is ignored (866): the push ends with success.
  `SuccessIsComplete` excepts the files in `unlisted`.
* A directory that the device cannot open is listed as empty (`do_list`), so a pull
  of it succeeds without its files. The reason of a failed symbolic link may be
  lost: handle_send_link closes the stream with DONE unread. `ReasonReported` is about
  regular files.
* handle_send_file closes its descriptor twice when update_capabilities fails
  (file_sync_service.cpp:262 and 308), as the JDWP service does.
* `fdevent_run_on_main_thread` writes its byte with the mutex held. With a pair that holds
  fewer bytes than there are calls, as in `links`, main thread and caller end up waiting for
  each other (`RqDeadlocked`, the exception in `ImplementsCallQueue`); the signal handler of client/main.cpp:98 may also take the
  mutex a second time.
* `register_socket_transport` deletes a transport whose serial is taken, although
  `init_socket_transport` has put it into a slot of `local_transports`: the slot keeps the
  pointer, and with the last slot gone no further emulator is found.
* usb_linux.cpp:487: on exit `kick_all_transports` holds `transport_lock` and kicks an
  inaccessible device, which takes the lock again; the server does not end by itself. The same
  line inverts two locks: the poll thread takes the handle's mutex and then `transport_lock`,
  the exiting main thread `transport_lock` and then the handle's mutex. `UsbRecovers` excepts
  an inaccessible device that is being kicked.
* A client that waits for such a server in `ReadOrderlyShutdown` (adb_client.cpp:176), or for
  its status, waits for ever: `AcHeldUp`, the exception in `ClientsEnd`.
* `adb_connect` does not look at the version again after the query or the start
  (adb_client.cpp:233-246): if a client of another version replaces the server in between, the
  request goes to the new one. `ServedByOwnVersion` says that this is the only way.
* With libusb a device that stays plugged in is not registered again after `adb reconnect`;
  a device that leaves between the reading of its descriptors and `libusb_open` stays
  listed as "no permissions"; a write has no time limit, and a kick waits for it with
  `transport_lock` in hand (for TCP, transport_local.cpp:92 is the same).
* `acquire_one_transport` reads the transport's state after it has released
  `transport_lock`, and service threads use the pointer later.
* `killforward` of the smart socket's own name removes its listener; `close_smartsockets`
  looks for a name that no listener has and erases at `end()` (adb_listeners.cpp:175).
* adb.cpp:956 says `handle_forward_request` returns -1 for what it does not handle; it
  returns 0.
* A stdin that the child neither reads nor closes keeps the service from noticing that the
  client is gone (shell_service.cpp:533-536; the comment at 199-202 says that the socket is
  "always" monitored), and a failed write to stdin closes the
  descriptor that stdout is read from, with the rest of the output.
  `HangUpReachesChild` (but for `ShWaitsForChild`) and `ShellComplete` (but for `lost`) are stated
  accordingly. `read_and_dump`
  returns 0 when the stream ends without an exit code.
* A client that decided to kill a server of another version sends kill to whichever has
  the port by then, perhaps the right one that another client has started; both clients
  still end, one of them possibly with an error. A server whose launching client is
  interrupted before the acknowledgement dies, although others may use it already.
* An update to a JDWP tracker is cut off at a buffer of 1024 bytes (jdwp_service.cpp:527), the
  first list only at a packet (565), so a tracker may know fewer processes after an update than
  before, where SERVICES.TXT:234 promises the list. `TrackersKnowProcesses` is about what fits.

## 5. Proofs

TLAPS proves the theorems below for every value of the constants that the named
assumptions of the component's module allow; these only say of which type a constant
is, that names of different things differ, and that a bound is not 0 where the code has at
least one of the thing. Each proof
has the same shape: an inductive invariant, a lemma that
the initial states have it, a lemma that each action keeps it, and the theorem by PTL.
Few of the properties are inductive alone; what strengthens them is named below.

| Module | Theorems | Property of a run |
|---|---|---|
| `TransportProofs` | `TypeCorrect`, `RefCountsCorrect`, `FreedIsUnused`, `ClosedIsKicked`, `LifeIsOrderly` | `TypeOK`, `RefCounts`, `NoUseAfterFree`, `CloseAfterKick`, `OrderlyLife` |
| | `AuthTypeCorrect`, `RetriesHaveTransports`; `UsbLibusbTypeCorrect`, `ScanWaitsForAll` | the safety part of `AuthPartSettles`, the action part of `LibusbPartSettles` |
| | `SessionImplementsParts`, `SessionTypeCorrect`, `SessionIsSafe` | `SessionTypeOK`, and the safety above, of the composition |
| `StreamsProofs` | `StreamsTypeCorrect`, `BacklogsHavePeers` | `TypeOK`, the first half of `FlowControl` |
| `SessionProofs` | `InOrderInSession`, `NoLossProved`, `NoOrphanInSession`, `FlowControlInSession` | `InOrderDelivery`, `NoOrphan` and `FlowControl` while `gen = 0`, `NoLossOnClose` |
| `HostServerProofs` | `HostServerTypeCorrect`, `NothingDangles`, `ClosedWithStatus`, `DevicesKnown` | `HostServerTypeOK`, `NoDanglingTransport`, `NoSilentClose`, `TrackersKnowDevices` |
| `LinksProofs` | `FdEventTypeCorrect`, `PendingConsistent`, `OnlyWantedDelivered`; `RunQueueTypeCorrect`, `NoLostWakeup`, `RunsOnceInOrder` | the parts of `EventsDelivered` without fairness; the safety half of the refinement of `CallQueue` |
| | `DaemonUsbTypeCorrect`, `KicksHitOwnEndpoints`; `UsbLinuxTypeCorrect`, `HandlesStayAlive` | `KickHitsOwnEndpoints`, `UsbHandleAlive` |
| | `AdbClientTypeCorrect`, `OwnVersionServes`; `LocalTransportTypeCorrect`, `EmulatorHasOneTransport` | `ServedByOwnVersion`, `OneTransportPerEmulator` |
| | `LinksImplementParts`, `LinksTypeCorrect`, `LinksAreSafe` | `LinksTypeOK`, and `UsbHandleAlive`, `OneTransportPerEmulator`, `KickHitsOwnEndpoints`, `ServedByOwnVersion`, of the composition |
| `FileSyncProofs` | `FileSyncTypeCorrect` | the types of file sync in `ServicesTypeOK` |
| | `DeviceFilesAreWhole`, `SuccessMeansComplete` | two parts of `FilesComplete` |
| `FileCopyProofs` | `FailuresAreExplained` | `FailuresExplained` |
| | `PulledFilesAreWhole`; `CopiedFilesAreComplete` | a third part of `FilesComplete`; all of it, when no file is named twice |
| `ServicesProofs` | `ShellServiceTypeCorrect`, `ShellIsComplete`; `JdwpTypeCorrect`, `TrackersAreUpToDate` | `ShellComplete`, `TrackersKnowProcesses` |
| | `ServicesImplementParts`, `ServicesTypeCorrect`, `ServicesAreSafe` | `ServicesTypeOK`, and the safety of the three, of the composition |

### Transport

A pointer to `t` reaches `kick_transport` from threads that hold no
reference, so the reference count alone does not protect `t`. What does is that
**the write thread can only leave through `kick_transport`, with `t` on
transport_list**: after that `kicked_` is set and nobody can be inside `kick_func`
(`KickInv`), since `kicked_` never falls back. The write thread only gets a packet,
and so only gets to leave, after the main thread has put `t` on the list
(`ListInv`); the read thread may leave before that and then kicks nothing, but it
cannot be last unless the write thread has left too (`ReleaseInv`). From there:
the one that drops the last reference is alone (`ReleaseInv`), hence the removal
request (`RemoveInv`) and the deletion (`FreeInv`) find both threads gone.
`AddInv` says that a second "add" cannot restart the threads, `StartInv` that
both start together, `LockInv` that the lock and the program counters agree.

`LifeIsOrderly` adds `Orderly`: in each of the two socket pairs a CNXN stands behind a
SYNC(1,token) until the write thread has taken one (`PumpInv`), a transport that is
being added is on pending_list (`ListingInv`), and exactly one of the steps that lead
from the last reference to the deletion is under way (`RequestInv`).

### Authentication and libusb

`RetryHasTransport` is part of `AuthInv`: a retry is noted together with the transport, and
`usb_disconnected`, which forgets the transport, forgets the retry.

`connecting_devices` says nothing by itself. `LbInv` ties it to the devices: it is the
cardinality of `LbConnecting`, those that have arrived and are not processed. To keep this an
arrival must be in hotplug_queue only once and before its thread starts (`LbArrivals`). Then
the thread that finds the counter at 1 is that of the only device left, which is
`ScanIsComplete`, and the counter never falls below zero.

### Streams

`StreamInv` is inductive over restarts of the server and failures of the wire. Type
correctness needs `IdBudget`: an id is taken for each stream that is opened, and every
OPEN under way reserves one of the receiver's, so `next_id` never passes the number of
streams opened. `BacklogHasPeer` is the part of `FlowControl` that speaks of one socket; it is
proved over restarts too.

`SessionProofs` is about the streams of one server process. Its lemmas describe every
action of a side by what it takes from its queue, what it sends and what happens to one
socket, so that each part of the invariant is proved for six kinds of step (`SideStep`), and
for the failure and the renewal of the wire, and not for each action:

* `MateInv`: an id is not used twice, a stream joins two sockets and no third, an open
  socket's peer is the socket it was joined with, and the packets under way agree with
  that (an OPEN and its refusal belong to a socket nobody has answered);
* `Flow`: the WRTEs of a stream under way carry its units in order and without gaps,
  behind the OKAY that connects the receiver, from what has arrived up to, while the
  wire is up, the last unit that was sent;
* `LinkInv`: behind a failed wire each queue ends with the SYNC of the read thread, or
  that SYNC has taken the transport offline; so no stream survives into the next
  connection, and what is renewed starts without open sockets.

`InOrderDelivery` needs all three, because a gap in the units of an open stream would show
only later. It is proved for `gen = 0`: after a restart of the server ids are used again, and
that no stale packet meets a new socket rests on the order in which the device answers;
there the property, and `SessionIsolation`, are model-checked.

`NoLossOnClose` needs in addition, before the first failure of the wire (`WireInv`): the one
CNXN exchange closes nothing (`OneSession`), and a CLSE is the last packet of its stream, a
socket that has closed sends nothing more, and one that adb closed has had all that its
mate sent (`Closing`).

`NoOrphan` and `FlowControl` need, while the wire is up (`PairInv`), for every open socket:

* `Greeting`: a side that waits for a CNXN has it in its queue and sends nothing before, so a
  CNXN never closes a stream;
* `BothEnds`: the other end is open too, or its CLSE is under way, or an OKAY is under way that
  will be answered with one; a socket without a mate has its OPEN or the answer to it under
  way; and a CLSE stands behind the OKAY that connects its receiver, since one from a socket
  that is not the receiver's peer is ignored;
* `Credit`: the sender's FDE_READ, the WRTEs of the stream under way, the receiver's backlog and
  the OKAYs under way add up to 1. Packets are counted by the cardinality of their places in
  a queue (`Number`), which taking and sending one changes by at most one.

Each kind of step is described by what it does to these three (`Served`), and five lemmas show
that this keeps them, on the side that moves and on the other. Behind a failed wire
`NoOrphan` follows from `LinkInv`; a wire is renewed when no socket is open. Over a restart of
the server both properties are model-checked.

### HostServer

`NoDanglingTransport` needs the relation between `listener_list` and the disconnect callbacks:
a listener with a transport has its callback on that transport and on no other, the
transport can be used, and a callback belongs to a listener with that transport
(`HsListenerInv`). `HsRemove` does not ask whether `handle_offline` has run: either it has, and
no reference is left, or the references become stale and their callbacks go with the
transport. A transport whose connection ended is listed and offline (`HsDownInv`).
`NoSilentClose` follows from `HsClientInv`: only a stream that waits for the device's answer has
its status still due. `TrackersKnowDevices` follows from `HsTrackerInv` and `HsKnowInv`: every
tracker is on the list, and every step that changes which transports are listed and
accessible walks the list, also while it drops trackers.

### Event loop

`FeInductive` joins `PendingList` to `FeWriteWanted` (an undelivered write event is still
wanted); the lemmas about `g_pending_list` say what removing one element of a duplicate-free
sequence leaves. `RqWakeupDue` is what makes the queue wake the main thread: when functions
wait, either the main thread has emptied the pair and will take the mutex, or a byte is in the
pair, or a thread is about to write one. Every step of `RunQueue` is a step of `CallQueue` or
leaves `rqQueue` and `rqRan` unchanged.

### Links

* `AdbClient` (`StartInductive`): the port has one owner; a launched server has the version of the
  client that launched it, and one that acknowledged has held the port; the server a client
  knows has its version and has held the port, so that another one that it talks to holds it
  only because the known one is dead (`TalksTo`); while the first server lives nobody
  knows another.
* `LocalTransport` (`LtInductive`): transports on the two lists have different serials, a kicked
  one has no slot, and a thread about to register an object has it to itself.
* `DaemonUsb` (`DuInductive`): the open thread works only when every earlier transport is
  closed, and a kick by another thread, with transport_lock, is over before the
  transport's own threads pass `kick_transport`.
* `UsbLinux` (`UbInductive`): a handle with a live thread is listed and writable, a thread past
  `kick_transport` has set `kicked` (`UbLife`); the poll thread holds its mutex while it walks the
  handles and unregisters only those without threads (`UbPollInv`); the main thread's kick finds
  the threads inside (`UbMainInv`); transport_lock has one holder (`UbLockInv`).
* The composition: a step of it is a step of one part and a stuttering step of every
  other, so it implements each part, and the parts' theorems carry over.

### Services

* `ShellService` (`ShInv`): how often a packet or a unit occurs in a queue is counted
  (`Count`), and the books balance: what the subprocess has written is in a pipe, read by the
  thread, on the wire or with the client (`ShOut`), and likewise for stdin (`ShIn`); an output in
  `lost` is in these books, but need not be drained. `ShExit`
  adds the order: the exit packet is the last of the stream and is made only when both pipes
  are drained.
* `Jdwp` (`JdInv`): a tracker that is open was told the list as it is, in one of its two cuts;
  `JdNth`, the rank of a
  process among those that have sent their pid, makes this a fact about functions without
  recursion.
* The composition is treated as that of the links.

### File sync

`FsInv` is type correctness with what it needs: messages about a file name one
(`FsMessages`); the client is in the middle of a file, and the service of a copy, only if
there is one. `FsRemains` says that behind what is on the device there is a rest of another
version only where an unlink failed. All that follows speaks of `ToService` and `ToClient`: a direction with what its
writer has still to write, so that writing, transmitting and reading are one queue that grows
at one end and shrinks at the other, and a broken stream, a kill and a lost answer only make it
shorter (`Shorter`).

* `DeviceFilesAreWhole`: while both sides go on, the two are in step (`FsTalk`): place by place
  of the client, what the service has taken of the file plus what is under way is what the
  client has written of it (`Sends`). Behind a client that is gone or a stream that broke only
  a weaker fact remains, and it is enough: what the service is fed is the beginning of one
  file's SEND, DATA.. and DONE, or will not end in a DONE (`FsFeed`). So a file that is not
  complete belongs to a service that is still in it (`FsPartial`), and it leaves through
  "abort:", where the file goes or is `stuck`.
* `SuccessMeansComplete`: an OKAY is in the queue only when the file is complete and nothing is
  under way to the service (`FsHears`), an ATTR that says "up to date" still is; the
  device touches no file but the one the client is at, unless that failed and the user was
  told (`FsBusy`); and each wanted file is complete, still in a list of the client, or was left
  out of it (`FsSuccess`).
* `FailuresAreExplained`: the same agreement for pull and ls (`FsPullTalk`), and every message
  that either side would call unexpected is behind a failure (`FsCause`). `FsReports` follows
  the reason of a failed regular file from the service's FAIL to the user: it is in the queue, or it
  was shown, or the stream broke. Here the service's reading on after "fail:" is used.
* `PulledFilesAreWhole`: what a client that receives a file has, and what is under way to it, add
  up to the file, DONE last (`FsPullHears`); other local files are complete or absent (`FsLocal`).
* `CopiedFilesAreComplete` adds that a copied file stays complete (`FsKept`), which holds only if
  it is not copied again. `NoneNamedTwice`, the hypothesis, says of `Sources` that no file
  is named twice, by itself or through a directory: `adb push a a` does begin to write a file
  that was counted, so it is needed, and the sources of the runs satisfy it. Then
  a file is in one place (`FsOnce`): in a source not begun, among those asked for, among those to
  copy, or copied. For a pull the directory is listed by the device, so this needs that the
  entries under way, and those the service has still to send, have not been met (`FsComing`).

`FileSyncAssumption` says that no file is named "absent", because the model writes a file that
does not exist as `<<"absent">>`; it is an assumption about this encoding, not about adb.

### Only model-checked

* All properties with fairness, and the refinement of `CallQueue` as a whole: liveness and
  ENABLED are out of the prover's reach.
* `InOrderDelivery`, `NoOrphan`, `FlowControl` and `SessionIsolation` of `Streams` over a restart
  of the server.

## 6. Plan

Every part of the system that keeps state of its own and is not listed below as not
modelled has its module. What is left is the proof of `SessionIsolation`, and of
`InOrderDelivery`, `NoOrphan` and `FlowControl` after a restart of the server, from the place
of the device's CNXN in the queue to the new server.

### Not modelled

* `client/usb_osx.cpp`, `client/usb_windows.cpp` and `sysdeps_win32.cpp`: other platforms;
  the first two repeat the protocol of `usb_linux.cpp` with other system calls, the third
  emulates POSIX calls.
* Argument parsing and terminal output (`commandline.cpp` but for the shell client,
  `console.cpp`, `line_printer.cpp`, `bugreport.cpp`): no state shared with the rest.
* mDNS: glue to a resolver library that is not in the repository.
* The framebuffer, remount and verity services, and the privileges of `daemon/main.cpp`:
  straight-line system calls.
* Key files and their watching (`adb_auth_host.cpp`), adbd's TCP accept loop and QEMU pipe
  (`transport_local.cpp`), the raw shell protocol and PTY set-up: I/O around the parts that
  are modelled.
* Undefined behaviour that has no outcome a model could give it (the read of a deleted
  transport): the places are in section 4.
