# LightWeightBlackboard, formally

LightWeightBlackboard is a shared blackboard: an MFC client and a C server in
which the members of a room chat and edit one source file together. This
directory holds TLA+ models of the server (and of the part of the client that
talks to it), TLC configurations that check them on small instances, and TLAPS
proofs of the invariants that matter most, for every value of the constants.
Everything below is about the code at `src/`; `PROJECT.json` gives, definition
by definition, the lines each model stands for.

    tlc -workers 2 -config MCRooms_safety.cfg MCRooms
    tlapm RoomsProofs.tla      # and SharedFile-, Chat-, RoomFile-, SessionProofs.tla

## 1. The system

Server: `main.c`, `blackboard.c`, `blackboard.h`, `filemodule.c`. Client:
`LightWeightBlackboardDlg.cpp` (login), `EnterListDlg.cpp` (choice of a room),
`roomDlg.cpp` (the room), `MakeFile.cpp`, `OpenFile1.cpp`, `listDlg.cpp`.

| Component | State it keeps | Operations | Modelled in |
|---|---|---|---|
| Accept loop, `main()` | `room_count`, the global mutex, its client, the listen queue, the free descriptors | accept, login dialog, `4MAKE`, `4<n>` | `Rooms`, `Session` |
| Room table `rooms[]` | `roomnum`, `count`, `clnt_socks[]`, `tids[]`, `ids[]` | written by every kind of thread | `Rooms` |
| `room_handler`, a thread per room | `roomnum`, `i`, and the `Info` on its stack | find a member without a thread, announce, create its thread | `Rooms` |
| `socket_handler`, a thread per member | its copy of `Info`, `ud`, `buf` | start, chat, log, file commands, leave | `Rooms`, `Chat`, `SharedFile`, `RoomFile` |
| Chat and its log | `chat_tb<n>` in MySQL | broadcast, INSERT, SELECT at entry | `Chat`, which implements `ChatRoom` |
| A room's file: editing | the offset of `fp`, the file, `modify_rights` | open at entry, send at entry, request, release, edit | `SharedFile` |
| A room's file: which one | `fp`, `fname`, the directory, `BACKUP/`, the table `file` | `FM_OPEN`, `FMcreate`, `FileSave`, entering | `RoomFile` |
| Compilation | `errRedir.txt`, `resRedir.txt`, `a.out`, of all rooms | `FMcompile` | `RoomFile` |
| Room dialog of the client | the edit box, its read-only state, the receiving thread | request/release, edit, file dialogs, receive | `SharedFile`, `RoomFile`, `Session` |
| Login and room-choice dialogs | `clnt_sock`, `roomcount`, the list, a two-second `recv()` | connect, log in, give up, choose, make | `Session` |
| Message framing | the bytes in each stream | 1024-byte sends read 128 at a time, a 16-byte choice of which 6 are read | `Session` |
| TCP | per connection: open, FIN, RST, ... | `read`, `write`, `close` | `Sockets` (external) |

How they interact. `main()` serves one client at a time from `accept()` to its
placement in `rooms[]`. It never tells anybody: the room's `room_handler` spins
over slots `0..count` looking for a socket without a thread, and creates one,
to which it passes the address of a record that it reuses. Every
`socket_handler` reads its own socket and writes to the sockets of all members
of its room. One global mutex protects the table's writers (the loops that read
it hold no lock), the INSERT of a chat line and the creation of threads. The
file and the right to modify it are protected by nothing, and neither are the
working directory and the outputs of a compilation, which all rooms share. The
two sides of a connection agree on the order of messages but not on how many
bytes each has, and the client stops waiting for an answer after two seconds.

What is hard here: threads that are started late (`pthread_create` with the
address of a variable that changes); a count that is both a bound for loops and
an index, changed in one critical section and used in another; early `continue`s
that keep the mutex; unlocked test-and-set of the right to modify; a FILE offset
shared by threads; an edit or a line of chat that is broadcast in one step and stored
in another while somebody enters; clients that disappear by a FIN (`read()`
returns 0) or an RST (it returns -1), and the second write to a dead socket,
which kills the server by SIGPIPE; a descriptor that is closed under a thread and
returned for another client; a client that does not read, for which every writer waits; a `FILE` that is closed while its pointer stays;
a name that is changed before or after the file that it names; streams that
go out of step; an accept loop that one slow client holds. Each is a hazard in `PROJECT.json`, at its
line, with the properties that look at it.

What makes each part correct:

- *Room table*: open rooms are `0..room_count`; the slots in use are `0..count`;
  a line carries the id of its author; nobody's slot is taken; a thread never
  serves a client of another room; no descriptor is closed while something refers to it;
  the mutex is released; a member that waits gets a thread.
- *Shared file*: at most one member edits; the room's flag and the members'
  flags agree; an edit box is open exactly when its owner may edit; everybody
  ends up seeing the file; every command is handled.
- *Chat*: the lines of an author keep their order, and none is shown twice but
  by the replay of the log; the log has no holes; a member that enters gets what was said.
- *Which file*: `fp`, `fname` and the edit boxes are of one file; no `FILE` is
  lost; a file that is closed has its last text in `BACKUP/`; a compilation is
  answered with its own output; no call is made on a closed `FILE`.
- *Session*: a client that sees the room is a member of it; both ends of a
  stream stay in step, or come back into it; a client that waits is accepted.

## 2. Modules

| Module | What it is |
|---|---|
| `Sockets` | TCP connections as `write()` and `read()` show them |
| `Rooms` | accept loop, room threads, member threads, the table and the mutex |
| `RoomsInductive`, `RoomsProofs` | its inductive invariant; the theorems |
| `SharedFile` | one room's file, the right to modify it, the members' edit boxes |
| `SharedFileInductive`, `SharedFileProofs` | its inductive invariant; the theorems |
| `ChatRoom` | what a room promises about chat: an abstract specification |
| `Chat` | one room's chat, its log, the connections to MySQL; implements `ChatRoom` |
| `ChatInductive`, `ChatProofs` | its inductive invariant; the theorems, with the refinement |
| `RoomFile` | which file each room has open, `BACKUP/`, compilation; all rooms |
| `RoomFileInductive`, `RoomFileProofs` | its inductive invariant; the theorems |
| `Session` | a client from its login to the room, `main()`, and the bytes between them |
| `SessionInductive`, `SessionProofs` | its inductive invariant; the theorems |
| `MCRooms`, `MCSharedFile`, `MCChat`, `MCRoomFile`, `MCSession` | model values, texts, budgets and symmetry for TLC |

`Rooms` and `Session` both model `main()`: `Rooms` has its critical sections
and its races with the threads, with the dialog of a client reduced to the ways
it ends; `Session` has that dialog byte by byte, with each critical section in one step.
`SharedFile` and `RoomFile` split a room's file in the same way: one file
call by call, and many files command by command.

A definition named `X_Fault` stands before `X` and is a plausible bug of it. No
action uses one: each is substituted for `X` in turn, to see that the property
paired with it (`mutants` of `PROJECT.json`) notices.

### Rooms

A step is a critical section of the global mutex, or one access made without it
to `rooms[]`, `room_count` or an `Info` record. Program counters are `main`,
`rpc[r]` (the `room_handler` made for room `r`) and `hpc[t]` (the
`socket_handler` with identity `t`).

| Actions | Code |
|---|---|
| `Accept`, `Login`, `Drop`, `Choose` | `main.c:111-272` |
| `MakeLock`, `MakeDbFail`, `MakeRefused`, `MakeRoom`, `MakeSpawn`, `MakeSpawnFail` | `main.c:274-323` |
| `EnterCount`, `EnterReply`, `EnterPlace` | `main.c:332-360`: two critical sections, a write between them |
| `RoomStart` | `blackboard.c:20`, where `*(&room_count)` is read |
| `RoomFind`, `RoomLock`, `RoomSpawn`, `RoomSpawnFail` | `blackboard.c:25-57` |
| `HandlerCopySock`, `HandlerCopyNum` | `blackboard.c:69`: the copy of `*arg` races with the next `RoomLock` |
| `HandlerInit`, `HandlerInitFail` | `blackboard.c:94-178` |
| `HandlerChat`, `HandlerLog`, `HandlerLogFail` | `blackboard.c:214-265` |
| `HandlerReadError`, `HandlerLeave` | `blackboard.c:192-212` |

A client `c` is a connection, and the table holds descriptors: `peer[d]` is the
client behind descriptor `d`, `None` when it is free. `Accept(c, d)` may return
any free descriptor, also one that a slot, a thread or an `Info` to be read still
refers to (`InUse`), and `HandlerLeave` frees the descriptor it closes, whichever
thread it is. `user` is the id typed at login, for which the model takes the
client itself; `ids` holds what the table has.

Abstractions. The login dialog is the writes it makes and the
ways it ends. `Drop` also stands for a choice whose socket the code leaves open.
An RST provoked by a write arrives at once. The kernel gives descriptors to
files and MySQL connections as well; here only `accept()` takes them, so that a thread whose
descriptor has become a file is not seen. The behaviour ends at a
SIGPIPE (`status = "sigpipe"`), which ends the process, and at a store outside
an array (`"overrun"`), after which C promises nothing; a *read* of
`clnt_socks[16]` while the count is 16 finds the neighbouring field and is not modelled.
`ThreadLeft` keeps a `room_handler` from looking for work when the model
has no thread identity left. `RoomSpawnFail` stores no `tid`. What the file commands write is left to
`SharedFile`, and so are writes that wait for a client that does not read.

Three history variables say what the properties must except. `orderly`: only last members have left
and no join was cut short; it is what `TableDense`, `LabelsMatch`
and `NoSlotStolen` need, because a member that leaves from the middle breaks them
(finding `rooms_reachable`). `torn`: the threads whose `Info` was rewritten before
they had copied it. They may serve one client and label its lines with the id of
another, and `LabelsMatch`, which compares the id the line is given (`ids` at the
thread's `clnt_num`) with the client the line was read from, is not about them.
`reused`: the descriptors that `accept()` returned while something in the server still
referred to them. Through these a line does reach another room, and a thread does
read another room's client: `NoCrossRoomService` is about all others, and
`ReuseHasCause` says where they come from, namely a torn `Info` or two `room_handler`s that
watch one room. Without those each thread is the only one that refers to the
descriptor it closes, in whatever order members come and go.

### SharedFile

One room. A step is one access to the room's flag, one call on the `FILE`, or
one `write()`. A client reads its `inbox` when it likes, which models the delay
of the network and a client that does not read: it may be stopped by a message box, or its
receiving thread suspended (`roomDlg.cpp:213`). A `write()` to it waits while it has
`Capacity` messages unread (`Full`), and with it the thread that writes, whoever that serves.

| Actions | Code |
|---|---|
| `Press`, `Type`, `Receive` | `roomDlg.cpp:240-260`, `223-237`, `113-209` |
| `Place` | `main.c:332-360` |
| `HandlerInit`, `HandlerInitFail`, `HandlerOpen` | `blackboard.c:94-178` |
| `HandlerLoad`, `HandlerFetch`, `HandlerDeliver` | `TransFileData`, `filemodule.c:431-443` |
| `HandlerRequest`, `HandlerGrant`, `HandlerRelease`, `HandlerReply` | `FMrights`, `filemodule.c:208-250` |
| `HandlerDrop`, `HandlerEdit`, `HandlerBroadcast`, `HandlerRewind`, `HandlerPut` | `FMmodified`, `filemodule.c:151-203` |
| `HandlerReadError`, `HandlerLeave` | `blackboard.c:188-212` |

Abstractions. `Place` is atomic and takes the next slot; the split critical
sections and occupied slots are in `Rooms`, and so are the announcements of
`room_handler`. Edits stay under 128 bytes. The file is not opened, created or compiled by a
command (see `RoomFile`). The two assignments of a grant or a release are
one step, because `ud` is the thread's own; `fputs` and its `fflush` are one step, and so are
the read, the test and the write of a slot in the broadcast. `Four` is the
client, if any, whose descriptor is 4. `FreshRights` is what `malloc` left in
`modify_rights`; `fp` is taken to be NULL at first. `clean` is a history
variable that stays true while `Undisturbed` holds: everybody stays connected,
grants and uses of the `FILE` do not overlap, and no edit is shorter than the file.
`adrift`, another, collects the members with an edit that was dropped, or that was still under
way when somebody else's text was sent to them (`Crossing`): only their own boxes may be left behind.
`HandlerPut` writes over the file without cutting it, as the code does.

### Chat

One room, its members and the table `chat_tb<n>`. A step is one `write()`, one
query or one critical section; the broadcast and the replay are loops of such steps.

| Actions | Code |
|---|---|
| `Speak` | `roomDlg.cpp:85-111` |
| `Place`, `Start` | `main.c:332-360`, `blackboard.c:25-57` |
| `HandlerSelect`, `HandlerSelectFail` | `blackboard.c:94-121` |
| `HandlerReplay`, `HandlerReplayed` | `blackboard.c:123-142` |
| `HandlerRead`, `HandlerSend`, `HandlerSent` | `blackboard.c:188-235` |
| `HandlerStore`, `HandlerStoreFail` | `blackboard.c:244-264` |
| `HandlerReadError`, `HandlerLeave` | `blackboard.c:188-212` |

Abstractions. `Place` and `Start` as above, in one room. The file part of the start is in
`SharedFile`, the labels are `LabelsMatch` of `Rooms`. The table starts empty.
A line fits in the 100 bytes of `tmp` and in one read. Each thread and each line opens a connection to
MySQL that is not closed (`conns`); the one `main()` opens at a login is
ignored. A query fails when the connections run out, or for another reason (`MaxFailures`): the
line is put between quotes as it is, so that an apostrophe is enough. `Live` and
`Stored` mark whether a shown line came from the broadcast or from the
table; the client sees no difference. So a member that was placed before a broadcast, and
whose SELECT comes after the INSERT, sees the line twice, the second time after
lines that were said later. `SenderOrder` is about the whole screen: it allows this case and
no other (each of the two sequences is in order, no line is twice in one of them, and no live line
comes after the replayed copy of it, or of a later line of its author). A `write()` here does not wait for its client, which
loses no behaviour that the safety properties are about.

`ImplementsChatRoom` is `Room!Spec` of `Room == INSTANCE ChatRoom WITH record <-
chat_tb, sealed <- mutex # "free"`: what is kept is the table, and nothing more is
kept once a failure has left the mutex locked. `Speak` is
`Say`, `HandlerReplay` is `Replay`, `HandlerSend` is `Show` (or nothing, when the
socket is dead), `HandlerStore` is `Keep` and `HandlerStoreFail` is `Seal`; every other step stutters. The
promise is about what one cannot see in any single step of `Chat`: of each
author one line at most is on its way, and a screen is shown it live at most once, and never after a
later line or after the record's copy, although all the threads of the room write to it; the record is
shown from its first line on, each line once. It is not promised that a line is shown to everybody before it
is kept: `rooms_reachable` shows why. `stable` (nobody has left), `audience` (who was within
`0..count` when a line was read) and `missed` (lines on their way to the table
when a member sent its SELECT, and read before that member came) are history variables.

### RoomFile

All rooms, their `FILE`s, and the directory they share. Each `fopen()` that
succeeds appends to `streams`, and `fp[r]` is an index in it; `fname[r]` is
`None` when its first byte is 0.

| Actions | Code |
|---|---|
| `Enter`, `HandlerFresh`, `HandlerRow`, `HandlerLoad` | `blackboard.c:144-178` |
| `HandlerRead` | `blackboard.c:266-279`; `OpenFile1.cpp`, `MakeFile.cpp`, `roomDlg.cpp:262-269` |
| `HandlerEdit` | `FMmodified`, `filemodule.c:151-205` |
| `HandlerOpen`, `HandlerRefuseOpen`, `HandlerReopen`, `HandlerTransfer` | `filemodule.c:43-66`, `FileSave`, `TransFileData` |
| `HandlerCreate`, `HandlerRefuseCreate`, `HandlerAbsent`, `HandlerMake`, `HandlerInsert` | `filemodule.c:81-92`, `FMcreate` at `354-404` |
| `HandlerCompile`; `HandlerSystem`, `HandlerGcc` | `FMcompile`, `filemodule.c:254-296`: the shell makes or empties `errRedir.txt`, then gcc writes it and `a.out` |
| `HandlerErrors`, `HandlerReport`, `HandlerDiscard` | `filemodule.c:299-326` |
| `HandlerRun`, `HandlerExec`, `HandlerResult`, `HandlerClean` | `filemodule.c:329-352`: the shell empties `resRedir.txt`, `a.out` writes it, it is sent, it is removed |

Abstractions. A step is one call that another thread can see, or a few that only
it can. The behaviour ends (`status = "undefined"`) at a call on a
closed `FILE` or on NULL, which is where `fp` that was not reset leads,
and at the name without `.c` for which `strstr()` returns NULL in `FileSave`. The
edit of a member is one step and is that of a member with the right, the rest
being in `SharedFile`; members do not leave. `gcc` reads its file and writes its messages and
`a.out` in one step, does not
complain of the texts in `Compilable` and does of all others; `a.out` does its work in one step, and ends. Only `gcc` is asked for, because the client sends `8` and nothing else.
A text, a name and an output are small values. `builds` numbers what `gcc`
was given, and `outputs` has every file that a shell has made for messages, with the build that its
content is from, or `Empty`. `errRedir` and `resRedir` are the ones that have these names now, and `redir[m]`
the one that a thread, or its program, has open: a file that another thread has
removed, or that another shell has emptied, is still the one written to or read. `FileSave` writes a last line that is ended a second time
(`Copy`), because its loop tests `feof()` before `fgets()`. `Budgets`
bounds the commands of each member. `marks` is a history variable, per room: what has
happened that a property must excuse, that is two commands at once (`overlap`), a
compilation, a refused command, a failed
call, a member with descriptor 4, a file open in two rooms (`shared`), an edit
shorter than the file (`short`). Each property names the marks that it excuses
and no others: `ShownIsOpen` needs all of them, `NoStreamLeak` only
`overlap` and `four`. `mixed`, another history variable, has the members whose last build met another one, in
any room, between its first shell and its last `remove()`. Nothing can be asked of their answers: one
may find `errRedir.txt` emptied by the other's shell, take its failed build for a good one and run
an older `a.out`, or be told of the other's output. `AnswersFresh` is about the builds that meet no
other, which find in the common files whatever those before have left.

### Session

Clients, each with the connections it has opened, and `main()`. `up[k]` and
`down[k]` are the streams to and from the server: how many bytes were sent and
read, and the messages that are not read to their end, each with its kind, the
position of its first byte and the number that matters of it.

| Actions | Code |
|---|---|
| `Connect`, `RecvAcpt`, `RecvCount`, `CountTimeout` | `LightWeightBlackboardDlg.cpp:154-228` |
| `RecvLine`, `ChooseEnter`, `RecvReply`, `ChooseMake` | `EnterListDlg.cpp:44-106` |
| `SendCommand`, `RecvTold` | `roomDlg.cpp:85-111`, `113-209` |
| `Quit` | the end of the client program |
| `Accept`, `ReadLogin`, `ReadLoginFails`, `WriteLine` | `main.c:111-257` |
| `ReadMake`, `ReadEnter`, `ReadOther` | `main.c:258-380` |
| `HandlerStart`, `HandlerRead`, `Tell` | `blackboard.c:63-94`, `180-235` |

Abstractions. What one `send()` or `write()` sends arrives whole, when its sender makes the
step; a `recv()` takes what is there, and finds nothing only when it gives up, which it may do
at any time. `ReadLogin(FALSE)` is a known name with another password, for which
no count is written. Rooms do not lose members, and a failing MySQL call of a member's start or
of `4MAKE` is left to `Rooms` and `Chat`. After `FULL` the behaviour ends
(`"overrun"`), after `ROMF` the mutex stays with `main()`. A command is one byte, a
text of a length in `TextLengths`, and zeros; its text begins at offset
1, and what is read from inside it is a *phantom*: its first byte is taken
for a command. `Budgets` has the attempts, commands and failures of a behaviour, and the
sizes of the tables in it. `drained`, `swallowed`, `phantom`, `longest`, `missed`, `hasty`,
`refused` and `choice` are history variables.

## 3. What the runs check

All bounds are constants of the cfg. `MEMBER_MAX` is 16 in the code.

| Run | Instance | Shows |
|---|---|---|
| `rooms_safety` | 3 clients, 3 thread identities, 2 rooms of 2 slots, 1 failed call, 3 descriptors, 1 client gone by FIN or RST; 590 111 states | the invariants of the table, `ReuseHasCause`, `NoSlotStolen`, and the inductive invariant `IInv` |
| `rooms_liveness` | 2 clients, 2 descriptors, 3 threads, 2 rooms of 2 slots, 1 RST; 49 020 states | `SlotServed`, `LeaveCompletes` under `FairSpec` |
| `shared_handover` | 2 members, 7 messages, sockets of 9, texts of 1 and 2 characters, nobody disappears; 3 370 458 states | `RightsAccounted`, `RepliesAgree`, `Convergence`, and `IInv` |
| `shared_members` | 3 members, 3 messages, texts of 1 character, sockets of 3 messages, 1 client gone; 3 553 632 states | `TypeOK`, `IInv`, and `Convergence` with members that enter after others have edited, but not while another thread uses the `FILE`: that makes the run unclean, and so does a member that disappears |
| `shared_liveness` | 2 members, one with descriptor 4, 3 messages, sockets of 2 messages, 1 client gone; 68 965 states | `CommandsHandled` under `FairSpec` |
| `chat_safety` | 3 members, 2 lines by one or two of them, 4 connections to MySQL, 1 failed query, 1 client gone; 527 803 states | `LogIsPrefix`, `SenderOrder`, `NoLineLost`, the refinement `ImplementsChatRoom`, and `IInv` |
| `file_safety` | 2 members in one room, 1 of them with descriptor 4, and 1 in another; 4 names, 2 texts; 3 commands by two members of one room, or one command in each room; 1 failed call; 1 688 066 states | `FileMatchesName`, `NoStreamLeak`, `BackupCurrent`, `ShownIsOpen`, `AnswersFresh`, `UndefinedHasCause`, and `IInv` |
| `session_dialogs` | 2 clients, 1 or 2 rooms of 1 or 2 places, a backlog of 2; two commands, or one message to a member, or two attempts to log in, or one failed login; 518 032 states | `InRoomIsPlaced`, `PhantomsAreLong`, `ClientInStep`, `InStepOnceDrained`, `IInv`, and `WaitingIsServed` under `FairSpec` |

Why the bounds are enough for what they ask. The races are between two actors
(two threads of a room, two `room_handler`s, `main()` and a thread), and three
clients add a bystander that can suffer from them. Three clients on three descriptors, of which one that is
closed may be returned, are the fewest in which a thread that lost its client meets another one. Two
messages in a socket are fewer than three, so that a `write()` in `shared_liveness` waits; in the other runs
of `SharedFile` the sockets are large enough for what is sent, because a wait adds no behaviour to a safety property. Two rooms are the fewest
that can be confused, and two slots the fewest of which a middle
one can be left or overrun. Seven messages are the fewest in which an edit crosses another
member's text and is not dropped (one member requests, releases, requests again and types before
the answers come; the other requests, types and releases in between); two lines of one author are the fewest
with an order or a hole. In `chat_safety` the three SELECTs and two INSERTs
need one connection more than there are, so that both kinds of query meet the
limit. In `file_safety` members ask to open `new.c` and `notes` and to
create `new.c`, in both rooms: `new.c` is not there until somebody creates it, so that opening it is refused before that and creating it after, and
`notes` is there and has no `.c`; of the texts one ends with a line end and compiles, the other does
neither and is shorter. Three commands open, change and close a file, or overlap and
then show what the overlap left. In `session_dialogs` the texts have 117
and 128 characters: the last length of which no read begins inside the text of the first
command after a choice (10 bytes that were left and 118 of the command come first), and the
first of which one does when the stream is in step. One failure and one death are enough for any single cause; the proofs have no bound.

Symmetry is used in safety runs only, over members (and clients and
threads), which no definition tells apart; not in `file_safety` and
`session_dialogs`, whose budgets tell them apart. Deadlock is not checked: a behaviour may
end, with all clients idle, after the bounds are used up or the process has died.

Fairness (`FairSpec`): weak fairness of each thread, that is of `main()`, of
each `room_handler` and of each `socket_handler`, for the steps that wait for
nobody outside the server. The kernel's scheduler runs every runnable thread,
and that is all it says: no client is obliged to speak, to choose, to read or to die, and
no failure is obliged to happen. The threads compete for a mutex that is not
fair, but in the liveness runs the number of times it is taken is
bounded, so that weak fairness is enough. `rooms_liveness` has no failing call: a leaked mutex stops everybody,
which `MutexLeakHasCause` is about. In `Session` only `main()` is fair
(`WF_vars(MainRuns)`), and `WaitingIsServed` relies on no client: `main()` reads
the end of a connection whose program has gone, and so comes back to the queue.

A `write()` waits for the client it writes to, which fairness of the threads says nothing
about. `CommandsHandled` therefore has a premise, that each member goes on reading (`Reading`: its buffers are not
full for ever), and needs it of *all* members: a thread that broadcasts waits for any of them. The premise is no
fairness condition on the clients, and TLC checks the property also in behaviours in which it fails, where it
claims nothing. The commands are those on the file; a line of chat also waits for the mutex, which may be leaked. A
member whose thread has returned after a failed query (`hpc = "failed"`) is excused. In `Rooms` a `write()` does not
wait, and `SlotServed` and `LeaveCompletes` assume that the clients read.

### Where the code and its documents disagree

Each of these runs checks one property that a document or a comment
states, and TLC finds a counterexample.

| Run | What happens |
|---|---|
| `rooms_reachable` | The member of slot 0 of two leaves, the count drops to 0, and broadcasts miss slot 1 |
| `rooms_death` | A client that ends by a FIN is never noticed: `read()` returns 0 for ever |
| `shared_collision` | Both requests find the room's flag down; both members get the right |
| `file_closed` | `FM_OPEN` of a file that is not there, or a compilation, closes the room's `FILE` and leaves `fp` |

More of them were met while modelling, and are in the models without a run:

- of two rooms made in quick succession the first may have no thread: both
  `room_handler`s read the later `room_count` (`main.c:317`; `RoomStart`);
- after `FULL`, `main()` still writes `NOTF` and stores the client one place
  beyond the table (`main.c:341`; `EnterReply`, `EnterPlace`);
- two threads can read the same `Info` record and serve the same client (`blackboard.c:51`, `69`);
- a thread that copied half of a rewritten `Info` serves one client and labels its lines with the id
  of another (`blackboard.c:228`; `torn`);
- of two threads of one client the first to leave closes the descriptor, and `accept()` may return it for a client
  of another room, whom the second one then reads and serves, in its own room; so does a slot that was
  not emptied when its descriptor was closed (`blackboard.c:204`; `reused`);
- one member that does not read what it is sent blocks every thread that writes to it, and with them the
  other members of the room (`filemodule.c:196`, `blackboard.c:231`; `Full`);
- a thread whose query fails returns and leaves its member in the room, whose messages nobody reads
  (`blackboard.c:108`; `HandlerInitFail`);
- after a failed call, `main()` waits for the mutex that it holds itself (`main.c:280`);
- the right of a holder whose connection breaks is never given back (`blackboard.c:200`; `HandlerLeave`);
- a member that enters during an edit can keep a text that is not the file's (`filemodule.c:194`; `HandlerBroadcast`);
- an edit typed between a release and its answer is thrown away in silence (`filemodule.c:158`; `HandlerDrop`);
- a member that releases, requests again and types before the answers come is left with another
  member's older text in its own box (`filemodule.c:194`; `Crossing`);
- a client that gets descriptor 4 empties the room's file (`blackboard.c:145`; `HandlerOpen`);
- an edit shorter than the file leaves the file's tail (`filemodule.c:201`; `HandlerPut`);
- a member that enters between the broadcast of a line and its INSERT does not see that line (`missed`);
- a member that is placed before the broadcast of a line and sends its SELECT after the INSERT sees the line twice, the second
  time out of order (`blackboard.c:218`, `124-139`; `SenderOrder`);
- `FMcreate` stores the path of the file that was open before, under which
  README.md:32 of the repository would find it again (`filemodule.c:376`; `HandlerInsert`);
- a backup repeats the last line of a file whose last line is ended (`filemodule.c:482`; `Copy`);
- two compilations, also of different rooms, mix their outputs, and one can open a file that
  the other has removed (`filemodule.c:299`; `HandlerErrors`);
- the shell of a compilation empties `errRedir.txt` before its gcc writes it; another thread, whose build failed, can read
  it in between, find no error and run the `a.out` of an older build, of any room, and the same holds of
  `resRedir.txt` (`filemodule.c:299-331`; `HandlerSystem`, `HandlerRun`);
- the file of a name without `.c` cannot be closed: `strstr()` returns NULL (`filemodule.c:456`; `CanSave`);
- a choice has 16 bytes and `main()` reads 6: the other 10 make the thread's first
  reads end in the middle of commands (`EnterListDlg.cpp:79`, `main.c:260`; `HandlerRead`);
- from 128 characters on, the text of an edit is read as commands (`blackboard.c:192`; `InsideText`);
- a connection that a running client has given up blocks `main()`, and with it every
  later login, until that client ends (`main.c:129`; `ReadLogin`);
- a wrong password gets no count, but the list of rooms follows, and a client takes its first
  line for a count of 0 (`main.c:204-257`; `RecvCount`);
- the client connects to port 42196 and the server listens at `PORT`, 42195 (`blackboard.h`).

## 4. What is proved

The five proof modules are checked by TLAPS for every number of clients, threads, rooms,
slots, messages, lines, files, texts, connections, commands and failures. They assume what the
modules' ASSUMEs say: the sentinel `None` is no client, connection or name, the bounds are
naturals, `MEMBER_MAX` is positive, and in `SharedFile` and `Chat` the set of members is finite;
texts and the files found on the disk are sequences of characters, no two rooms have the same
file of their own, and a command has a text of at most 1022 characters (its buffer has 1024 bytes).
Each module proves `Spec => []IInv` from `Init => IInv` and `IInv /\ [Next]_vars => IInv'`, one
lemma per part of `IInv` or per action, and then each property from `IInv`.

`RoomsProofs`:

| Theorem | Says |
|---|---|
| `TypeCorrect` | the variables keep to their types; a stored `roomnum` indexes `rooms[]` |
| `MutexLeaks` | the mutex is held outside a critical section only after a failed call or a room too many |
| `RoomsInOrder` | the open rooms are `0..room_count` |
| `Dense`, `SlotsKept` | while departures are last-in first-out: no gap, no slot taken |
| `Labels` | then also: a line is labelled with the id of the client it was read from, but for torn threads and reused descriptors |
| `RoomsIsolated` | whatever the races, no thread serves a client of another room, but through a reused descriptor |
| `ReuseCaused` | a descriptor is returned while in use only after a torn `Info`, or when two `room_handler`s watch one room |

The properties are not inductive by themselves. `IInv` adds who owns the mutex
at each pc (`MutexOwned`), which rooms are open inside each of `main()`'s
critical sections (`Opened`), that a `room_handler` and the threads it creates
exist only for open rooms (`Watched`), that nothing refers to the descriptor of a client not yet placed
(`Unplaced`), and that an `Info` that a thread will read holds a client of
its own room (`InfoFromRoom`). The last two carry `RoomsIsolated`: a thread may
copy the wrong slot of `Info`, but every value the record ever has is a client
of that room, and a client is placed once. For `Labels` the table has at each slot the id of the client behind its
descriptor (`IdsFollow`, which the density of the table gives, since a thread that leaves erases the id of slot `count`), and a thread that
copied its own `Info` still has its client in the slot it took it from (`SlotHeld`). `ReuseCaused` needs the most: while no
`Info` is torn and no two `room_handler`s watch one room (`Calm`), every thread has a slot and a descriptor of its own,
that slot bears its `tid`, no other slot and no other thread has the descriptor, and no slot has a free one (`SoleOwners`). So what
`HandlerLeave` closes is referred to by the slot it empties, and by nothing else. This holds without `orderly`: it is
the `tid` of a slot, and not its place in `0..count`, that keeps a second thread away.

`SharedFileProofs`:

| Theorem | Says |
|---|---|
| `TypeCorrect` | types; the offset stays within the file and the count never falls below -1 |
| `RightsKept` | the room's flag is not up without somebody who got the right, nor down, in a clean run, under its holder |
| `RepliesKept` | an edit box whose owner has read its replies is open exactly when its thread holds the right |
| `TextsConverge` | in a clean run, once all messages are handled, every edit box but those of `adrift` shows the file |

`IInv` adds that the count is the number of members present (`Counted`, with
the theorems on cardinalities), that a thread gives back only a right it holds and
writes verdicts only from `FMrights` (`Underway`), and that `clean` implies
`Undisturbed`. `RepliesKept` holds also when grants overlap; its heart is how
the last verdict of a sequence of messages changes when one is appended or read
(`OpenAfterAppend`, `OpenAfterReceive`).

`TextsConverge` follows the last text under way to each member. What a member sees, once it has
read its messages, is the edit of a broadcast that has reached it, and otherwise the file
(`TextsFollow`, `SeesLatest`): a `write()` of the loop, the `fputs` and the answer to a member that
enters each preserve it, because in a clean run only one thread uses the `FILE` (`FileInUse`), the
file is not emptied, and a member that has its slot is within the loop (`Seated`). A member whose
own edit is still in its `outbox` sees what it typed last (`EditsFollow`). The invariant could not be
proved of an earlier `Convergence`, which excused only dropped edits: an edit typed before the
answers to a release and a second request can cross another member's text and be accepted. TLC
shows it with seven messages, and the run had five. `adrift` records the members to which this
happens, and a dropped edit now makes no run unclean: `RightsAccounted` says more than it did.

`ChatProofs`:

| Theorem | Says |
|---|---|
| `TypeCorrect` | types; the count never falls below -1 |
| `LogKept` | the table has, of each author, the first lines it said, in order and without a hole |
| `OrderKept` | the lines of an author reach every screen in order, live and by the replay; a line comes twice only as the replay of one shown live |
| `LinesKept` | while nobody leaves, a member that was sent the log lacks only lines that were on their way when it came |
| `Implementation` | `Spec => ImplementsChatRoom`: the refinement |

`IInv` says where every line of an author is. Those still in its outbox follow
`buf`, the last that was read (`LinesInOrder`); all those before it are in the table,
save one if a failure has left the mutex locked (`HeardIsKept`): this makes the
table a prefix, since a thread stores only the line it holds. A line that is being sent is on screens
of visited slots only, and no screen has a line that was not read
(`ScreensBehindLoop`, with `Placed`: a client has one slot): this makes a second or an early live copy
impossible, whatever the count does to the loop. `ReplayInOrder` says
that what a thread still has of its SELECT is what follows, in the table, what it has sent, and `ReplayedIsKept` that
what was replayed is in the table: a line that is on its way is not, so that no live line comes after its copy.
For `NoLineLost` a line on its way is on the screen of all its audience, or
will be visited (`UnderwayReaches`), and a line of the table is on the screen,
missed, or among those about to be replayed (`KeptReaches`); both need that the slots of those present are
within the count while nobody has left (`StableInReach`). The lemmas on
counting (`CountAppend` and those after it) say what one more line does to
`Kept` and `Replayed`; `RoomStep` maps each step to a step of `ChatRoom` or to none.

`RoomFileProofs`:

| Theorem | Says |
|---|---|
| `TypeCorrect` | types; `fp` is NULL or a `FILE` that was opened for its own room |
| `FileKept` | between commands the open `FILE` is the file that `fname` names, unless two commands overlapped or a call failed |
| `StreamsKept` | between commands no `FILE` is open but those `fp` points to, also after the error paths |
| `BackupKept` | a file that was open and is so no more has its last text in `BACKUP/`, under its own name |
| `ScreensKept` | between commands every edit box has the text of the open file |
| `AnswersKept` | who compiles, and meets no other compilation, is told of its own build, whatever those before have left |
| `CausesKnown` | successful commands, one at a time, never make a call on a `FILE` that is closed or NULL |

Each excuses the marks that its property names. `IInv` says, for each pc inside a command, what
the code has done so far: `ClosedBetween` (the old `FILE` is closed, the new one is not open),
`NameMatches` (`fname` is right but for the steps of a create between its `fopen()` and its end),
`FileReady` (once a member is in, `fp` points to an open `FILE`, but for those steps). The difficulty
is that a cause may come late: two commands overlap only when the second one arrives, at any pc of the
first, and each part has to hold up to that point. `OneAtATime` (without the mark no other
thread of the room is busy) reduces every step to that of a single command. `BackedUp` is about all rooms at once, because two rooms can have one file
open; `OneStream` makes the `FILE` that a command closes the last one on that name,
so that what `FileSave` copied is what the disk then has, and `SharedIsMarked` lets `ShownFollows` say that nobody else writes the file
a room shows. `BuildsApart` follows a build that has met no other from its shell to its last `remove()`: it is the only one, and
after each step the common files are as that step has left them, `errRedir.txt` empty or from this build, `a.out` from this build if it
compiles. Nothing is assumed of the files before: the shell empties what it finds. `BuildsUnderway` says of every build, mixed or not, that the
file it writes or reads exists, and that its client has been told nothing yet. That `mixed` catches every
meeting is in the step of a new shell (`NewBuild`), which adds all that are building.

`SessionProofs`:

| Theorem | Says |
|---|---|
| `TypeCorrect` | types; neither side reads a message beyond its end |
| `PlacesKept` | a client that sees the room is a member of one once its choice has been read, whatever it took for a count or an answer |
| `PhantomsBounded` | text is taken for a command only from its 128th character on, or its 118th of a client that entered |
| `ReadsInStep` | a client none of whose reads gave up, and whose login was answered with a count, stays in step with the server |
| `CommandsKept` | once its thread has emptied the stream no command is swallowed, and none ever of a client that made its room |

`IInv` says where every message of a stream begins. Upwards the login is at 0, the choice at 33 and the
commands follow in steps of 1024 (`UpOK`), and until `main()` has read the choice it is
there whole, and names a room that is still open (`ChoiceOK`). So the thread
begins its reads where the commands begin, or ten bytes before if the client
entered, and goes on in steps of 128, which divides 1024: it is in step, or ten bytes early until a
read finds less than it asks for and ends where the last command does (`HandlerOK`). Which bytes of a command can come first in
a read follows from that: `StepsApart`, on multiples of 128, gives `PhantomsAreLong` and
`InStepOnceDrained`. Downwards `CurrentOK` says what
`main()` has written to its client at each pc, `LeftOK` that nothing came after
`ACPT` if `main()` left early, and `CalmOK` what a client that lost
patience nowhere has read of it, to the byte. `ServedOK` holds of a client
that is impatient too: `main()` drops a connection that still has a client only when MySQL
has failed or the rooms ran out, because the choice it reads is one that it can
serve. `ListedOK`, the list of a client is never longer than the
table, is what makes it so.

The proof of `CalmOK` found an error of an earlier version of the model, in which `RecvCount` reset
the list of every client and not only of its own; TLC had not seen it, because no
property it checked could tell.

Only model-checked: the liveness properties (`SlotServed`, `LeaveCompletes`, `CommandsHandled`,
`WaitingIsServed`), because the prover has no rule for fairness and ENABLED. Every invariant that
a passing run checks is also a theorem.

## 5. Not modelled

- Dead code: `FM_CLOSE` and `FM_RECOVER` have the values of `FM_RIGHTS` and
  `FM_MODIFIED` (`blackboard.h:36,39`), which `FileModule` tests first;
  `SendMassage` and `printBackup` are called only from there.
- Start-up, shutdown (`signal_handler`), the console output and the Makefile: sequential, one path.
- The MFC shell and `listDlg.cpp`: generated code, and a dialog that nothing opens. Of the
  room dialog, how the list boxes lay out lines, and the suspension of the
  receiving thread by Cancel (part of one dialog's shutdown).
- What a compiled program does, other than to end, and `make`, which no client can ask for.
- Names, passwords and SQL as text: a query succeeds or fails.

## 6. Plan

Done: `Rooms`, `SharedFile`, `Chat` with `ChatRoom` and the refinement, `RoomFile`, `Session`,
each with its inductive invariant and its theorems. Left, most important first:

1. An abstract document with a single writer that `SharedFile` implements in clean runs.
2. Liveness of `Chat`: every line of a connected member is stored, unless the mutex leaks.
3. Members that leave in `RoomFile`, with the `FILE` that stays open.
