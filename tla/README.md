# UDP-Server-With-Flatbuffers: verification in TLA+

This directory models the server and the client of the repository in TLA+,
checks them with TLC on small instances and proves the properties that matter most with
TLAPS for every value of the constants. `PROJECT.json` maps each definition to the lines
it translates and lists the runs, the mutants, the hazards and the theorems.

    tlc -workers 2 -config account.cfg MCAccount.tla    # one run
    tlapm AccountProofs.tla                             # one module of proofs

## 1. The system

A social network in miniature: accounts, friends, posts and chat, over UDP datagrams that
carry flatbuffers. One server process, any number of client processes with a text menu.

| part | source | state it keeps | operations | talks to |
|---|---|---|---|---|
| session store | `server/Session.cpp` | three maps: token -> values, user -> latest token, address key -> address | `NewSession`, `RemoveSession`, lookups | called by every handler |
| account service | `server/Account.cpp` | ptree of accounts (with friends), pending friend requests (memory only), account file | nine `/account` routes, load, save | session store; posts read the nickname |
| message service | `server/Message.cpp` | members, type of each channel, a mailbox per user and channel (all memory only) | six `/message` routes | session store |
| post service | `server/Post.cpp` | ptree of posts with comments, `lastPostId`, post file | nine `/post` routes, load, save | session store, accounts |
| router | `server/Router.cpp` | tree of handlers | register, look up a path | receive loop -> handlers |
| server process | `server/Main.cpp` | socket, running flag, list of finalizers | `select`/`recvfrom` loop, signal handlers, `DoFinalize` | router, the services' save functions |
| client transport | `Utils.cpp` (`ClientSendAndRead`) | one call: counter, descriptor sets | write, wait, call back | every screen, the network |
| client screens | `client/{Account,Post,Message}.cpp` | token, user, position in the posts, lists, locals | forms, walks over ids, lists to choose from | transport |
| message window | `client/Message.cpp` (`handleMsgMainWindow`) | descriptor set, open files by name | poll, put a line, send and receive files | transport, socket |
| client context | `client/Context.cpp`, `client/Main.cpp` | current screen, what screens leave for each other | menus, navigation loop | screens |
| schemas | `flatbuffers/` | none | interface definitions, generated code | both sides |

*How they interact.* A client screen builds a packet and calls `ClientSendAndRead`; the
server's loop reads one datagram, verifies it, routes it and runs one handler to its end,
which sends at most one datagram back, before it reads the next. A packet that the outer
verifier refuses, or whose path has no handler, gets no answer. Handlers share the state
of the services as process-wide maps, with no locks, which one thread does not need. The
only asynchrony inside the server is the signal handler, which runs the finalizers (post
file, account file, socket) itself.

*What is hard.*

- **Order.** Which request comes next, from whom, with which token (of a closed session,
  of an earlier process) is arbitrary; UDP loses, copies, delays and reorders, and no
  handler recognizes a repeated request.
- **Restarts.** Sessions, pending requests, channels and mailboxes are in memory only;
  accounts, friends and posts are written when the process is *told* to stop. After a
  restart old and new state meet. A crash loses everything since the start; a crash while
  `write_json` runs leaves a file that loads as an empty tree.
- **State changed in place.** Friendship is two nodes in two trees; the list of granted
  users is edited node by node; `operator[]` creates entries on lookup.
- **Timeouts.** A call that timed out may have been executed, and its answer may be read
  by the next call.
- **Two ways to use one socket.** The message window polls without waiting for the answers
  and puts lines through `ClientSendAndRead`, which takes whatever comes next.
- **Globals between screens.** The user, the position in the posts and the lists to choose
  from outlive the screens that set them, the answers they come from, and the logout.
- **Signals.** The handler runs the finalizers at any step of the loop, of a handler, of the
  startup, and of itself.

*What makes each part correct.*

- Session store: a token is alive from its login to its logout, belongs to one user for
  good, is never given out twice; the index names the newest session.
- Accounts: a friendship is mutual and made by both sides; a name belongs to whoever
  registered it; nothing refers to an account that is not there; the file is an earlier
  state of the memory.
- Messages: each member of a channel gets what was put while he was in, in order, once;
  nobody but himself changes his membership; a type is for good.
- Posts: an id names one post; comments are numbered without gaps; only the poster changes
  a post; only those who were named read a post that is not open.
- Transport: a callback per call, no repeated execution, an end of every call.
- Process: what was answered is in the files after a stop; a signal ends it.
- Router: who registered a path is called for it, whatever slashes are around it.
- Message window: each message is shown once, in order, in its channel, or its loss can be
  named; a file that is done is the file that was sent.
- Screens: a request carries what its user was shown; whoever wants to leave gets out.

## 2. Modules

| module | models | extends / instantiates |
|---|---|---|
| `Session` | session store | |
| `SessionProofs` | its theorems | `Session`, `TLAPS` |
| `Account` | account service, its file, the end and the start of the process | `Session` |
| `AccountProofs` | its theorems | `Account`, `SessionProofs` |
| `ChannelLog` | abstract: what the message service promises | |
| `Message` | message service | `Session`; `Service == INSTANCE ChannelLog` |
| `MessageProofs` | its theorems, with the refinement of `ChannelLog` | `Message`, `SessionProofs` |
| `Post` | post service, its file, the end and the start of the process | `Session` |
| `PostProofs` | its theorems | `Post`, `SessionProofs` |
| `Transport` | `ClientSendAndRead`, the network, the server's loop | |
| `Lifecycle` | startup, loop, signal handler and finalizers, step by step | |
| `Social` | both services that have files, on shared sessions | `Session`; `A == INSTANCE Account`, `P == INSTANCE Post` |
| `Router` | registering paths and looking them up | |
| `ServerProofs` | theorems about the process, the services together, the router | `Lifecycle`, `Social`, `Router`; `AP == INSTANCE AccountProofs`, `PP == INSTANCE PostProofs` |
| `MessageWindow` | the client's message window, the network, the mailbox | |
| `MessageWindowProofs` | its theorems | `MessageWindow`, `TLAPS` |
| `FileTransfer` | `@sendfile`, from the sender to the reader's files | |
| `NetworkProofs` | theorems about calls and about files | `Transport`, `FileTransfer`, `TLAPS` |
| `Screens` | the screen loop, all screens, the board of posts they look at | |
| `ScreensProofs` | its theorems | `Screens`, `TLAPS` |
| `MC...` | constants, symmetries and inputs for TLC | the module of that name |

### How the models correspond to the code

**One handler, one step.** The server is one thread that finishes a handler, all its calls
included, before it reads the next datagram, so each handler is one action; its early
returns and `catch` blocks are the disjuncts of the action, in the order of the code.
Requests are arbitrary: any token ever drawn or not yet drawn, any user, in any order.
That covers loss, duplication, reordering and delay of requests *as the server sees them*;
what clients make of it is the matter of `Transport`.

**Time and texts.** Names, passwords, texts and uuids are only compared for equality (or,
in the search, by `find`, which is the constant relation `Finds`), so they are model
values. A uuid is the number of its draw; `boost::uuids::random_generator` is taken to
repeat none. `handleRegister` and `handleLogin` draw two, one for the token and one for the
key of the address. Timestamps, formatting, and the copy of the poster's nickname and
address in a post are left out: they are only shown. Names with `/`, which a property tree
would take for a path, are not enumerated. The empty name is nobody's account, but
`/friend/add` takes it (`Addressees`): `get_child` of an empty path is the root of the tree and
does not throw (`server/Account.cpp:380`). The client sends it once `std::cin` has failed
(`client/Account.cpp:362-371`).

**Payloads.** A payload that its verifier refuses is the action `PayloadInvalid`. The
others have every field set, as the client builds them. Every handler of `Message` and `Post`
looks at the token before the rest of the payload, so for a dead token one payload of each
kind is enumerated (`Inputs`), and in `Post` one dead token (`Tokens`); the reachable states are the same as with all of them.

**`Session`.** `SessionValueMap`, `SessionHashUserMap` and `SessionClientAddrMap` are the
maps of those names; "key not found" is `NoSession`, `NoUuid`, `NoAddr`. `drawn` counts the
uuids. `ForgetSessions` is the end of the process.

**`Account`.** `AccountProfiles` and `Friends` are the two halves of a user's subtree.
`Friends[u][v]` is a *number*: `add` appends a child even if there is one of that name, so
friends who befriend each other again have two entries. `PendingFriendRequests` is the map
of that name. `accountFile` is what `loadAccountFile` would make of the file.
`StopAndRestart`, `CrashAndRestart` and `CrashInWriteAndRestart` are a signal followed by a
clean save, a kill, and a kill during the save, each with the next start. `asks` (history)
counts the calls of `/friend/add` answered OK whose addressee can answer. A request to the empty name
waits in `PendingFriendRequests` until the process ends. `response` is the last answer and the token
it was for, so that properties can say on whose behalf a step was taken.

**`Message`.** `ChannelIds` are the keys of `ChannelMemberMap`, which differ from the
channels with members: `operator[]` makes a key. `ChannelTypeMap` and `UserMailBoxes` are
the maps of those names; a missing mailbox and an empty one are answered alike. A message is
its sender and the number of its PUT. `log` and `read` are history variables: the PUTs to
each channel with the members at that moment, and the number of the message each user got last
from it. A
`LoginOrRegister` opens a session of any user: that a password is needed for it is checked
in `Account`. This holds for `Post` too.

**`Post`.** `Posts` is the ptree: a post with its mask (a set of bits), the sequence of
`granted` nodes, likes, and its comments by number. `GrantedAfter` is what `put` on the
first node and `add` for the others make of an old list. `named` (history) collects the
users of all accepted lists for an id. `Permission` is the client's menu: one bit at a time,
a user list with `POSTER_DEFINED` only. `/post/edit/perm` is modelled as it is: *any*
session may call it for any post.

**`Transport`.** A call is one execution of `ClientSendAndRead`: `Write` (or `WriteFails`),
then the loop: `Timeout` for a `select` that finds nothing or is interrupted, `Read` for a
datagram, `Abort` for a failed system call, `GiveUp` after `RESEND_THRESHOLD_NUM` rounds.
The function is left at five places: a failed
write, a failed `select`, a failed `read`, an answer, or a counter at its limit. `requests` and `answers`
count the copies of datagrams that are on their way or in the socket buffer. `executed`,
`duplicated` and `results` are history. Datagrams carry the number of their
call only for the properties: `Read` takes any, as the code does, for nothing in a packet
says which request it answers. `Serve` is the server's loop with a handler that answers;
`Ignore` one without an answer, which to the client looks like a lost request. The network
copies a datagram at most once per call.

**`Lifecycle`.** `pc` is where `main` is: the steps of the startup, then the loop with `FD_SET`,
`select`, `FD_ISSET`, `recvfrom`, and a request handler of two writes and an answer, as the
two `add` of a confirmation (`server/Account.cpp:395`) or the counter and the post
(`server/Post.cpp:109`, `130`). `frames` is the stack of running signal handlers, each with its
place in the list of finalizers, since `SIGINT` may interrupt the handler of `SIGTERM`. The list
is built as the code builds it: `AddFinalizeCallback` puts in front, so that posts are saved
before accounts and the socket is closed last, and `terminated` is pushed to the end. `select`
keeps in `watched` whether the socket was in the set it was given. A save is two steps,
truncate and write.

**`Social`.** `Account` and `Post` as they are, on the sessions of one `Session`; a request goes
to one of them, `StopServices` saves both, `KillServices` neither, and `KillInStop` is a stop that is
cut short while one of the files is written; `halfSaved` (history) says that the post file was
written and the account file was not.

**`Router`.** A path is a sequence over `/` and one-character names. A tree is a function from
the paths of its nodes to handlers: the property tree splits a path at every separator, so that
distinct paths are distinct nodes, and what is below a node are the paths that go on with `/`.
`Through` are the nodes `reduce` leads through, and `Forced` makes them, without a handler, as
`force_path` does. `put_child` puts the nodes of the other tree under a path (`Under`) and takes away
what was there (`Below`). `routes` (history) is what callers mean: segments without slashes.

**`MessageWindow`.** One window of one user with the network and his mailbox. `Poll` writes a GET
and goes on; `EnterLine` starts a PUT, which `PutRead` ends with *any* answer; `Receive` is the
second half of a turn, with the descriptor set from before the PUT. After an empty line
(`EnterEmptyLine`) the window is in a second `getline` (`client/Message.cpp:538-544`): in screen
`again` it neither polls nor receives, and only the user gets it out, by a line or `@quit`. An
answer has a status, and a list, or `NoList` for the `GeneralResponse` that passes the verifier of a
GET's answer. `shown`, `dropped`, `swallowed`, `ran`, `outcome` and `clean` are history, as is the
PUT a datagram belongs to. Other members put messages in one step (`OtherPuts`). `ReadElsewhere` is
a screen that reads what the window has left; the reverse, a late answer to a screen's call that the
window reads, is not modelled.

**`FileTransfer`.** One channel and one reader. A chunk is the send it belongs to, a name and a
number. A PUT waits for *an* answer, so chunks of a send arrive in order but for faults, which are
counted: lost, executed twice, executed late, answers that overtake each other. `TransferFdMap` is the
map of that name with the contents of the open files. The window is not the only one who reads the
reader's socket: the PUT of his own line (`client/Message.cpp:588`) and, after `@quit` (`552`), the
calls of other screens take the first answer and drop what is in it. `Swallow` is that step; it is
no fault and is not bounded. `Restart` is a window that crashes, or a client that is ended, with
files open. `taken` (history) are the sends of which the reader has dropped something in one of these
ways.

**`Screens`.** `screen` is the variable of `main`; a step is one call of a screen's handler, with
any key or entry of the user and any answer of the server. Each request gets its own answer, no
answer, or is executed twice (`faults`); what is taken for whose answer is the matter of
`Transport`. The board is the server's posts as these screens can tell: poster, open or not,
number of comments; other clients change it between any two steps. `leaving` is the user's mind:
from `DecideToLeave` on he picks, of the keys a menu takes, the one that leads back or out.
Menus and forms without state of their own are one action each (`PressKey`, `FillIn`). A name of
a group that is taken is an action of its own (`GroupNameTaken`): the server answers with a
`GeneralResponse` (`server/Message.cpp:99`), the form reads a `CreateChannelResponse`
(`client/Message.cpp:136-140`), whose status is then OK by default and whose `channel_id()` is null;
the screen is `CRASHED`, as after a crash in the message window. Only a dead
session is answered with the response the form expects (`ErrorIsRead`).

**`ChannelLog`.** Written from what `handlePutMessage` and `handleGetMessage` promise
together, not from their data structures: one log per channel, one cursor per reader. A log is a
set of messages numbered in the order of the PUTs, and a cursor is the number of the message
handed out last: what a reader has still to get is then a subset of the log, with no recursion
over a sequence, and `Get` hands out its least element.

## 3. The runs

All bounds are CONSTANTS in the `.cfg` files; bounded actions are disabled beyond them,
which is why deadlock is not checked (a bounded run stops for lack of uuids, requests or
registrations, a process ends, and a user may stop).

| run | question | instance | shows |
|---|---|---|---|
| `account` | whose are names, friends and sessions, through requests that cross and restarts? | 2 users and the empty name, 2 sessions, 2 passwords and the empty one, 2 accepted asks per direction | `FriendshipSymmetric`, `FriendshipNeedsBothSides`, `NoDanglingUsers`, `IndexIsNewest`, `NameKeepsPassword` |
| `message` | who is in a channel, and do the mailboxes implement the log? | 2 users, 2 sessions, 1 group, 1 private channel, 2 messages | `MailboxIsUnread`, `MembershipIsOwn`, `TypeIsForGood`, the refinement `ImplementsChannelLog` |
| `post` | does a number name one post, who changes it, who may read it? | 2 posts, 2 users, 2 texts, 2 masks, every list of up to 2 names | `IdNamesOnePost`, `IdsAreNotReused`, `OnlyPosterChanges`, `ReadersWereNamed` |
| `social` | has a poster an account, and do comments stay, beside the account service? | 2 users, 4 uuids, 2 posts, 2 comments, likes, both files | `PostersHaveAccounts`, `CommentsStay` |
| `transport` | what does a caller get, and does he get it? | 3 calls, threshold 3, 2 copies | `CallbackOnce`, `RunsAtMostOnce`, `OwnAnswerUntilFailure`, `CallEnds` |
| `lifecycle` | what does a stop leave in the files, whenever the signal comes, and does it end? | 3 requests, 2 signals, 1 kill, 2 starts | `AnsweredIsSaved`, `StopLosesOnlyInterrupted`, `PostsHavePosters`, `EndsUnlessAsleep` |
| `router` | does lookup find what was registered, and nothing else? | 2 routers, 2 handlers, 2 names, paths of 2 segments, requests of 3 characters, 3 registrations | `RegisteredIsFound`, `OnlyRegisteredRuns` |
| `window` | where does each message end, what is the user told, does polling empty the mailbox? | 2 channels, 2 messages, 1 line, empty lines, 2 datagrams on the way, 1 lost, swapped or a restart | `EachMessageOnce`, `ShownInOrder`, `ShownInItsChannel`, `SilentMeansRan`, `TroubleHasCause`, `MessagesLeaveMailbox` |
| `window_crash` | can the window read what is not there? | 1 channel, 1 message, 1 line, no faults | `WindowSurvives` is violated |
| `transfer` | what do faults, and the reader's own calls, make of files? | 2 senders with a send each, 2 names, files of 2 chunks, 2 faults, dropped answers and restarts in any number | `ReceivedIsWhole`, `OnlyLostEndsMix` |
| `screens` | whose lists and sessions are used, and does a user who wants to leave get out? | 2 users, lists of 1 and 2, 2 faults, 1 restart | `ListIsOwn`, `SessionLeftNeedsFault`, `LeaverGetsOut` |
| `screens_posts` | whose posts and comments are walked and edited, and does a walk end? | 2 users, 2 posts, 1 comment each, 1 fault, 1 restart | `PositionInRange`, `EditIsOwn`, `CommentsOfThisPost`, `LeaverGetsOut` |

*Why these bounds are enough.* Two sessions can belong to one user (they overlap) or to two (they
cross). Two users are all that a friendship, a reader and a writer, or a poster and a visitor
involve; what a third user could add to the proved properties the proofs cover. Two accepted asks
per direction let a friendship be made, asked for again and confirmed again. Two post ids allow
removing the newest, going on, and falling back to a file in between. `MaxGranted` is 2 in
`post` and every edit that stays within it is enumerated, so lists grow, are replaced at the
head, and stay when an empty one comes, under the mask that uses them and under the other one. Two
texts tell an edit from a removal. Three calls let an
answer be late by more than one call. Two messages let a reader be a member for the one and not for
the other. Two nested signals cover a handler interrupted by another, and two starts the files of
one run read by the next. In the window, a line and a poll on the way at a time are what it takes to
mix up their answers, two channels to read the answer of the one in the other, and two messages to
have an order. Two senders and two names are what it takes to mix files; a third fault repeats the
second. On the board, two posts have a first and a last to walk between, and a restart that empties
the board gives their numbers out again; a post with a comment and one without differ in their
limits. `MainKeys` names the keys pressed at the main menu, so that `screens_posts` keeps to the
post screens; each screen is walked in one of the two runs, and nothing in a list screen touches a
variable of the post screens. Two routers are one that is put into another, before or after it got
its handlers; three registrations allow a path to be replaced or covered.

*Symmetry* is used for users and passwords where only safety is checked, where the code
compares them only for equality, and where no constant of the instance tells the permuted
values apart. The runs with a liveness property use none.

*Views.* `MCView` in `account`, `post` and `social` leaves the last response out of
the state. No handler reads it, no invariant of these runs does, and a property of a step reads it in
the next state, which TLC evaluates before it applies the view.

*Mutants.* Each property of each passing run is shown to fail when one definition of the model is
replaced by a plausible bug (an index that is not updated, a sender not skipped, a counter that is
not increased, a return forgotten). The mutated
forms are kept in the modules just before the definitions they replace, and their comments say what
is wrong with them.

### Fairness

The server's handlers need none: they only promise safety.

- `TransportSpec`: `WF_vars(Loop)`. `Loop` is what the client thread does by itself: one more
  `select` that times out, reads or gives up. A `select` with a timeout returns, the thread is
  scheduled, and the loop has no other way to wait, so weak fairness of the loop as a whole is
  what the operating system provides. Nothing is assumed of the server, the network, or of
  failures, so `CallEnds` holds even if every datagram is lost.
- `LifecycleSpec`: `WF_vars(MainStep) /\ WF_vars(HandlerStep)`. The thread is scheduled, in `main`
  when no signal handler runs and in the innermost handler otherwise. A `select` that waits is
  not enabled, and nothing is assumed of datagrams, signals and kills.
- `WindowSpec`: `WF_vars(WindowStep) /\ WF_vars(Serve)`. The window's loop runs and the server
  answers what arrives. The user may enter nothing, and the network owes nothing. In screen `again`
  no `WindowStep` is enabled: a window that waits for the line after an empty one owes nothing
  either, and `MessagesLeaveMailbox` names that state.
- `LeaveSpec`: `WF_vars(ClientStep)`. The screen loop runs and the user answers its prompts; once
  he has decided to leave his answers lead out where there is a choice. Faults are bounded
  (`MaxFaults`), which says that the server answers in the end: a logout that is never answered
  is retried for ever (`client/Account.cpp:122`).

`FileTransferSpec` has none: what is checked of it is safety.

## 4. Findings

- **The window crashes on the answer to a line** (`window_crash`, `WindowSurvives`). With a poll on
  the way, the PUT takes the poll's answer for its own, and the window then reads the PUT's answer
  as a list of messages. It passes the verifier, its status reads as OK, and `msg_list()` is null
  (`client/Message.cpp:367`). The schema puts `status_code` last "To avoid getting confused with
  GeneralResponse" (`flatbuffers/message/get_msg_resp.fbs:8`). No fault of the network is needed.
  `TroubleHasCause` says when it cannot happen.

Other behaviour that the models contain and a reader should know of. The passing properties are
stated with it in mind; where one makes an exception for it, it is named.

- *Process.* Between `FD_SET` and `select` (`server/Main.cpp:99-101`) a signal empties the set and
  sets `terminated`; `select` then waits for nothing, without a timeout. The files are saved
  (`AnsweredIsSaved`); `EndsUnlessAsleep` names this state as `Asleep`. `killServer` sends one signal
  only (`include/IntegrateSerCliTest.hpp:34`). A signal before `server/Main.cpp:94` closes the socket
  and leaves a loop that fails for ever.
- *Router.* A path that only leads to others, such as `/account`, has a node with an empty function,
  which the lookup finds and `Process` calls (`server/Router.cpp:37-38`); "Path not found"
  (`server/Router.cpp:6`) is for paths without a node. In the model that is `NoHandler`, which
  `OnlyRegisteredRuns` does not count among the handlers.
- *Accounts.* Pending requests are lost at a restart; asking a friend again makes a second entry.
  A request to the empty name is accepted though nobody has that name: `server/Account.cpp:379` says
  "Ensure that account exist" of a `get_child` that then returns the root of the tree. The request
  waits under `""` until the process ends; `NoDanglingUsers` names this addressee as its one exception
  and says that whoever asked has an account.
- *Messages.* After a PUT to a name nobody has created, `handleCreateGroup` refuses that name as
  taken (`server/Message.cpp:98`, `434`). Anybody may put messages to a channel he is not in, or join
  a private one whose id he knows. A GET removes the message before the answer is sent.
- *Posts.* A shorter user list does not revoke: `handleEditPostPerm` (`server/Post.cpp:367`) puts
  the first name over the first node and appends the others, and later nodes of the old list stay
  (`ReadersWereNamed` looks at all lists of a post for this reason). `canViewPost`
  (`server/Post.cpp:66-71`) does not look at the bit behind the menu's "[3] Friends"
  (`client/Post.cpp:326`). Anybody may change the permission of any post. Likes are not counted per
  user. After a crash ids are given out again.
- *Transport.* Nothing is re-sent: `ClientSendAndRead` writes once, before its loop
  (`Utils.cpp:76`), and a timeout only waits again (`Utils.cpp:109`), whatever
  `client/Message.cpp:585` says of "the re-send feature". It is as well: `RunsAtMostOnce`, on which
  likes, messages and friend requests rest, would not hold otherwise (the mutant `TimeoutResends`
  shows it).
- *Window.* Leaving it early lets the next channel's window show its messages (`ShownInItsChannel`
  makes the exception). The second read of a turn blocks after a loss (`MessagesLeaveMailbox`). The
  reader of a file is told "Done" without a look at the numbers of the chunks
  (`client/Message.cpp:403`); `OnlyLostEndsMix` says what faults can do to it. A line of the
  reader's own, or `@quit`, with a poll on the way drops a chunk without a fault of the network:
  `ReceivedIsWhole` makes the exception for the files that have a part of such a send. After an
  empty line the window stands still until the next one is entered.
- *Screens.* `J` and `L` are taken even where the menu does not offer them
  (`client/Message.cpp:197-200`, `213`), and the prompt repeats itself until it gets a number
  between 1 and 0; after letters where a number is expected `std::cin` fails for good. The name of a
  group that is taken crashes the client, without a fault. `LeaverGetsOut` lists all three under
  `NoWayOut`. `[V]iew Posts` starts at the newest post and walks towards newer ones when it is
  refused (`client/Post.cpp:164`), so one private post at the end hides all others.

## 5. The proofs

All theorems are proved to the last leaf, for every value of the constants that satisfies the
assumptions: `SessionAssumption` (a bound on uuids that is a natural number, marker values that are
none of the values they stand beside), `AccountAssumption`, `PostAssumption` (bounds that are
natural numbers, markers again), `TransportAssumption` (threshold and number of copies at least 1),
`MessageAssumption` (as before, and no group is given the name of a uuid that is still to be drawn),
`LifecycleAssumption` (bounds, and that a torn file is no set of writes), `WindowAssumption`
(bounds, a channel at least, a threshold of at least 1, and that a missing list is not a list),
`FileTransferAssumption` (bounds, and that a missing file is no sequence of chunks),
`SocialAssumption` (what the two services assume), `RouterAssumption` (bounds, markers that are no
handlers, and that `/` is no name), `ScreensAssumption` and `NoPostAssumption` (bounds, markers, and
that the main menu has the key that logs out). TLC evaluates the same assumptions in each run. Each
inductive invariant was an invariant of TLC's runs before it was proved.

**Session.** `SessionIInv` is the type invariant, `LiveSessionsHaveAddress`, `IndexIsNewest`
and `DrawnOnly`: a session, an index entry or an address key exists only for uuids that were
drawn. Without it a new session could meet an old one under its token. `IndexIsAlwaysNewest`,
`LiveSessionsAlwaysHaveAddress` and `SessionTypesAlways` are its parts; `DeadTokensStayDead` is an
action property, by `TokenStep`: one step of the store brings back no token at or below `drawn`
and changes no live value.

**Account.** The argument goes in two stages.

1. `AccountStepIsSessionStep`: every step of the account service is a step of the session
   store or leaves it alone. Hence `AccountImplementsSession` (`AccountSpec => SessionSpec`),
   and what was proved of sessions is inherited (`AccountDeadStaysDead`).
2. `AccountIInv`: the session invariant with `AccountTypeOK`, `FriendshipSymmetric`,
   `NoCrossedRequests`, `FriendshipNeedsBothSides`, `NoDanglingUsers` and `FileIsPast`. No
   one of them is inductive alone. A restart swaps memory for the file, so symmetry,
   consent and existence of accounts must hold *of the file*: `FriendshipSymmetric` and
   `NoDanglingUsers` say so directly, and `FileIsPast` carries the bound of
   `FriendshipNeedsBothSides` over. Confirming needs `NoDanglingUsers` to reach both trees.
   There is one lemma for each kind of step that changes state (`RegisterKeeps`, `LoginKeeps`,
   `LogoutKeeps`, `EditKeeps`, `ConfirmKeeps`, `AskKeeps`, `AskNobodyKeeps`, `RestartKeeps`) and one
   for those that only answer (`AnswerKeeps`); `AccountStepIInv` splits `AccountNext` along them.
   `AskNobodyKeeps` is the request to the empty name: nobody can confirm it, for no live session is
   of that name, so it never becomes a friendship.

   From it `FriendshipSymmetricAlways`, `RequestsNeverCross`, `FriendshipByConsent`,
   `NothingDangles` and `FileIsAlwaysPast` follow, and `NamesKeepPasswords`, whose restart case is
   `FileIsPast`. `SessionsNeedPasswords` and `OnlyOwnSessionActs` look at one step: which actions
   open a session, or change a profile or a request, and under whose token.

**Post.** `PostIInv` is `SessionIInv`, types, `IdNamesOnePost`, `CommentsAreDense`,
`FileIsBehind` and `GrantedWereNamed`. Numbers are safe because nothing in memory or in the file
lies above its own `lastPostId`; a restart takes the counter from the file, so `IdNamesOnePost`
must compare memory and file up to the file's counter. Every change of a post is one of four
(`NewPostKeeps`, `ChangeKeeps`, `RemoveKeeps`, `RestartKeeps`), and one lemma per handler says which.

- `IdsAreNeverReused`, `OnlyPosterChangesPosts` and `CommentsAlwaysStay` are three readings of
  `Orderly`, what one request may do to the posts.
- `GrantedAfterMembers` says what is in the granted list after an edit: the new names and some of
  the old ones, never anything else. From it `ListIsAlwaysGranted`, and, with `GrantedWereNamed`
  (all that is granted was named), `ReadersWereAlwaysNamed`.

**Transport.** `TransportIInv` adds `OneRequestPerCall` to the types and `CallbackOnce`:
copies on the way, plus executions, never exceed one for a call of which nothing was copied,
and calls that were not made have none. `CallbackOnceAlways` and `RunsAtMostOnceAlways` follow;
`RunsAtMostOnce` needs the count of copies on the way, because `Serve` turns one into an
execution. `OwnAnswerAlways` needs more (`AnswerIInv`): `OneOnTheWay`, of a call of which nothing was
copied there is one datagram at most, a request or an answer, and `NothingLeftOver`, a call that
ended with an answer has none left. So the first wrong answer is one of a call before, which failed
or was copied.

**Message.** `MessageIInv` is `SessionIInv`, `MessageTypeOK`, `MailboxIsUnread` and two parts that
make it inductive. `LogIsPast`: no number in a log or a cursor lies beyond the PUTs so far, so a
new message goes to the end of every mailbox it is put into, and is unread there.
`ChannelsAreNamed`: a uuid not yet drawn names no channel, so a new private channel meets neither
members nor a type of an old one; and only channels have a type.

- `MailboxIsUnread` is proved in halves (`MailboxHalves`): which messages a mailbox holds, and that
  their numbers increase. `PutKeeps` and `GetKeeps` are the two steps that touch it; the other
  handlers change members and types only.
- `MailboxesImplementLog` is the refinement, step by step. `GetIsGet`: what the code takes from the
  head of a mailbox is the least of `Unread`, which is where the invariant is needed. `PutIsPut`:
  the number is beyond all others. `RequestIsLogStep` and `MessageStepIsLogStep`: every other
  request is `Idle`, a restart is `Forget`.
- `MembershipIsAlwaysOwn` and `TypesAreForGood` look at one step, with `ChannelsAreNamed` for the
  creation of a channel; `MessageImplementsSession` goes as for accounts.

**Process.** `LifecycleIInv`. Where `main` is says what the list of finalizers holds
(`ListIsBuilt`), since the list grows while handlers may already run. The heart is
`FramesFinalize`: of every running handler, each callback it has left behind has had its effect
(the file equals the tree, the socket is closed) *or* another handler has the file open again. A handler
that interrupts another begins with the first callback and truncates a file that the other has
saved already: that makes the disjunction necessary, and is why the end of all handlers
(`EndIsQuiet`) has to come into the argument.

- From there to `AnsweredIsSaved`: `AnsweredIsKept` follows an answered request from the tree of
  one run through the file to the tree of the next (`Loaded` says when the file counts and when the
  tree), `ServingIsUnanswered` and `WritesArePast` keep the request in the making apart from those
  answered, and `TerminatedIsSaved` says that once the flag is set the files are behind by that
  request at most. `EndIsQuiet` says that no handler, and so no open file, is left at the end.
- `StopAlwaysLosesOnlyInterrupted` is `TerminatedIsSaved` at the exit.
- `PostsAlwaysHavePosters` is about two files that are written one after the other, posts first.
  `FileRestsOnTree` is what holds in between: the posts of the *file* rest on accounts of the *tree*,
  which the next write will save. `TreesRest` says the same of the two trees, and `TornIsOpen` that a
  file is torn only while its writer runs. All three except a kill while a handler runs (`cut`), as
  the property does.

**The services together.** `Social` takes `Account` and `Post` through `INSTANCE`, and the proofs of
both are used again through `AP == INSTANCE AccountProofs` and `PP == INSTANCE PostProofs`; the
lemmas named `Same...` say that a step of the one instance is a step of the other. `SocialIInv` is
both invariants and `PostersHaveAccounts`: a request to one service is to the other the end and the
start of a session at most, no request takes an account away, and a poster is the user of a
live session, who has an account. A restart loads two files of different age: after a clean stop
both are new, after a kill both are as they were, after a kill in the middle the posts are empty or
`halfSaved` says it. `SocialImplementsAccount` is the refinement: seen from the accounts, a request
for a post is a stuttering step. With `SameAccount` it carries the action properties over as well:
in the whole server a dead session stays dead (`DeadStaysDeadInServer`), an account keeps its
password, and a session is opened only with it (`PasswordsInServer`). The post service has no such
refinement: a register or login answers, and `Social` gives the answer of either service a variable
of its own, so `PostsInServer` and `CommentsStayInServer` are proved from `SocialIInv` directly.

**Router.** `RouterIInv` says of each tree that it holds the registered routes and their handlers
(`Registered`), no other handler (`HandlersRegistered`), with each node all that lead to it
(`IsTree`), and only nodes of non-empty segments (`Joined`). The last one is what trimming is for: a
node with a slash at an end would put the nodes of a sub-router where no lookup goes.

- Lemmas about paths carry the argument: `TrimWritten` (trimming a path leaves its segments,
  however it is written), `TrimTakesSlashes` (and takes nothing else), `JoinInjective` (distinct
  segments are distinct paths), `JoinUnder` and `BelowIsPrefix` (putting under a path is
  appending segments, being below it is having them in front), `ThroughJoin`. They need that a
  non-empty set of numbers has a least one (`LeastOf`), which is the library's `WFMin`.
- `PutTree` and `PutChildTree` say what each form of `Path` makes of a tree, and `OneRouter` that
  the other routers do not notice: a sub-router is copied.

**Message window.** `WindowIInv` in three groups, each with its lemmas.

1. *Places.* `EachAtOnePlace` (a partition of what was posted into mailbox, answers on the way,
   shown, dropped, swallowed), `MailboxIsTail` (what is in a mailbox is later than all that left it),
   `WayIsInOrder` and `ShownInOrder`. None of these orders is inductive without the others: what is
   shown next comes from the way, what goes on the way next comes from the mailbox. `PlacedGet`,
   `PlacedShown`, `PlacedPut` and their like move one message by one place; `AnswersMove` says what
   losing, swapping or reading a datagram does to the sequence of answers.
2. *Channel.* `WayIsOfChannel`: until the window is left too early, all that is on the way was asked
   for by this window. `ShownInItsChannel` follows.
3. *Protocol.* `PutIsAlone`: a line entered when nothing was on the way has the socket for itself
   while it waits, so that the answer it reads is its own (`SilentMeansRan`). `OnlyPolls`: unless a
   line overlapped with something, everything on the way is a poll outside of PUTs, so that
   nothing but lists is read as a list (`TroubleHasCause`, the crash). `ReadIsFed`: while nothing is
   lost, the second read of a turn finds a datagram (`TroubleHasCause`, the hang). There is one lemma
   per action; `OverlapStays` discharges these parts once a line has overlapped.

**File transfer.** Both properties are about the chunks on their way to the reader: `Pipe` is the
answers on the way, then the mailbox. `FileBase` keeps the books: a chunk that is anywhere belongs
to a send that has begun and put it before, under the name of that send; sends that share a name are
counted as overlapped.

- `ReceivedIsWhole`, by `Blocks`, which speaks of sends that did not overlap and of which the reader
  dropped nothing (`Undisturbed`). While there was no fault, what he last saw of a name, when all
  before a chunk has reached him, is that chunk's predecessor (`Before`); for a first chunk it is
  that all of this name before it has its end there too (`Ended`). This holds of each chunk in the
  pipe (`ChunksFollow`) and of what each sender puts next (`SendersFollow`). `EndsCome` says that a send
  that has begun is still being sent or has its end in the pipe, or a new send of the name could not
  begin; `FilesBegin` that an open file begins with the first chunk of the send whose chunk it ends
  with. A step at the head of the pipe, be it shown or dropped, moves all this up by one
  (`EndedShifts`, `BeforeShifts`); what a dropped chunk leaves behind is in the exceptions. Chunks of
  other names may stand in between.
- `OnlyLostEndsMix`, with losses and repetitions. `InOrder`: chunks of one send are in order in the
  pipe, in a file, and between the two. `Apart`: a send that has a chunk somewhere, whose end was not
  lost and which nothing overlapped, is still being sent or has its end behind that chunk, and no
  other send of the name comes before it (`Settled`). A dropped answer is to it what a lost one is
  (`DropMix`), and a restart empties the files (`RestartMix`).

**Screens.** `ScreensIInv` says of each screen what the screens before it left in the globals.
`OnPostHasPosition` and `PositionBelowMax` give `PositionInRange`. `EditIsOwn` is about a screen that
decides and a later one that acts, with other clients and restarts in between: `EditedIsOwn` speaks of
a live session, which ends with the server it is of, and needs `BoardIsPast`: a server that keeps
running gives no number out twice. `CommentsAreOfPost` is the same for comments. `ListIsOwn`
holds because each menu reads its list before it offers the choice, and nothing on the way from the
one to the other changes who is logged in.
`OutsideIsDead` and `OrphansNeedFault` are the two halves of `SessionLeftNeedsFault`. The theorems
use no fairness, though they are stated of `LeaveSpec`, the specification the runs check.

*Proved and not run:* the type invariants of the modules with proofs,
`LiveSessionsHaveAddress`, `DeadStaysDead`, `NoCrossedRequests`, `FileIsPast`,
`SessionNeedsPassword`, `OnlyOwnSession`, `AccountSpec => SessionSpec`, `MessageSpec => SessionSpec`,
`CommentsAreDense`, `ListIsGranted`, and in `Social` `A!AccountSpec` and the properties of the
sessions, the accounts and the posts. A theorem needs no instance, so the runs keep to the other
properties and to the most telling of the proved ones.

*Only model-checked:*

- liveness (`CallEnds`, `EndsUnlessAsleep`, `MessagesLeaveMailbox`, `LeaverGetsOut`): it needs
  `ENABLED`, which is out of the prover's reach.
- `WindowSurvives`, which is violated.

The other way round, requests of three characters (`router`) do not reach an empty segment inside a
path (`a//b`): only the theorem `OnlyRegisteredEverRuns` covers it.

Every invariant and every action property of the passing runs is proved, and so is the refinement of
`ChannelLog`. No module declares a recursive operator.

## 6. What is not modelled, and why

Of the files in the repository, almost all are vendored: boost and flatbuffers under
`include/`. The program's own code is some 3300 lines of C++, and the map covers most of it; as
a share of all lines it is small, and will stay so.

- Vendored libraries: property trees, uuids, verifiers are modelled by how the program uses them.
- Schemas and the code generated from them; logging; tests; build files.
- Unused code: accessors of the session store (`PutStringValue`, `Int`, `Long`),
  `InsertFinalizeCallback`.
- Setting up sockets, and building packets (`BuildRequest`, `udp_connect`).
- A save that fails (disk full, no permission): `write_json` throws a `json_parser_error`, which the
  finalizer catches and logs. The models take a save that runs to its end, or is killed on the way.
- What a signal handler does to the allocator and to streams it interrupts: undefined behaviour
  below the level of statements.
- Growth of mailboxes: the code has no bound that could be stated.
- Names that contain `/`; texts, timestamps, and what is only shown.
- In `Screens`: answers that belong to an earlier, failed request (`Transport` says when they
  come), texts and likes of posts. In `MessageWindow`: late answers to calls of earlier screens.
  In `FileTransfer`: the polls without a message, and a second channel, whose window would read the
  answers the first one has left (`MessageWindow` has that).
- Named but not excluded, because the code does it: a process asleep in `select` after a signal
  (`EndsUnlessAsleep` shows that it is the only one), and an index that names a closed session
  (`IndexIsNewest` says of a user's newest session that it was the last one opened, not that it
  lives; nothing in the server reads the index by user).
- In `Lifecycle`: `bind` failing, and signals other than `SIGTERM` and `SIGINT` (`SIGKILL`, for
  which the code also installs a handler, cannot be caught, and is `Kill`).

## 7. Plan

Done: the session store, the account, message and post services, the transport, the process with
both files, the router, the screens, the message window and file transfer; proofs of all their
safety properties, with the refinement of `ChannelLog` by the messages, of the session store by the
accounts and the messages, and of the accounts by the whole server. Possible next:

1. Refinements between models: the window's mailbox as a `ChannelLog` with one reader. A restart
   forgets the log, so the window would have to remember which messages were put before it.
2. The message service in `Social`, beside the two that have files.
