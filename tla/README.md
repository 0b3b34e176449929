# POPIN in TLA+

POPIN lets visitors of pop-up stores register over a radio link. Every board
(STM32 NUCLEO-F446RE) runs the same program: boards with ID 1-3 administrate a
booth, boards with a larger ID serve one user. Layer 3 holds the application,
layer 2 a stop-and-wait ARQ with segmentation, and below it is a precompiled
radio library. This directory models the layers as TLA+ modules, checks them
with TLC on small instances, and proves what matters most with TLAPS.

Line numbers refer to `src/`; `L3` stands for `L3_FSMmain.cpp`, `L2` for
`L2_FSMmain.cpp`. `PROJECT.json` maps every definition to its lines.

## 1. Inventory

| Component | State | Operations | Module |
|---|---|---|---|
| Booth administration (L3) | `registeredList`, `activeList`, `waitingQueue`, the called user and its timer, quiet mode | handlers of BOOTH_SCAN, CONNECT_REQUEST, USER_RESPONSE, REGISTER_REQUEST, QUEUE_LEAVE, EXIT_REQUEST, CHAT_MESSAGE; session and call checks; announcements; keys `a q m` | `Booth` |
| User machine (L3) | `main_state`, current booth, scan, retries, y/n question, last place, session, chat line | handlers of announcements, booth information, answers, places, calls, farewells; scan and retry counters; keys `y n e l c` | `User`, `UserScan` |
| Booth selection (L3) | `scannedBooths` | reset, update, choice by score | `ScanSelect`, `UserScan` |
| Clock (L3_timer) | time stamps of sessions and of the call | start, stop, periodic check | `SessionClock` |
| L3 over L2 | `sduIn`, `destL2ID`: one outgoing request per board | hand a request over, deliver, lose, redirect | `Popin` |
| ARQ (L2) | IDLE/TX/ACK, `seqNum`, `arqPdu`, `retxCnt`, timer, event flags, one receive buffer | send, acknowledge, repeat, give up, take a broadcast, ignore stale events | `Arq`, `ArqSteps` |
| Segmentation (L2) | `sduBuffer`, `pduBuffer` | cut, send, assemble, indicate | `Segments` |
| Message coding | none | `L3_msg_encode*`, `L3_msg_decode*` | as records in `Booth`, `User` |
| Consoles | typed lines | keyboard interrupts | when and to whom only |
| Radio, mbed, build files, documents | | | not modelled |

How they interact. `main.cpp` calls `L3_FSMrun` and `L2_FSMrun` in turn, for
ever. Layer 3 hands a message down through a function pointer to
`L2_LLI_handleDataReq`, which copies it over the one before; layer 2 calls
`L3_LLI_dataInd`, which copies it into the one receive buffer of layer 3 and
sets an event flag. The radio's callbacks, the ARQ timer, the selection timer
and the keyboard are interrupts: they set flags, but the keyboard handlers also
change the state and send. A flag is a bit of a word that is read, changed and
written back with interrupts enabled.

What is hard. A handler that makes two requests sends one. A key, a timer and a
message change the same variables in any order. Layer 2 delays, repeats, loses
and confirms without delivering, and layer 3 has its own retries above that. A
user's state and the booth's lists are two views of one fact with nothing but
these messages between them. An interrupt between the two halves of a change of
the flags undoes, or is undone; the buffer of a received frame is overwritten
while its handler still looks at it. `PROJECT.json` lists the hazards at their lines.

What makes each component correct:

- Booth: lists without duplicates, stored places equal
  to places, answers that are true when they are sent, first come first called,
  sessions and calls that end, a queue that moves.
- User: requests that go to a booth, connections that are decided, scans that
  are repeated.
- Both: the user takes itself for inside exactly while the booth does, up to
  what is under way; the state diagram of `README.md:215-224`.
- Layer 2: what arrives is in order, once and whole; what is confirmed has
  arrived; every request is answered; nobody waits without a timer; what an
  interrupted change of the flags loses is all that can stop it.
- Clock: no session or call outlives its time by more than the checks before it,
  none ends early unless the reading has started again.

## 2. Modules

`Visit` (abstract) and `Booth`. `Visit` has users who enter a booth once, while
there is room, and leave. `Booth` has one action per handler and outcome; its
lists are sequences, a queue entry carries the stored `waitingNumber` because
the code keeps it apart from the position. `sent[b]` holds the requests of the
latest handler, so that a property can say what users are told. The session and
call timers may be over at any pass. `registered` may grow beyond the array of the
code, which is appended without a test (L3:625); up to that moment
(`RegisteredFits`) the model is the code. `RemoveWaiting`, `AddWaiting`, `AdmitNext`
and `UpdateAll` are the helpers of the code, with the order in which the code
calls them. `Booth` implements `Visit` with `inside` the set of active and
`visited` the set of registered users (`KeepsVisits`).

`User`. One action per message and outcome, per counter and per key. Handlers
look at state and payload, never at the sender, hence a message may come at any
moment. The register retry cannot give up, as in the code. One pass serves the
counters of both retries, the connection first (`BothRetries`,
`GiveUpAndRegister`): L3:754 does not look at the state again, so the pass that
gives the connection up may ask booth 0 to register.

`UserScan` is `User` with the table of `ScanSelect`: every announcement carries a
strength and the booth's numbers, and the selection timer asks
`L3_selectOptimalBooth` where `User` chose any booth seen. `heard` is what the
table ought to hold.

`Popin` composes `Booth` and `User` by INSTANCE over `link[n]`, the messages of
board n that layer 2 has not delivered. Of the requests of one handler the last
counts, and it may replace that of an earlier handler of the same pass: a booth
checks its timers (L3:159-173), announces (L3:175-188) and handles a message
(L3:228-686) before layer 2 has its turn (`JustChecked`, `JustAnnounced`, the third
argument of `Handed`). Three worlds: *alone* (one user, two booths, nothing late or lost),
*orderly* (two users, two booths, nothing late or lost) and *worst* (one user and
one booth; late, lost, replaced and redirected messages, chat, announcements). In
the late world a request replaces one not yet taken, or redirects the message
layer 2 is repeating, which is what `destL2ID` does. "Not late" means that L3's
timers and keys find the messages of their user arrived (`InTime`), those its own
board has requested in the same pass included: a key, or a counter that runs out in
the very pass in which the user's board requests something else, belongs to the late
world, and so does a timer of the booth that runs out while the user's message is on
its way. What a booth's own passes combine is in every world.

`Link` (abstract) and `Arq`. `Arq` has one action per branch of `L2_FSMrun` and
per interrupt. A frame that ends is received, by those who hear it, at that
moment or never: the radio has no memory. An acknowledgement that replaces a
data frame in the receive buffer is taken for data, as the code does. `Link`
allows what a link keeps: order, no duplicates, and truthful confirmations until
something has been given up. `MCArq` adds to `Arq` a record, `ahead`, of the boards
that have acknowledged a number they had not reached (`WatchedSpec`), and the
refinement mapping of the link from a to b.

`ArqSteps` is the same layer with its interrupts between the steps of a pass.
Where a pass of `Arq` reads and leaves the flags at once, the main loop here
reads the word, handles, and writes the word back in a step of its own; the
handler of a data frame is cut between its looks at `rcvdData` (L2:196, 219,
221). Both views instantiate `Arq`: `Interrupt` works on the word in memory,
`Pass` on the word the main loop is going to write (`Left`). `lost[n]` records
the events that were overwritten. `WordAtomic` leaves only the buffer shared.

`Segments` cuts and assembles over an ideal ARQ, from several senders that
request messages at any moment. A request while the last message is still being
cut disturbs that message, and two boards whose frames meet in the one
`pduBuffer` disturb each other; `disturbed` records which messages were hit, and
the properties are about all the others. Every broadcast of the program is an
announcement of five bytes, so only unicasts are cut.

`SessionClock` has the true time beside the 32-bit reading of the ticker.

`MC*` modules give constants and refinement mappings to TLC. Operators marked
`Wrong:` are the code with a plausible error; each property is shown to fail for
one of them. The proofs are in `ListFacts` (sequences), `BoothProofs`,
`UserProofs` (also of `UserScan`), `ArqProofs` (of `MCArq`), `ArqStepsProofs`,
`SegmentsProofs`, `SessionClockProofs` and `PopinProofs`.

## 3. Runs

| Run | Instance | Shows |
|---|---|---|
| `Booth.cfg` | 1 booth, 1 place, 3 users, arrays of 3 | types, lists, order of calls, `StallsOnlyByDecline`, no told place too good; sessions and calls end, the queue moves, `Visit` is implemented with its fairness |
| `UserScan.cfg` | 1 user, 2 booths, 3 announcements, 1 retry, any message | requests of a connection go to a booth; the table holds the latest, the choice has the best documented score; a connection is decided; scans go on |
| `PopinAlone.cfg` | 1 user, 2 booths, 1 retry | both sides agree who is inside; a session returns |
| `PopinOrderly.cfg` | 2 users, 2 booths, 1 place each | the diagram is followed, nobody inside is thrown out, nobody is inside twice, who is inside knows where; a registration is decided |
| `PopinWorst.cfg` | 1 user, 1 booth, late and lossy | still: who is IN_USE was admitted |
| `ArqOneWay.cfg` | 1 link, 4 requests, 2 repetitions, numbers modulo 2 | refinement of `Link` |
| `ArqShared.cfg` | 3 boards, 4 links of which one broadcasts, 2 requests of one board and 1 of each other, 1 repetition | one frame at a time, every wait is timed; who only unicasts is heard in order, without duplicates, and hears nothing garbled unless it was ahead |
| `ArqSteps.cfg` | a sends to b, both broadcast, 2 requests of a and 1 of b, 1 repetition, interrupts at every step | the radio is free when a frame is handed over; only a lost event stops a board, and only that or a broadcast heard during the wait leaves a request unanswered |
| `Segments.cfg` | 2 senders, frames of 2 bytes, 2 messages of 1 to 4 bytes each | what is not disturbed arrives whole, once, in turn, and in the end |
| `SessionClock.cfg` | 2 places, duration 4, clock lap 9, 14 ms | no session is late beyond the checks before it, none early within a lap |
| `PopinFarewellLost.cfg` | 2 users, 1 booth | **violated**: `SessionReturns` |
| `ArqCrossing.cfg` | 2 boards | **violated**: `ConfirmedUnlessFailed` |

Why the bounds suffice. `MAX_BOOTH_CAPACITY` is 1 in the code; with one place,
three users give a user inside, one called and one waiting, or a queue of two in
which order matters. Retries are bounded counters that only ever repeat a step:
one retry has the first, the repeated and the refused try. Two booths are needed
for everything a user may do at one booth while another remembers it. Two users
are not all, though: two never come to stand in two queues (`QueuedAtOne`, proved
for two users, any number of booths and any capacity), and three do
(`PopinTwoQueues`, section 4). Of the safety properties of `PopinOrderly` the proofs
say that this is the only way to break them, and the diagram, `StaysInside` and the
others are claimed of two users only. A call that expires with somebody next in the
queue needs three users as well, and then a user may be forgotten
(`PopinForgotten`); so that everybody leaves the queue is no property of a run. In
`Booth` the record of visitors and the queue have room for all three users; what a
full queue and a full record do is in `BoothFullMeansQueued` and `BoothRecordFits`,
and that the queue and the places stay in their arrays is proved for any number of
users. Lengths of
one to two full frames contain every cut: short, exact, one byte over. In `ArqShared`
four requests cannot wrap numbers modulo 8 (every acceptance raises one, L2:237,
and every request that ends another, L2:344); the second request
lets an old repetition meet a new frame. The one-way run wraps twice, at
the smallest modulus a stop-and-wait protocol can have. In `ArqSteps` one
repetition gives an early, a late and a last timeout, and the second request lets
an old frame, acknowledgement or timer meet a new wait. Once an event is lost, a
second request of a is not followed (`FewAfterLoss`): `AnsweredUnlessLost` claims
nothing then, and the two invariants are proved without a bound. The broadcast of b
is heard in every state of a, also while a waits. `PopinWorst` has one user because
redirection breaks its property for two (section 4). Times in `SessionClock` keep the order of the real ones
(duration < lap < word).

Fairness. `main.cpp:62-66` is an endless loop, so each check that stays enabled
is made: weak fairness of the session and call checks, the scan and the retries,
of the pass of layer 2 (`FSMrun`, in `ArqSteps` each step of it), of a sender's
next frame in `Segments`. A transmission ends and an attached timer fires: weak
fairness of `FrameEnds` and `TimerFires`. In `Popin` a message under way arrives
or, where loss is allowed, is dropped. Nothing is assumed of keys, of users,
or of a frame being heard. Stopping is a legal behaviour of the modules whose
requests are bounded, hence `CHECK_DEADLOCK FALSE` there.

## 4. Where the code and its documents differ

Two runs above are violated because of the code:

- `PopinFarewellLost`. `endUserSession` and the admission of the next user send
  TIMEOUT_ALERT (or EXIT_RESPONSE) and QUEUE_READY in one pass (L3:899,
  L3:453). Layer 2 has one place (L2:96-119), so the first is never sent and the
  user stays IN_USE for ever, against `README.md:223`.
- `ArqCrossing`. One `seqNum` numbers what is sent and what is expected. When
  two boards send at once each discards the frame of the other (L2:196),
  acknowledges it (L2:221) and gets its own confirmed, against `README.md:107`.

Others are kept as configurations to be read with their counterexamples; each
states one claim and TLC finds it violated.

| Configuration (module) | Claim | Cause |
|---|---|---|
| `BoothNeverStalled` (Booth) | `README.md:253-255` the next one is called | the answer NO does not call (L3:363); `StallsOnlyByDecline` says it is the only way |
| `BoothEntryInOrder` (Booth) | `README.md:231` order of entry | a newcomer enters during a call (L3:606) |
| `BoothCalledWhenRoom` (Booth) | `README.md:253` called when there is room | L3:942 does not look at the places |
| `BoothUpdatesExact` (Booth) | L3:1065 places are updated | they are sent before the head is removed (L3:1066) |
| `BoothFullMeansQueued` (Booth) | `L3_msg.h:36` | the result of `L3_addUserToList` is ignored (L3:557) |
| `BoothRecordFits` (Booth) | `L3_msg.h:45` at most `MAX_USERS` users | nothing limits the visitors, and the record is appended untested (L3:625) |
| `UserRegistrationDecided` (MCUserScan) | `README.md:163,218` registration times out | the counter is reset before it is compared (L3:754) |
| `UserRegistrationDecided` with `SessionBackup` (MCUserScan) | L3:832 backup | the elapsed time of an ended session is 0 (L3:837) |
| `PopinRegisterAhead` (MCPopin) | `README.md:210` information, then y/n | QUEUE_INFO replaces FULL_WAITING (L3:568) |
| `PopinDiagram` with `StaysInside` (MCPopin) | `README.md:223` | a repeated registration is answered ALREADY_USED (L3:1171) |
| `PopinDiagram` (MCPopin) | `README.md:215-224` | a late SUCCESS is taken in SCANNING (L3:646) |
| `PopinScan` (MCPopin) | `README.md:243` all booths are heard | the requests of a scan replace each other (L3:710) |
| `PopinMisdirected` (MCPopin) | `README.md:219` | a repeated frame goes to a later destination (L2:355) |
| `PopinNotTold` (MCPopin) | L3:674-676 QUEUE_INFO means: in the queue | one with the place of the last visit is ignored (L3:666) |
| `PopinTwoQueues` (MCPopin) | one booth at a time | a user who leaves a queue stays called (L3:389-400) and goes to another |
| `PopinForgotten` (MCPopin) | `README.md:222` WAITING ends | the 0/0 that ends a call (L3:1060) is replaced by QUEUE_READY to the next (L3:1069, 956) |
| `ArqLateLook` (MCArqSteps) | `README.md:107` | the next frame overwrites the buffer between the looks of the handler (L2:196, 219, 221): the wrong one is acknowledged |
| `ArqDuplicate` (MCArqSteps) | `README.md:107` | an acknowledgement overwrites the buffer before the second comparison (L2:219): the number stays and the repetition of a frame is taken again |
| `ArqTwoPeers`, `ArqAfterFailure` (MCArq) | `README.md:107` | one number for all peers; nothing resets it (L2:237, L2:344) |
| `ArqRepeatedAsBroadcast` (MCArq) | `README.md:107` order | a frame repeated to `destL2ID`, by then the broadcast's, is taken whatever its number, by one who has it already (L2:196, 355) |
| `ArqRedirected` (MCArq) | `README.md:97` | `destL2ID` changes during the wait (L2:66) |
| `ArqBroadcastEndsWait` (MCArq) | `README.md:240` waits for the ACK | a broadcast sets IDLE (L2:385) |
| `SegmentsInterrupted` (Segments) | `README.md:65` assembly | `&&` at L2:98; with two senders also the one `pduBuffer` (L2:146) |
| `SessionClockWraps` (SessionClock) | `README.md:15` 120 seconds | the reading starts again after 71 minutes (L3:887) |

One more was met on the way to a proof. A frame that is not expected is
acknowledged with its own number (L2:221), and an acknowledgement that takes
the place of data in the receive buffer is acknowledged again. The second
acknowledgement can carry a number its receiver has not reached; if it takes the
place of data there, it is taken for data, and layer 3 gets
a message nobody sent. Two boards that only unicast reach this after three
requests of one, two of the other, and one frame given up. `IntactUnlessAhead`
says that this is the only way.

Another needs three users and was met when the proofs about `Popin` asked for
`QueuedAtOne`. `PopinTwoQueues` finds one way in 3 users and 2 booths: u1 is inside
b1 and u2 waits there; u1's session ends, and the QUEUE_READY to u2 is replaced by
the periodic announcement of the same pass (L3:175-188), so u2 is called and does
not know it; u2 leaves the queue, which does not take the call back (L3:389-400);
u3 has gone inside b2, u2 registers there and is queued, while b1 still calls it.
The search is helped by two constraints that only leave behaviours out (`Serially`,
`Calm`), and by the symmetry of the users.

There is a way without announcements, too. In `PopinNotTold` a user is queued
without knowing it, and it does not leave the queue when it goes elsewhere. u1 is
inside b2, u2 and u3 wait there; u3 leaves, comes back to the same place, and is not
told (L3:671); u2 leaves the queue and goes inside b1; u3 answers `n`, which
b2 only logs (L3:357-360), and queues at b1. Then both booths may call it.
Called from both it sends two REGISTER_REQUESTs to the one booth it knows, is
admitted by the first and put out by the ALREADY_USED to the second. If instead
the call of b2 expires, the 0/0 sends it to SCANNING (L3:417) while its request to
b1 is under way, and SUCCESS takes it to IN_USE with no booth. So `KnowsItsBooth`,
`StaysInside`, `InsideOnce` and `FollowsDiagram` hold of two users (`TwoAreOrderly`)
and fail for three: TLC, started in the state just described (u3 queued at
both booths, WAITING at b1), breaks each of the four.

`PopinForgotten` has 4 users and 1 booth, nothing late, lost or announced: u3 is called
and loses the place to the newcomer u2, u4 queues, and the registration of u3
puts it behind u4. Then the session of u2 and the call of u3 are over in one pass. The 0/0
tells u3 that it is out of the queue, the call of u4 replaces it in layer 2, and u3 is
WAITING, known to no booth, with no timer that would end it.

With late answers `InsideOnce` fails as well: a user put out of one booth by an
answer `ALREADY_USED` to its repeated registration goes on to the next.

## 5. Proofs

TLAPS proves the following for every value of the constants that satisfies the
named assumptions of the module; the runs of section 3 check the same formulas.

| Theorem | Module | Says |
|---|---|---|
| `TypeCorrect`, `OneVisitEach`, `QueueAlwaysInOrder` | `BoothProofs` | `[]TypeOK`, `[]VisitOnce`, `[]QueueInOrder` |
| `ArraysSuffice` | `BoothProofs` | `[]WithinArrays`: nothing is written past `activeList` and `waitingQueue`, for any number of users |
| `BoothImplementsVisit` | `BoothProofs` | the booth implements `Visit`, without its fairness |
| `CalledInOrder` | `BoothProofs` | `FirstComeFirstCalled` |
| `OnlyDeclineStalls` | `BoothProofs` | `StallsOnlyByDecline` if there is one place, as in the code |
| `NoFalseHope` | `BoothProofs` | `[]UpdatesNotOptimistic` |
| `TypeCorrect`, `BoothAlwaysKnown` | `UserProofs` | `[]TypeOK`, `[]BoothKnown` (with the one exception it names: a registration asked of booth 0 in the pass that gives the connection up) |
| `ScanImplementsUser` | `UserProofs` | the user machine with its table implements `User`, without its fairness |
| `TableAlwaysLatest` | `UserProofs` | `[]TableIsLatest` |
| `BestAlwaysChosen` | `UserProofs` | `BestIsChosen` |
| `OnlyAdmittedEnter` | `PopinProofs` | `[]InUseWasAdmitted` for any number of users if nothing is late (messages may be lost or replaced), and for one user if messages are late and redirected, too |
| `InsideKnowsWhere`, `InsideOneBooth` | `PopinProofs` | `[]KnowsItsBooth`, `[]InsideOnce` if nothing is late or lost and nobody stands in two queues |
| `InsideIsLeftAtTheEnd`, `DiagramFollowed` | `PopinProofs` | `StaysInside`, `FollowsDiagram` under the same conditions |
| `OneBoothIsOrderly` | `PopinProofs` | `[]KnowsItsBooth`, `StaysInside`, `FollowsDiagram` for one booth and any number of users, if nothing is late or lost |
| `TwoWaitAtOne` | `PopinProofs` | `[]QueuedAtOne` for two users and any number of booths, if nothing is late or lost |
| `TwoAreOrderly` | `PopinProofs` | `[]KnowsItsBooth`, `[]InsideOnce`, `StaysInside`, `FollowsDiagram` under the assumptions of `TwoWaitAtOne` |
| `AloneInAgreement` | `PopinProofs` | `[]AgreeWhoIsInside` for one user and any number of booths, if nothing is late or lost and the booths do not announce |
| `BoothsAsAlone` | `PopinProofs` | the booths of `Popin` behave as `Booth` says |
| `TypeCorrect`, `RadioInStep`, `EveryWaitTimed` | `ArqProofs` | `[]TypeOK`, `[]OneAtATime`, `[]WaitIsTimed` |
| `OrderKeptUntilWrap` | `ArqProofs` | `[]InOrderOnce` while the numbers do not wrap |
| `IntactUntilAhead` | `ArqProofs` | `[]IntactUnlessAhead` while the numbers do not wrap |
| `LinkKept` | `ArqProofs` | a link used in one direction implements `Link` (`KeepsLink`), across the wrap |
| `UndisturbedArrivesWhole`, `UndisturbedInTurn` | `SegmentsProofs` | `[]WholeUnlessDisturbed`, `[]InTurnUnlessDisturbed` |
| `TypeCorrect`, `RadioAlwaysFree`, `OnlyLossStops` | `ArqStepsProofs` | `[]TypeOK`, `[]RadioFree`, `[]StuckOnlyByLoss` |
| `EndsInTime`, `EarlyOnlyByLap` | `SessionClockProofs` | `[]NotLate`, `[]NotEarlyInLap` |

Each proof module states an inductive invariant `IInv`, shows that `Init`
implies it (`InitIInv`) and that every action keeps it (`NextIInv`), and derives
the theorems; a theorem that needs more adds an invariant of its own on top.

*Booth.* `IInv` is `TypeOK`, `VisitOnce`, `QueueInOrder` and `WithinArrays`
(`active[b]` has at most `MAX_BOOTH_CAPACITY` entries, `waiting[b]` at most
`MAX_USERS`). They need each other:
removing a user from the queue leaves nobody behind only if nobody is in it
twice, and a step of the booth is a step of `Visit` only if there was room. The
list operations of the code (cut one entry out, take the head, renumber) are
lemmas of their own, resting on `ListFacts`. `WithinArrays` speaks of two of the
three lists. The third, the record of visitors, outgrows its array: a departed user
stays in `registered`, and L3:624-628 stores the next one without looking at the
length (`RegisteredFits`, violated in `BoothRecordFits`). What is proved of `Booth`
is therefore about the code as long as at most `MAX_USERS` users have been admitted. Assumed: capacity
at least 1, `MAX_USERS` at least the capacity, `NoUser` no user.

*Queue.* Every handler leaves a queue that is the old one with some entries cut
out and one perhaps added at the end: the remaining users are embedded in the old
queue in order (`IsPart`). A call takes the head, so whoever is still there stood
behind the called user. With one place, somebody leaving or a call running out is
followed by a call, and everything else leaves the place or the call as it was;
with two places two users may leave during one call, the called user fills one
place only, and the claim is false. A place
told is the true one or, after the head has been taken away, one too large
(`Honest`, `UpdateThenCallHonest`).

*User.* `TypeOK` and `BoothKnown` are inductive together: a retry goes to a booth
only because a CONNECTED user has one (but for `GiveUpAndRegister`), and it has one because every handler
that leaves a booth leaves CONNECTED in the same step. This covers every
message in every state, as the handlers do not look at the sender. Assumed: the
scan order lists booths, booth 0 is none.

*UserScan.* Every step is one of `User`, with whatever booth the score picks in
place of an arbitrary one seen (`ScanStepIsStep`); so `TypeOK` and `BoothKnown`
hold of it too. `ScanInv` says that the table's valid entries are its first
n, n the number of booths seen, one for each, with what was heard last
(`Lists`). An announcement finds its entry or the first free one, and there is a
free one as a booth not yet in the table makes n smaller than the number of booths.
The choice starts below every score: 20 waiting users at the worst strength, -127 dBm,
come to -327, and the code starts at -1000. Assumed: no more booths
than `MAX_BOOTHS` (IDs 1 to 3 and 3 entries, `L3_msg.h:40-46`), and of what booths
announce that nobody has more users inside than places (proved of `Booth`)
and no more than `MAX_USERS` waiting, `MAX_USERS` at most 87 (20 in the code).

*Popin.* A message SUCCESS in layer 2's place was made by a booth in the handler
that registered its receiver, and a booth never forgets who was registered;
hence every message of `link[b]` is `Sound`: whoever may take it for its own is
registered. Redirection changes the receiver, which is harmless if there is only
one. The lists of a booth in company obey the theorems of a booth alone, because
every step of `Popin` is one of `Booth` or leaves the booths as they are
(`BoothStep`). `P` is `Booth` with its proofs, `B` the instance that `Popin`
composes; a few lemmas show that their operators agree. Assumed: boards are
booths or users but not both, booth 0 and the broadcast are no boards, the scan
order lists booths, and what `Booth` assumes.

*Popin, in order.* Where nothing is late or lost, messages can still be
replaced, and of a user and its booths something is always under way. `Standing`
adds to the types what is under way for each user (`Clear`). At most one message
decides its fate, a request of its own, an answer, a farewell or a 0/0
(`AtMostOne`). A request finds the user in the state it was made in
(`RequestsFit`), an answer one that can take it (`AnswersFit`), a farewell
one who is inside nowhere (`FarewellsFit`), a 0/0 one whom nobody calls
(`RemovalsFit`); whoever is inside a booth knows it or SUCCESS is under way
(`InsideKnown`), keeps it as its current booth (`BoothKept`), and a call under way is
one its booth waits for (`CallsFit`, `CalledOnce`). What a booth says to a user in
a handler depends on how the user stands in its lists, which is a lemma for each
handler of `Booth` (`Tells`, `Treats`, in `BoothProofs`).
A handler that makes several requests replaces what it told before, and an
invariant of what *may* be under way does not mind; nor does it mind that the next
handler of the same pass replaces it (`JustChecked`, `JustAnnounced`). The induction needs
`QueuedAtOne`: two booths that have the user in their queues may decide its fate
at the same time. That nobody stands in two queues is false in general, so it is a
hypothesis of the theorems and not a lemma; with one booth it holds by itself,
and for two users it is proved next. A user on its own never waits, so that the end of
its session is never replaced by a call (`NobodyWaits`, `EndTold`), nor, if the
booths are silent, by an announcement: hence `AgreeWhoIsInside` for it and the violation of `PopinFarewellLost` for two.

*Popin, two users.* A user may stand in a queue without knowing it (`QUEUE_INFO`
ignored, L3:671) and go elsewhere, so no look at the user alone tells that it waits
at one booth. The invariant `Pair` says what such a queue needs.
Who waits at a booth is not registered there, and the other user is; while
somebody is in the queue the booth is full and calls nobody, and during a call
nobody is inside (`Waits`, kept by every handler of `Booth`, at the
end of `BoothProofs`). And the booth holds that other user (`Held`): it is inside
there as it sees it, with no farewell of any booth under way, or is being told
SUCCESS. This outlasts its session, because the handler that strikes it off calls the
one who waits, and the call replaces the farewell (`KeepsWaits`: afterwards it is
inside, or was waited for before and has not been told to leave). Nobody is held by
two booths (`HeldOnce`), a user has one current booth, so nobody waits at two. A third
user breaks the argument at its first step: the two queues then wait for
different others.

*Arq.* `OneAtATime` and `WaitIsTimed` need two facts more. `Filled`: a set flag
or a running timer means that the buffer its handler will read is filled.
`OneEnd`: `dataTxDone` and `ackTxDone` are never both set; TX handles one and
leaves, and would leave the other behind. Assumed: links between boards, a
modulus above 0, an idle radio told from one that sends.

*Arq, order.* Of the data frames of one board, wherever they are (in `arqPdu`, in
the air, in a receive buffer), the later message has the larger number; and where a
message or a later one has arrived, its number is no longer expected
(`NumbersInOrder`). What is around looks like what its sender requested (`Shape`).
It needs that no number has come round, which `NoWrap` says of the behaviours
considered: fewer than `SEQ_MOD` (256 in the code) increments. One `seqNum`
counts what is sent and what is taken, for all peers, so that longer runs repeat
numbers that are still around. A board that broadcasts is left out: its frames
are taken whatever their number.

*Arq, intactness.* An acknowledgement is harmless at a board whose number is
above its own (`AcksBehind`), as it is then discarded like an old frame, and it is
above unless a sender was ahead; so nothing but data is kept (`Clean`).

*Arq, the link.* If only a sends, and only to b, what has arrived last is the last
thing in b's buffer or older, and b does not expect its number (`LatestArrived`);
that gives order and no duplicates, and needs no more than that two numbers that follow
each other differ. Until something is given up, a and b are one number apart at
most and the acknowledgements on their way are of this number or the one before
(`InStep`), so that what is confirmed has arrived. Assumed beyond the above: a
modulus of at least 2.

*Segments.* As long as a message is not disturbed it is the latest of its
board; what the receiver has of it is its beginning and all that is in the
receiver's buffer (`Pure`), and the frame under way, the next frame and the rest
continue it without a gap to its full length (`Current`, `Ending`, `Fits`). A byte of
another message on the way to the receiver does no harm before it arrives, and
then it disturbs both. The last frame therefore completes the message exactly.
`Later` keeps the order: what was indicated of a board is older than what is
still under way. Assumed: lengths and frames of at least one byte.

*ArqSteps.* The same facts are stated of `Left`, the word the main loop is going
to write, so that they outlive an overwritten event: losing a flag can only make
the machine wait, never act on an empty buffer. Added are `WordRead` (what has
been read is in memory still, and what will be written is part of it) and
`InHandler` (where in the handler of a frame the machine may stand). `Stuck` says
of each board that a missing end of the wait is in `lost`, or is set in memory
and about to be overwritten.

*SessionClock.* A check ends only the first session that is over, and a session
moves up a place whenever one before it has ended. The session in place i has
moved up at most `MAX_BOOTH_CAPACITY` - i places, so it has waited for no more
checks than that: `Slack(i)` is their time.
The age modulo 2^32 is the true age while no lap lies in between. Assumed: both
durations, and the checks they may have to wait for, fit into one lap (120 s
against 71 minutes).

Only model-checked: all liveness. The type
invariant of `ArqSteps` is proved and not part of its run. Out of
the prover's reach: fairness and `ENABLED`, and induction over data. The loop over
the scan table is stated by what it finds (the first entry, the best score) and
not step by step, and the bytes of a message by their places, so that neither
needs induction.

## 6. Plan

1. Done: the modules above. After the first round these were added: the flags
   as read and written halves (`ArqSteps`), two booths in the orderly world, the
   table in the user machine (`UserScan`), several senders and requests at any
   moment (`Segments`), and the proofs of the queue, the clock, `ArqSteps` and
   `Popin`; after the second the proofs of `UserScan`, of order, intactness and the
   link in `Arq`, of `Segments`, and of users and booths in order; after the third
   the proof that two users never stand in two queues; after the fourth the passes
   that serve two counters or combine a check, an announcement and a message, a
   second board that broadcasts in `ArqSteps`, and the searches with three and four
   users.
2. Next models: a second arrival of a message in `Popin`; handlers of layer 3
   split at their requests, with a key in between; the flags of layer 3; a user
   who is turned away by the nearest booth for ever (L3:1171); chat lines that
   outlive their session.
3. Next proofs: order and intactness of `Arq` for the cut passes of `ArqSteps`, as
   long as no event is lost and the buffer is not overwritten.

## 7. Not modelled, and why

The radio library (binary; `Arq` takes from its use what it promises), mbed,
texts and layout, byte offsets of messages, the build without ARQ, the change of
a board's ID at run time (layer 3 never asks for it). The headers in `src/mbed`
are nearly all of the repository's lines (about 170000): register definitions and
drivers of the processor family, of which this program uses a timer, a serial
port and the ticker whose width `SessionClock` models.

Interrupts are atomic except in `ArqSteps`. There the radio and the timer
interrupt layer 2 anywhere, but the handlers and the flags of layer 3
(`L3_FSMevent.cpp`, changed by the same two halves) stay whole, and so does
`L2_LLI_handleDataReq`, which a key can interrupt between the destination and the
copy of the message. Delivery twice is left out of `Popin`: `InOrderOnce`
excludes it for boards that only unicast, while passes are whole and numbers do not
wrap; `ArqDuplicate` and `ArqRepeatedAsBroadcast` show cases in which it happens. `InUseWasAdmitted` holds of a user alone; with
others about, redirection breaks it (`PopinMisdirected`). Crash and restart are
not modelled: nothing is stored, a restarted board is a new one with empty lists.
