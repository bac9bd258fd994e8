# TLA+ model of the CoAP gateway (coap_thread)

The program is a gateway between a data centre and line terminal units (LTUs).
One process runs three threads. Requests for devices go through a POSIX message
queue to the CoAP thread, which sends them over UDP with libcoap, remembers each
in a list, and tells the sender when the time allowed for it is over.

This directory holds a model of that process, the TLC configurations that check
it on small instances, and theorems about it whose proofs TLAPS checks.

    tlc -config MCGateway_console.cfg MCGateway      (and the other MCGateway_*.cfg)
    tlc -config MCSendQueue_timers.cfg MCSendQueue   (and MCSendQueue_burst.cfg)
    tlc -config MCStructures.cfg MCStructures        (and MCStructures_alias.cfg)
    tlapm M.tla    with M one of SequenceLemmas, Gateway_proofs, SendQueue_proofs,
                   RequestList_proofs, UtList_proofs, MergeSort_proofs,
                   UtHash_proofs, Message_proofs

## 1. Inventory

### Parts, state, operations

| Part | Source | State | Operations that change it |
|---|---|---|---|
| CoAP thread | `CoAPpthread.c:379-530` | `tmp` (in particular `tmp.req`), the global `path` and `host`, `time_now`, the sweep's `pt` | one loop: take a message or retransmit; read one datagram; sweep the list; wake the telemetry round |
| message handler | `CoAPpthread.c:142-347`, a callback of `coap_dispatch` | `cnrList` (never assigned), blocks of a transfer, LTU data | acknowledge a confirmable response, decode telemetry, collect blocks |
| request list | `list.c`, `utlist.h` | `PthreadRequestList`, elements with `time` and `pthpara` | append, delete, find by id (find is never called) |
| message queue | `main.c:63-73`, `mq_*` | `/CoAPRecvMq`, 16 messages, `O_NONBLOCK`; kept by the kernel when the process ends | `mq_send` (result ignored), `mq_timedreceive` |
| console thread | `test.c:33-100` | the `sPthreadPara` of each command | `l`: block request; `a`: telemetry request, then wait on `askcond` for ever |
| telemetry thread | `YCpthread.c:101-166` | `YCRequest`, `DeviceInfo` (`num`, `time`, `pLTUInfo`) | fetch the devices, open a round, post one request per device, wait, report |
| process | `main.c:47-115` | — | opens the queue, starts the threads |
| token, clock arithmetic | `CoAPpthread.c:47-110` | `the_token` | next token; a `timespec` some microseconds ahead |
| PDU and options | `CoAPpthread.c:111-140, 532-605` | — | build a request with its options in order |
| libcoap 4.1.1, client side | static library; `coapinclude/net.h`, `pdu.h`, `option.h`, `bits.h`, `coap_list.h`, `coap_time.h` | `sendqueue` with relative timers and `sendqueue_basetime`; PDUs; option filters and iterators | send, retransmit, dispatch, remove an acknowledged node; add an option, walk the options |
| libcoap, server side | `resource.h`, `subscribe.h`, `async.h`, `block.h`, `uri.h` | resources, observers | not used: the gateway registers no resource |
| list and hash macros | `utlist.h` (the same file in `src/` and `coapinclude/`), `uthash.h` | pointers in the elements; table, buckets, filter | add, delete, iterate with deletion, sort; add, find, delete, grow, sort, clear |
| `function.c` | `function.c` | — | not in the build |
| magicbox, zlog | binary libraries, `mb*.h`, `zlog.h` | LTU database; log | `kh_*`; logging |

### How they interact

- Console and telemetry thread -> CoAP thread: `mq_send` of a
  `struct sCoAPNewRequest`, which carries the *address* of the sender's
  `sPthreadPara` (NULL from the telemetry thread).
- CoAP thread -> console: `pthpara->timeout = true` and a signal of `askcond`.
- Telemetry thread -> CoAP thread: `YCRequest` and `DeviceInfo.time`, written
  under `YCRequestmtx` and read without it.
- CoAP thread -> telemetry thread: a signal of `YCRequestcond`, repeated in every
  loop once 300 s have passed.
- libcoap -> CoAP thread: `message_handler` is called inside `coap_dispatch`.

### What is hard, and what makes each part correct

- *CoAP thread.* Its loop mixes four duties. It must take each accepted message
  over once and in order, judge deadlines by a time sampled after the datagram was
  handled, tell each sender at most once and never early, and go on for ever.
- *Request list.* The sweep deletes and frees the element it stands on. It must
  overlook no overdue element and take out no other.
- *Message queue.* It is bounded, its refusals go unnoticed, and it outlives a
  crash: the next process finds messages with addresses of the dead one.
- *Console.* A condition variable without a predicate: the wake-up is lost when
  it comes before the wait, and never comes when the request was refused.
- *Telemetry thread.* The round's wait must end although a signal before it is
  lost; the round must not be woken before its time.
- *Message handler.* An answer should complete its request; in the code as it is
  none does.
- *Send queue.* Every time in it is relative, to the node before or to a base time
  of a tick counter that wraps, so each insertion, removal and comparison can move
  the time of a message it is not about. Transaction ids collide, `sendto` fails,
  acknowledgements are lost. Each message must wait exactly once, be resent when
  its own time has come, and be settled in the end.
- *Token and clock arithmetic.* The carry of the nanoseconds and the length of a
  token: a deadline must be valid and prompt, a token must not come again.
- *PDU and options.* Option numbers travel as differences with escape codes, so
  order decides what the device reads; failures of `coap_add_option` are ignored;
  filters hold the numbers below 64 only. What is sent must be what was inserted,
  a search must find what it looks for, a message must be refused exactly for the
  critical options the gateway does not know.
- *Answers.* One datagram passes through `coap_dispatch`, the handling of requests
  and `message_handler`, each of which may answer it: a confirmable message must be
  answered once, and an answer must not be answered.
- *List and hash macros.* Pointers are changed one after the other, elements are
  deleted under the feet of a loop, a sort takes the list to pieces, and an
  addition may move every item to another bucket. Nothing may be lost, repeated,
  or visited twice.

The hazards, each at its line and with the properties that watch it, are listed
in `PROJECT.json`.

## 2. Modules

| Module | Models | Role |
|---|---|---|
| `GatewayState` | what the threads share, the message queue, start, crash and restart of the process, the clock | constants, variables, `Init`, `MqSend`, `Die`, `Restart`, `Tick` |
| `CoapThread` | `CoapPthread`, `message_handler`, the list operations | `CoapStep` |
| `Console` | `testpthread` | `ConsoleStep` |
| `YCThread` | `YCPthread` up to line 132 | `YCStep` |
| `Gateway` | the composition | `Next`, `Spec`, `FairSpec`, the properties |
| `RequestService` | what becomes of a request, with no threads, queue or list | abstract specification |
| `RequestList` | `list.c` on the pointers of `utlist.h`, and the sweep of `CoAPpthread.c:504-517` | one action per pointer step |
| `NodeQueue` | `coap_queue_t`: insert, unlink, pop, remove | operators on a queue of relative times |
| `SendQueue` | libcoap's send queue as the loop of `CoapPthread` drives it, with ticks that wrap | `Spec`, `FairSpec`, the properties |
| `RetransmitTimers` | one absolute time per waiting message | abstract specification |
| `RequestPdu` | option list, `coap_new_request`, option iterator and filter, check of critical options | `PduSpec`, the properties |
| `Exchange`, `Dispatch` | `coap_read`, `coap_dispatch`, the answers to requests, and what `message_handler` sends | `Spec`, the properties |
| `WallClock`, `Token`, `ClockToken` | `delay_us_at_TimesSpec`; the bytes of a token; `creatTheToken` | `ClockToken` composes the two |
| `Chains` | what it means that pointers are a list | shared by the next three |
| `ListState`, `UtList` | adding, deleting and FOREACH_SAFE for single, double and circular lists | |
| `SortState`, `MergeSort` | `LL_SORT`, `DL_SORT`, `CDL_SORT`, `HASH_SRT` | `Spec`, the properties |
| `UtHash` | the hash table of `uthash.h` | `HashSpec`, the properties |
| `MCGateway`, `MCSendQueue`, `MCStructures` | — | instances for TLC |
| `SequenceLemmas`, `*_proofs` | — | lemmas and theorems |

`Gateway` extends the three thread modules, which share `GatewayState`.
`RequestService` is instantiated in `Gateway` with a refinement mapping, and
`RetransmitTimers` in `SendQueue`. `Gateway` takes two parts for granted, each
then modelled in full on its own: the request list is a sequence there, which
`RequestList` shows of the pointers (`ListIntact`), and a request waiting for its
acknowledgement is a member of `unacked`, whose timers are `SendQueue`.
`MCStructures` puts the data structures into one run: its variable `part` picks
the structure a behaviour exercises, and the others stand still.

### State and actions of the gateway

| Variable | In the program |
|---|---|
| `now` | `time(NULL)` |
| `mq` | the content of `/CoAPRecvMq` |
| `pc` | the point the CoAP thread has reached in its loop; `"dead"` when no process runs |
| `tmpReq`, `path`, `timeNow`, `cursor` | `tmp.req`, the global `path`, `time_now`, the position of `pt` |
| `list`, `stamp` | `PthreadRequestList` as the sequence of its elements, and the `time` in them |
| `unacked` | the requests in libcoap's `sendqueue` |
| `mapped` | the requests whose `pthpara` is an address of the living process |
| `asker` | the console thread after `a`: before its wait, in it, woken |
| `yc`, `ycTime` | the point the telemetry thread has reached, `DeviceInfo.time`; `YCRequest` is `yc # "fetch"` |
| `posted`, `refused`, `sentPath`, `answered`, `told` | history: what `mq_send` accepted and refused, what was transmitted, answered and told a timeout |
| `restarts` | how often the program was started again |

| Code | Action |
|---|---|
| `CoAPpthread.c:417-485`, a message came | `AcceptRequest` (with `Remember`, `Transmit`); `DiscardRequest` when `tmp.req` holds `LTU_NOACK`; `AcceptOutOfMemory` |
| `486-496`, queue empty | `Retransmit` |
| `498-502`, one datagram, `time_now` | `ReadNothing`, `ReadAck`, `ReadResponse`, `ReadContent` (each with `StartSweep`, except the one that ends the process) |
| `504-517`, one element | `SweepExpire`, `SweepKeep`, `SweepFault` |
| `518-520`, then `521` | `SweepDone`, then `SignalRound`: the telemetry thread may act between the test and the signal |
| `test.c:47-57`, `58-69`, `72` | `CommandBlock`, `CommandAsk`, `EnterWait`, `CommandOutOfMemory` |
| `YCpthread.c:113`, `114`, `116-130`, `131` | `OpenRound`, `TimeRound`, `PostPoll`, `AwaitRound` |

### State and actions of the other modules

| Module | State, and what it is in the program | Actions, and the code |
|---|---|---|
| `RequestList` | `head`: `PthreadRequestList`; `next`, `id`: fields of the elements; `allocated`: what `malloc` gave and `free` did not take back; `pc`, `el`, `tmp`, `pt`, `wanted`: the operation under way and its locals; `order`, `seen`: history | `Add`, `AppendWalk`, `AppendLink` (`addPthreadRequesttoList`); `Find`, `SearchWalk`, `SearchReturn` (`findPthreadRequestfromListbyid`); `SweepStart`, `SweepKeep`, `SweepEnd`, `DeleteHead`, `DeleteStart`, `DeleteWalk`, `DeleteUnlink` (`CoAPpthread.c:504-517` with `deletePthreadRequestfromList`, and the `next` read after `free`) |
| `SendQueue` | `clock`: the time, of which `coap_ticks` shows the lower bits; `basetime`: `sendqueue_basetime`; `sendqueue`: its nodes; `tid`: the transaction id of each message; `pc`, `sampled`: the loop and the ticks it compares with; `timeout`, `attempts`, `lastSent`, `acked`: history | `SendRequest` (`coap_send_confirmed`), `NoRequest`, `Resend`, `ResendDone` (`CoAPpthread.c:486-496`), `ReadAck`, `ReadOther` (`498-500`), `Tick` |
| `RequestPdu` | `optlist`: the `coap_list_t` under construction; `pdu`: length, last option number and encoded options; `oi`: the iterator; `inserted`, `sent`, `asked`, `returned`: history | `Insert` (`coap_insert` with `order_opts`), `NewRequest` (`coap_new_request`), `Receive`, `Search` (`coap_check_option`, `get_block`), `coap_option_next`, `coap_delete_pdu` |
| `ClockToken` | `now`, `deadline`: argument and result of `delay_us_at_TimesSpec`; `token`: `the_token`; `issued`: history | `Turn`, `creatTheToken` |
| `Dispatch` | `datagram`: the received node; `stage`: the function that has it; `replies`: what was sent for it; `awaited`: the node in the asker's `sendqueue`; `lapsed`, `echoes`: history | `coap_read`, `coap_dispatch` (with `Classify`, `handle_request`), `message_handler`; `Echo`: a reply reaches a station with the same library |
| `UtList` | `ring`: head, next, prev; `style`: the family of macros; `loop`: the locals of a FOREACH_SAFE; `listed`, `due`: history | the macros by their names; `ForeachSafe`, `ForeachNext`, `ForeachEnd` |
| `MergeSort` | `chain`: the pointers; `sort`: the locals of the macro; `kind`, `key`, `length`: the input | `StartPass`, `StartMerge`, `MergeP`, `MergeQ`, `EndMerge`, `EndPass` |
| `UtHash` | `app`: the chain in application order; `tbl`: `UT_hash_table` with its buckets; `hashv`: the hashes; `added`: history | `HASH_ADD_KEYPTR`, `HASH_DELETE`, `HASH_CLEAR`; the other macros are operators |

### Abstractions and what they rest on

- A request has an identity and is submitted at most once. The code has no
  such identity; without it a property could not follow a request.
- Times are whole units; 3 s, 30 s and 300 s keep their order or coincide.
- libcoap's retransmission timers in `CoapThread`: whenever the queue is empty,
  any set of PDUs may be given up. What matters there is only that they leave
  `sendqueue`; `SendQueue` has the timers.
- A device may answer a request it was sent at any time and any number of times.
  An answer is an acknowledgement without code, a response, or a response that
  reaches `message_handler`'s read of `cnrList`.
- The read of the uninitialised `cnrList` is undefined; the optimising compiler
  takes it for NULL and removes the comparison of `memcpy`'s result with 0, so
  the read is a null dereference. A NULL or stale `pthpara` ends the process too:
  the address of a block of a dead process is taken to be unmapped.
- `tmp.req` is uninitialised when the thread starts. `UninitReqs` says what it may
  be found to hold; `LTU_TX_BLOCK` behaves as `LTU_YC` does, since the first
  message overwrites both.
- The freed list element's `next` is read after `free`. In glibc the field lies
  behind the bytes a freed chunk reuses, so it is intact; the model continues at
  the successor.
- `askcond` and `askmtx` of an `l` request are never initialised; the signal of
  line 511 is taken to find nobody and to return.
- `pthread_cond_wait` with an unlocked mutex passes in glibc and returns with the
  mutex locked; the following `pthread_mutex_lock` then never returns. Spurious
  wake-ups are left out. `testpthread` waits again after a wake-up (`test.c:70-74`);
  its request is over then, and the model leaves it in "here".
- The type a telemetry request asks for after nine failures
  (`YCpthread.c:124-125`) is not looked at by the CoAP thread.
- The clock does not go backwards. An external supervisor may start the program
  again after a crash.
- The failure of an option node's allocation has no state of its own: it leads to
  a request with fewer options.

Of the other modules:

- The bodies of libcoap's functions are not in the repository as source. They are
  read from the object code of the static library it ships, and mapped to the
  declarations in `coapinclude/`.
- `SendQueue`: `coap_transaction_id` folds a hash to 16 bits, so any two messages
  may share an id. A retransmission that `sendto` refuses leaves the node with
  `COAP_INVALID_TID`. A separate response does not stop the retransmission of its
  request: `coap_dispatch` looks for none. Every request is confirmable, as
  `CoapPthread` makes them. A unit of the clock stands for a fixed number of ticks.
- `RequestPdu`: an option value is which option it is and how long; the payload of
  a request is always empty in this code, and is left out. The callers insert
  host, path and block in this order; the model inserts them in any order and more
  than once, so that `order_opts` has something to decide.
- `Dispatch` has one datagram at a time: `readCoAPFrame` reads one, and
  `coap_dispatch` empties the receive queue. The multicast test of a request reads a
  local address `coap_read` leaves uninitialised, so a request other than GET may
  stay unanswered. Without a resource `GET` is answered with 4.04, or with an empty
  list for `.well-known/core`. A station keeps nothing of an exchange but the message
  it waits for.
- `RequestList`: the failure of `malloc` changes nothing, so it has no action.
- `UtList` has `LL_APPEND` and `LL_DELETE` in the form for compilers without
  `decltype`; the form `list.c` is compiled with is in `RequestList`.
- `UtHash`: keys differ, as `uthash` demands, and an item stands for its key. Any
  assignment of hash values is allowed, in place of the hash functions.
  `HASH_BLOOM` is modelled although the build does not define it. The macros of
  `uthash.h` and of the double and circular lists are used by libcoap's resources
  only, on which the gateway does not call.

## 3. Runs

| Run | Question | Result |
|---|---|---|
| `console` | Are deadlines, sweep, order and conservation right, with commands, answers, losses and a telemetry round interleaved? | holds, about 1 730 000 states |
| `crash` | Do the inductive invariant, the order and the request service survive every way the process can die, and a restart on the same queue? | holds, about 600 000 states |
| `progress` | Does everything taken over end, is the queue served, does the telemetry wait end, with one crash included? | holds, about 300 000 states |
| `answered` | Is an answered request spared the timeout (`wgconfig.h:48`)? | violated: no answer removes an element |
| `stranded` | Does a console thread that waits have its request under way (`wgconfig.h:48`)? | violated: full queue, or the signal came first |
| `path` | Do telemetry requests go to the telemetry path (`YCpthread.c:110`)? | violated after a block request |
| `polls` | Does the sweep find a `timing` in each element (`CoAPpthread.c:508`)? | violated by the first telemetry request |
| `early` | Is the round woken only 300 s after it began (`wgconfig.h:74`)? | violated: `YCRequest` is seen before `DeviceInfo.time` is set |
| `timers` | Does the queue of relative times give each message a time of its own, lose none and settle each, with colliding ids, failing `sendto` and ticks that wrap? | holds, about 1 060 000 states |
| `burst` | Is a message resent only when its timeout has passed since it was last sent (`pdu.h:22`, `net.h:54`)? | violated: the base time is never adjusted |
| `structures` | Are the list, the macros, the PDU, the deadline, the token and the answers right after every step? | holds, about 260 000 states |
| `alias` | Does `coap_check_option` return an option of the type asked for (`option.h:222-224`)? | violated: types count modulo 256 |

The properties of the passing runs:

- `TimeoutJustified`: who was told a timeout had its time, and its request is in
  neither list nor queue any more.
- `SweptIsFresh`: behind the sweep's cursor nothing is overdue.
- `ArrivalOrder`: list and queue together are in the order of acceptance, across
  threads and restarts.
- `NothingLost`: in the first process, with memory, every accepted request is
  queued, listed or told.
- `LeavesOnlyTold`: an element leaves the list only by its sender being told, or
  with the process.
- `ImplementsService`: every step is a step of `RequestService`. It says what the
  gateway as built keeps: a full queue loses the request, a crash loses what was
  taken over and at most one queued request, and what was told or lost stays so.
- `AcceptedTold`, `QueueServed`, `RoundWoken`: liveness.
- `SentAwaited`: a message that was sent and is neither acknowledged nor given up
  has one node in the send queue.
- `GivenUpExhausted`: a message leaves the queue only acknowledged or after its last
  retransmission.
- `FirstTimeoutKept`: the first retransmission waits for the timeout drawn, although
  the node's time counts from an older base and from other nodes.
- `ImplementsTimers`: every step of the queue is a step of `RetransmitTimers`: it
  arms, cancels or fires one message, the earliest first, and moves no other.
- `Settled`: every message is acknowledged or given up in the end.
- `LInv`, `ListIntact`, `SweepExact`, `SearchExact`, `WalkEnds`: after each pointer
  assignment the pointers are the list; sweep and search examine each element once
  and in order, and each walk ends.
- `MergeConserves`, `RunsSorted`, `Relinked`, `SortEnds`: in the middle of a merge no
  element is lost or doubled; each pass leaves runs of twice the length, stable;
  back pointers, ring and tail are whole again; the sort ends.
- `DoubleLinked`, `LoopExact`: any sequence of additions and deletions leaves a
  proper list; a FOREACH_SAFE visits what was in the list once, whatever its body
  deletes.
- `TableSound`, `FindExact`, `GrowthJustified`: what `HASH_FSCK` asserts; a key is
  found exactly while it is in the table, through every doubling; the table stops
  growing only where growth does not help, and for good.
- `RequestExact`, `FilterExact`, `CriticalExact`: a reader of the PDU decodes exactly
  what was inserted; a filtered walk returns exactly the matching options; the check
  of a message's options passes exactly if it has no unknown critical one. The options
  matching a filter are those of the types the caller asked for (`asked`), as far as
  these go up to `COAP_MAX_OPT`, 63: an option beyond it passes no filter even if asked
  for, which `coap_option_setb` reports to a caller that does not look. The gateway asks
  for 3, 11, 23 and 27 only; the run also asks for 65, with such an option in the
  message. The last two
  speak of messages whose option numbers are below 256 (`Narrow`): beyond it numbers
  alias in the filter, which is what `alias` shows.
- `DeadlinePrompt`, `TokensDistinct`: the deadline is a valid `timespec`, never early
  and at most a nanosecond late; a token does not come again while the counter goes
  round once.
- `AnsweredOnce`: a confirmable message gets one ACK or RST with its message id,
  whichever of five places answers it, unless sending fails; nothing else is
  acknowledged. `message_handler` acknowledges before it looks at the options, so a
  response it then drops is answered too.
- `ExchangeEnds`: what was sent in answer is not answered by a station with the same
  library, and ends its wait for the message it asked with.

### Bounds, and why they are enough

- `console`: three requests of both kinds and a queue of two, so the queue fills
  and refuses; the list holds up to three elements, enough for the sweep to delete
  at the head, at the end behind elements it keeps, and twice in a row. (An `a`
  request is the console's last, so it never stands before another; the theorems
  have no such limit.) Timings 1 and 2 let a
  later request expire before an earlier one. The clock takes three steps from its
  start: enough for each request to expire, with and without another taken over
  in between.
- `crash`: two telemetry requests and an `a` command, with `AllocFails`, a
  `tmp.req` of `LTU_NOACK`, answers that end the process, and one restart; what
  the second process does about the messages of the first does not depend on how
  many processes came before.
- `progress`: one request of each kind and one restart. `YCTimeout` is 2 here and
  in `crash`, so that the round ends within four units.
- `StartTime` equals `YCTimeout`: a real clock value is more than 300 s from the
  zero in a fresh `DeviceInfo.time`, which is what the finding of `early` needs.
- `MaxTime` stops the clock; liveness is asked only of what falls due by then.
- `MQMax` is 1 or 2 for 16, `MaxRestarts` at most 1.
- `SendFails` is TRUE in `console` and `crash`, where `sendto` may refuse any request,
  with or without `AllocFails`. In `progress` it is FALSE: whether a request left the
  gateway decides nothing about its list element, its deadline or the queue, and the
  states double.

- `timers`: two messages, so that each insertion, removal and retransmission has a
  neighbour before or behind; ids that differ or collide; two timeouts, so that
  either may be due first. `TickMod` is 32 for 2^32 and the clock runs from 28 to 35,
  across the wrap; `MaxRetransmit` is 2 for 4. `SendQueueAssumption` asks only that
  the longest timeout counted from the first tick stays below `TickMod`; in the
  program, with 1024 ticks a second, the counter wraps after 48 days.
- `burst`: four retransmissions as in the program; eight units are enough for two
  of them to be due at once.
- `structures`: four nodes in the request list, so a deletion happens at the head,
  inside and at the end, and after another one in the same sweep; lists of three
  for the macros and of up to five for the sorts, which is two full runs and a
  short one; three keys, so equal ones occur. Five items in a hash table that
  begins with one bucket of capacity 1 (for 32 and 10) go through several doublings;
  the hash values 0, 1 and 4 collide in small tables and part in larger ones, or
  never part, so the table also stops growing. Option lengths on either side of 13
  and at 255; received option numbers on either side of the filter's limit of 64,
  known and unknown, odd and even. The instants are those around the carry, with
  the real `Delay` and `Second`. A counter of three digits to the base 3 wraps
  after 27 of 30 tokens.
  Codes on either side of each limit between requests, responses and the
  rest; two message ids, so that an answer may carry the awaited one or another.
- `alias`: one option number above 255 is enough.

Deadlock is checked in `console`, where the process never dies. In the other runs of
the gateway it may die for good; the clock of `SendQueue` stops at `MaxClock`; a
finished sort and a full bound of `MCStructures` are ends. So those systems may stop.

### Fairness

`FairSpec` of `Gateway` adds weak fairness of `CoapStep` and of `Tick`. The CoAP
thread's loop never blocks for good: the queue is non-blocking, `select` has a
timeout of 200 ms, and its other calls do not wait. Time passes. Nothing is assumed
of the console's users, the devices, the database or the supervisor. Nothing is
assumed of the telemetry thread either: `RoundWoken` starts from its wait.

`FairSpec` of `SendQueue` is the same assumption on its part of the loop: `LoopStep`
and `Tick`. That the loop finds the message queue empty again and again, and so
comes to retransmit, follows in the model from the number of messages being finite,
not from fairness. No datagram is assumed to arrive.

`MCSpec` assumes that a walk over the request list and a sort, once entered, go on:
they are code of a running thread that calls nothing that waits.

## 4. Proofs

Each module of proofs extends the module it is about; `SequenceLemmas` holds the
facts on sequences they share. Nothing is assumed beyond the named assumptions on
the constants, which TLC evaluates on every run.

| Module | Theorem | States | Assuming |
|---|---|---|---|
| `Gateway_proofs` | `TypeCorrect` | `Spec => []TypeOK` | `GatewayAssumption` |
| | `InvariantHolds` | `Spec => []IInv` | |
| | `TimeoutsJustified` | `Spec => []TimeoutJustified` | |
| | `SweepComplete` | `Spec => []SweptIsFresh` | |
| | `NothingIsLost` | `Spec => []NothingLost` | |
| | `OnlyToldLeave` | `Spec => LeavesOnlyTold` | |
| | `OrderKept` | `Spec => []ArrivalOrder` | |
| | `GatewayServes` | `Spec => ImplementsService` | |
| `RequestList_proofs` | `ListCorrect` | `Spec => []LInv` | `ListAssumption` |
| | `ChainIntact` | `Spec => []ListIntact` | |
| | `SweepComplete` | `Spec => []SweepExact` | |
| | `SearchFindsFirst` | `Spec => []SearchExact` | |
| `SendQueue_proofs` | `TypeCorrect` | `Spec => []TypeOK` | `SendQueueAssumption` |
| | `NoneLost` | `Spec => []SentAwaited` | |
| | `GivenUpLast` | `Spec => GivenUpExhausted` | |
| | `FirstTimeoutHolds` | `Spec => FirstTimeoutKept` | |
| | `QueueIsTimers` | `Spec => ImplementsTimers` | |
| `UtList_proofs` | `ListsStayLinked` | `Spec => []DoubleLinked` | `MembersAssumption` |
| | `LoopsAreExact` | `Spec => []LoopExact` | |
| `MergeSort_proofs` | `SortInvariant` | `Spec => []SInv` | `SortAssumption` |
| | `MergesConserve` | `Spec => []MergeConserves` | |
| | `RunsAreSorted` | `Spec => []RunsSorted` | |
| | `SortsRelink` | `Spec => []Relinked` | |
| `UtHash_proofs` | `HashSound` | `HashSpec => []TableSound` | `HashAssumption` |
| | `HashFinds` | `HashSpec => []FindExact` | |
| | `HashGrows` | `HashSpec => GrowthJustified` | |
| `Message_proofs` | `EveryConAnsweredOnce` | `Spec => []AnsweredOnce` | — |
| | `ExchangesEnd` | `Spec => []ExchangeEnds` | — |
| | `DelayPrompt` | `ClockSpec => []DeadlinePrompt` | `ClockAssumption` |
| | `TokensAreDistinct` | `ClockSpec => []TokensDistinct` | `TokenAssumption` |
| | `PduInvariant` | `PduSpec => []PduInv` | `PduAssumption` |
| | `RequestsExact` | `PduSpec => []RequestExact` | |
| | `FiltersExact` | `PduSpec => []FilterExact` | |
| | `CriticalsExact` | `PduSpec => []CriticalExact` | |

`GatewayAssumption`: the three kinds of requests are disjoint and finite in number,
the queue has room for at least one message, times and bounds are natural numbers.
`ListAssumption` and `MembersAssumption`: the null pointer is no element.
`ClockAssumption`: the delay is shorter than a second, and `tv_nsec` is below a
second. `TokenAssumption`: a byte has at least two values. `SortAssumption`: the kinds are
among the four macros, lengths are natural numbers and what `cmp` compares is integers.
`HashAssumption`: there are finitely many items, none of them the null pointer, hashes
are natural numbers, and a new table has at least one bucket; no more is asked of the
hash function, so every item may fall into one bucket.
`PduAssumption`: an option value is at most 255 bytes long (`respath` has 256,
`wgconfig.h:62`), so `coap_new_request` writes no extended length beyond one byte; a
token and `ListMax` options, each with at most five bytes besides its value, fit into
`MaxSize`; a received option number is an `unsigned short`, and a number a caller asks
for is an `unsigned char`. `FilterAssumption`: `COAP_OPT_ALL`, the null pointer, is no filter.
`SendQueueAssumption` is explained under Bounds. The theorems hold for every number of requests, messages and list elements,
every queue size, every timing and any number of restarts.

*The gateway.* None of its invariants is inductive alone. `TimeoutJustified`
could be broken by stamping a told request again, so `IInv` adds `InOnePlace`: a
request is at one place of queue or list at most, and at none after it was told.
That in turn needs every queued request to be in `posted`, so that no second copy
can be submitted. `Overdue` is judged with `time_now`, so a told request is
justified only because `timeNow <= now`. `NothingLost` needs `DeadIsStill`, since
a step of a thread that outlived its process could post without being counted. The
proof goes action by action: steps that leave queue, list, stamps and history
alone are settled by one frame lemma; `AcceptRequest`, `SweepExpire`, the
submissions, death and restart have a lemma each. The sweep's deletion rests on
`RemoveAtProperties` and `RemoveAtSet` of `SequenceLemmas`: the elements behind
the deleted one move up by one and nothing else changes, so the cursor that stays
put overlooks none. `OnlyToldLeave` is the action property that follows from the
same invariant, because the list is injective: unlinking one position removes
exactly one request.

*The order.* List and queue are read as one sequence, the list before the queue.
Every step either thins this sequence out, moves the border between its parts, or
appends the request `mq_send` has just accepted, and none of the three disturbs an
order. `OrderInv` adds to `ArrivalOrder` what that needs: `posted` is injective, so
the place of acceptance is one number, and no stamp lies in the future, so a
request stamped now goes behind the others.

*The service.* Under `IInv` each request has one status. Every action moves the
status of one request or of none; `Crash` is the exception, which moves every
request taken over and possibly the one just read from the queue.

*The list of pointers.* `LInv` says that the pointers are the sequence `order`, where
each walk stands in it, and that the element being appended or deleted is where the
walk can reach it. The step that matters is the unlinking: the element before the
deleted one is found because it was passed and kept, and the freed element's
`next` still points to its old successor, to which the sweep goes on.

*The send queue.* A node's time is a sum of relative times (`OffsetSum`); the lemmas
`InsertKeeps` and `UnlinkKeeps` say that inserting or removing one node leaves the
sums of all others alone. `SInv` is about which messages wait: one node for each, and
what a node tells about its message. `TInv` is about times: the base time lies between
the start and the present and `basetime` is its remainder, so that unsigned
subtraction gives true distances (`SendQueueAssumption` keeps them below
`TickMod`); what the loop sampled is not later than the present; a message sent once
is due at `lastSent + timeout`. `Step` goes through the actions and proves of each
the invariant, the two action properties and the step of `RetransmitTimers` at once.

*The lists of the macros.* `UInv` says that the pointers of the list are the sequence
`listed` (`DoubleLinked`), and of a loop under way where it stands: its `el` is the
head of `due`, its `tmp` is what `el` was followed by when the loop came to it, and it
is still ahead of all that was deleted (`Ahead`), because a body deletes only the
element the loop stands on. That an operation keeps the pointers is shown pointwise:
`FrontLinked`, `BackLinked` and `DropLinked` say what the pointers of a longer or a
shorter sequence are at each element, once for all three families; the macros then
differ only in what they assign at the two ends.

*The sorts.* `SInv` says that some arrangement `t` of the list's elements accounts for
every pointer: the first `k` of `t` were emitted and are linked (`Emitted`), then come
what is left of the two runs being merged (`TwoRuns`), then the elements no merge of
this pass has reached, linked as before it (`Waiting`). `t` changes at one step only:
taking an element from the second run moves it in front of what is left of the first
(`Rotated`), which keeps equal elements in their old order because it is smaller than
all it passes (`RotatedKeepsOrder`). What was emitted of this merge is at most what is
left of it, so the run grows sorted (`RunGrows`); that merges begin at multiples of
twice the size (`RunsMeet`) makes it one run of the next pass. `WalkWithin` and
`WalkToEnd` say what the counting loop from `_ls_p` finds, which gives `_ls_psize` and
`_ls_q` at the end of a list, and what `MergeConserves` counts.

*The hash table.* `HInv` says of each bucket that its pointers are a list of exactly
the items whose hash falls into it, each once and no item in two (`Share`, `Placed`),
and of the chain in application order that it is `added`. `HASH_EXPAND_BUCKETS` is
the hard step: it walks the buckets it is overwriting, moving one item after
another to the front of a new bucket. The proof goes by induction over the items
moved (`Moved`), the invariant being that the first `k` of them fill the new buckets
and no pointer leads to a later one. That walking a bucket yields its list
(`ItemsFrom`), and that going bucket by bucket yields every item once
(`BucketOrder`), are inductions as well, over the pointers followed and over the
buckets. For the growth, `Tally` says that `nonideal_items` counts exactly the items
behind the ideal length of their chains, also while they are moved: an item in front
takes a good place, and if its chain is longer than the ideal, one item loses its own
(`GoodFronted`, `RehashedTally`). `GInv` adds that no growth is stopped while the
table is empty, so the step that stops it is an addition and its count is up to date.

*The answers.* `DInv` adds to the two properties what a datagram can be at each
stage (`RepliesInv`), and what is known of one that is itself an answer
(`EchoInv`): it is an ACK, an RST or a NON, its message id is the awaited one when
the asker waits, and it has no code that `coap_dispatch` would answer. Five ways to
answer and what each makes of an echo are cases of one step.

*The token.* A counter below `Capacity` has fewer than `Bytes` significant digits,
and two numbers with the same digits are equal, by induction over the number of
digits with `SetInduction`. `TokenInv` ties the n-th token issued to n modulo
`Capacity`; two of them nearer than `Capacity` come from different numbers.

*The deadline.* With `Delay` below `Second - 1` the carry happens at most once; taking
it at 999999999 costs at most one nanosecond and cannot give an invalid `tv_nsec`.

*The options.* `PduInv` says that the list under construction is what was inserted,
sorted (`InsertSorts`), and that the PDU carries such a list (`Carries`): its option
headers decode, one after another, to the list's numbers and lengths. That
`coap_new_request` gives such a PDU is an induction over the options it has added
(`AddOption`, `RequestCarries`): no delta or length is too large for its nibble and
extension, and there is room. Of a search, the invariant says at which option the
iterator stands (`Standing`) and that what it returned are the wanted ones in front of
it (`Marks`). The filter has 64 bits for option numbers, and a walk gives up at
the first number that has none; because the list is sorted, nothing it could still
want is behind that (`SmallBits`, `PassesWanted`). `SearchInv` says that the bits are
those of the types asked for, so what the walk finds is what its caller wanted, up to
`COAP_MAX_OPT`.

The library's induction theorems take an operator as a parameter, which the provers
cannot instantiate. Where a proof needs induction over the length of a queue,
`SequenceLemmas` derives it from the least element of a set of natural numbers
(`LeastNatural`, `SetInduction`, `RecursionExists`), for sets instead of operators.

*Only model-checked.* Liveness (`AcceptedTold`, `QueueServed`, `RoundWoken`,
`Settled`, `WalkEnds`, `SortEnds`), which is outside the prover's reach. Every other
property of the passing runs is a theorem above.

## 5. What the code does that its comments do not say

Each is a run with a counterexample, and an entry under "findings".

1. An answered request is still told a timeout (`CoAPpthread.c:203`: the lookup is
   commented out).
2. A console thread can wait for ever (`test.c:69-72`).
3. Telemetry requests go to a block's path after a block request
   (`CoAPpthread.c:463`).
4. The first telemetry request ends the process (`CoAPpthread.c:508`, `pthpara`
   NULL from `YCpthread.c:119`).
5. The telemetry round can be woken as it begins (`YCpthread.c:113-114`,
   `CoAPpthread.c:518-521`).
6. Several retransmissions of a message can leave in one loop, with no time for a
   response between them (`CoAPpthread.c:491`: the base time the queue counts from
   is never adjusted; `pdu.h:22`, `net.h:54`, `net.h:107-108`).
7. `coap_check_option` returns option 259 to a caller that asks for 3
   (`bits.h:72` takes the type as `uint8_t`, against `option.h:222-224`).

## 6. Not modelled, and why

- The block transfer and telemetry decoding in `message_handler` behind the read
  of `cnrList`: the optimising compiler removes this code, so no execution of the
  build reaches it. What it does reach is modelled (`ReadContent`).
- The report of `YCpthread.c:133-160`: it lies behind the second lock of a mutex the
  thread holds (`yc = "relock"`). The contents of the device table, and the two
  calls that fetch it, are inputs.
- libcoap's server side: the gateway registers no resource. How a request from a device
  is answered for want of one is in `Dispatch`.
- `HASH_SELECT` (nothing uses it), the hash functions, and the loops of `utlist.h`
  that neither delete nor search.
- A clock that is set back: each deadline of the list then moves by as much.
- Payloads, host names, logging, buffer sizes, the layout of memory, leaks.
- `function.c` (not built, and at odds with the present `struct sCoAPNewRequest`),
  magicbox and zlog (binary libraries; `mb*.h`, `zlog.h`).

## 7. What is left to do

1. `CoapThread` and `SendQueue` as one specification, so that what is given up in the
   one is what its timers give up in the other.
2. For a build in which `cnrList` is looked up and `YCRequestmtx` is locked once:
   `BlockTransfer` (`message_handler` with blocks lost, repeated and reordered) and
   `YCRound` (no device recorded online that did not answer). Both would model code
   the present build never executes.
