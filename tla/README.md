# Checkpointing Genode components: a TLA+ development for genode-rtcr

`rtcr` is a library for the Genode OS framework. It runs a component as its
child, puts itself between the child and the services the child uses, and
keeps a record of everything the child owns: memory, attachments, threads,
capabilities, sessions. A checkpoint turns these records into a snapshot that
a serializer can write out while the child goes on.

The modules in this directory specify the parts of rtcr that keep that promise,
or fail to. Source files are named as in the repository, lines as `file line`.

## 1. The system

### Components

| component | source | state | operations |
|---|---|---|---|
| Event | `include/util/event.h` | a flag, a queue of callers, a lock for the queue | `wait`, `set`, `unset`, `release` |
| Checkpointable | `src/rtcr/checkpointable.cc` | one thread, a one-element mailbox `_next_job`, three events (`_next_event`, `_checkpoint_finished`, `_ready_event`) | `entry`, `start_checkpoint`, `join_checkpoint`, `wait_ready`, `stop`, `ready` |
| Init_module | `src/rtcr/init_module.cc` | list of children, `_parallel` | `checkpoint`, `pause`, `resume`, `child_info`, `report` |
| Pd_session, RAM | `src/rtcr/pd_session.cc` | list of dataspaces, queue of destroyed ones, `i_ram_dataspaces` | `alloc`, `free`, `_checkpoint_ram_dataspaces` |
| Pd_session, capabilities | `src/rtcr/pd_session.cc` | a list, a queue and a published pointer for each of three kinds | `alloc_*`, `free_*`, `Pd_checkpointable::checkpoint` |
| Region_map | `src/rtcr/region_map.cc` | list, queue, pointer for the attached regions | `attach`, `detach`, `checkpoint`, `find_attached_region_by_addr` |
| Cpu_session, Cpu_thread | `src/rtcr/cpu_session.cc`, `cpu_thread.cc` | list, queue, pointer for the threads; hot and cold fields per thread | `create_thread`, `kill_thread`, `start`, `pause`, `resume`, `checkpoint` |
| Capability_mapping | `src/rtcr/spec/focnados/capability_mapping_focnados.cc` | table from badges to capability slots | `checkpoint`, `find_kcap_by_badge` |
| Rm_session | `src/rtcr/rm_session.cc` | list, queue, pointer for region maps | `create`, `destroy`, `checkpoint` |
| Rom, Log, Timer sessions | `src/rtcr/{rom,log,timer}_session.cc` | hot and cold copy of a few fields | `sigh`, `trigger_*`, `msleep`, `dataspace`, `upgrade`, `checkpoint` |
| Root_component, Child_info, Base_module | `include/rtcr/root_component.h`, `src/rtcr/child_info.cc`, `base_module.cc` | list of children; per child a pointer to each session | `_create_session`, `_destroy_session`, the sessions' constructors and destructors |
| Child | `src/rtcr/child.cc` | quotas, parent services | constructor, `init`, `resolve_session_request`, `resource_request` |
| Serializer | `src/rtcr_serializer/serializer.cc` | none | `serialize`, `parse` |
| Module_factory, Synced_fifo | `src/rtcr/module_factory.cc`, `include/util/synced_fifo.h` | registry; queue | lookup; the queue is used by nothing |

### How they interact

Four kinds of threads meet.

* The **entrypoint** serves the child's RPCs, one after the other. A session
  forwards the call to the parent's session, then inserts a record into a list
  (at its head) or, when something is freed, puts the record into a queue.
* A session that the child opens is created by the **entrypoint of that Child**
  (`child_ep`); sessions that a component elsewhere opens through the roots that
  `Base_module` announces are created by the entrypoint of the module. Both look
  for the `Child_info` by name and insert one if there is none.
* Each session has a **worker thread** (Checkpointable). Woken by
  `start_checkpoint()`, it removes and destroys the records in the queue, copies
  what has to be copied and sets the published pointer (`i_*`) to the head of
  the list. The snapshot is the list from that pointer on.
* The **client**, the thread that runs `Init_module::checkpoint()`, starts and
  joins the workers of one child after another: one by one or, if `_parallel`,
  all starts before all joins.

The client and the workers synchronise with events only. Sessions are opened and
closed, and the pointers of `Child_info` set and reset, without a lock. The entrypoint and the
workers share lists that the workers access without the entrypoint's locks. `doc/api.md`
39 has the child paused meanwhile, but `Init_module::checkpoint()` does not pause it
and rtcr_app calls nothing else; and where a caller does pause the child, its threads
stop, while the calls they have issued are still handled. In the modules of the sessions the
child therefore runs and calls between any two steps of a checkpoint.

### What is hard, and what correct means

* *Event.* `wait()` tests the flag outside of the lock, `set()` raises the flag
  before it wakes the queue. Correct: whoever waits for an event that has been
  set goes on. It does not hold; the question is what still does.
* *Checkpointable.* Mailbox, events and the worker's position are changed by two
  threads without a lock. Correct: a join returns after the checkpoint that was
  asked for, once, and a request is served if nothing is lost.
* *Init_module.* Two orders of up to sixteen calls, sessions that may be absent.
  Correct: all sessions have been checkpointed when it returns, children do not
  overlap, and the capability mapping runs after the region maps are purged.
* *Sessions.* A record that was freed is still in the list and in the snapshot;
  its badge and its heap block can be used again, and the child goes on while the
  snapshot is taken. Correct: what is read through the published pointer stays, until the next
  checkpoint, what the last one has published; that is the state of the child up to what it
  did meanwhile; a free destroys the record of what was freed and no other, once.
* *Cpu_session.* Threads are stopped one after the other, and their calls outlive
  the pause. Correct: a thread that runs after `pause()` was created or resumed by such a
  call, and no walk touches a dead thread.
* *Root_component, Child_info.* Two entrypoints and the client use the list of
  children and its pointers at once. Correct: a name has one `Child_info`, a pointer
  leads to an open session of the child and kind, `checkpoint()` leaves out no
  session that was there all the time.
* *Rm, ROM, LOG, timer sessions.* Every field is copied on its own, while calls that
  were issued before the pause are still handled. Correct: the snapshots of all
  sessions together describe what the parent knows.
* *Child.* Two transfers from a budget that all children share, either of which may
  fail. Correct: a child is told of quota that it has.
* *Serializer.* A message that names places in a region map, a region map that
  begins with the message, and an exception wherever memory is taken. Correct: what
  was serialized is what is parsed, or one of the two refuses; a failure leaves nothing.

## 2. Modules

| module | models | specification | composed with |
|---|---|---|---|
| `Event` | event.h | actions only | – |
| `Checkpointable` | worker threads and one client | `SafetySpec`, `Spec` (with fairness) | extends `Event` |
| `InitModule` | `Init_module` as the client | `IMSafetySpec`, `IMSpec` | extends `Checkpointable`, and implements it |
| `Snapshot` | what a session promises to a reader (abstract) | `SnapshotSpec` | instantiated by the three modules after `Fifo` |
| `Fifo` | `enqueue()` of `Genode::Fifo` (external) | an operator | – |
| `RamDataspaces` | RAM dataspaces of `Pd_session` | `Spec` | extends `Fifo`, implements `Snapshot` |
| `RegionMap` | `Region_map` and the lookup of `Capability_mapping` | `Spec` | extends `Fifo`, implements `Snapshot` |
| `CpuSession` | `Cpu_session` and `Cpu_thread` | `Spec` | extends `Fifo`, implements `Snapshot` |
| `PdSession` | signal sources, contexts, RPC capabilities | `Spec` | – |
| `RootComponent` | sessions opened and closed, `Child_info`, `Init_module` walking the list | actions only | – |
| `Child` | the life of a `Child`: quotas, routing, resource requests; the clients of the announced roots | `ChildSpec` | extends `RootComponent` |
| `OptionalSessions` | `Rm_session`, `Rom_session`, `Log_session`, `Timer_session`, with the signal contexts of `Pd_session` | `OptSpec` | – |
| `Serializer` | `serialize()` and then `parse()` of the result | `Spec` | – |
| `InitModuleProofs`, `RamDataspacesProofs`, `PdSessionProofs`, `RegionMapProofs`, `CpuSessionProofs`, `ChildProofs`, `OptionalSessionsProofs` | theorems about the module each is named for, in `InitModuleProofs` also about `Checkpointable`, in `ChildProofs` also about `Serializer` | | |
| `SequenceLemmas` | what searching, inserting, removing, queueing and walking do to a list, place by place | lemmas | used by the last five |
| `MC*` | instances for TLC | | |

### Event and Checkpointable

One action per access to shared memory. `call[t]` says which call of an event
method a thread is inside of; `"enqueue"` is the gap between line 49 and line 53
of event.h, `"release"` the one between lines 60 and 61. The queue is the set of
threads with a blocked call: `release()` empties it as a whole, so no order
between them can matter. `pc[w]` is the worker's position in `entry()`, `at` the
client's position in `start_checkpoint()` and `join_checkpoint()`:

| code | action |
|---|---|
| `checkpointable.cc` 65, 66, 72, 73-74, 76 | `WaitNext`, `UnsetNext`, `TakeJob`, `ResetJob`, `UnsetReady` |
| 80 returns, 80 throws | `DoCheckpoint`, `ThrowInCheckpoint` |
| 82, 88 | `SetFinished`, `SetReady` |
| 96, 97, 98, 99 | `StartCheckpoint`, `PostJob`, `UnsetFinished`, `SetNext` |
| 105 | `JoinCheckpoint`, `JoinReturns` |
| 111 | `WaitReady` |
| event.h 51-55, 38-45 | `FinishCall` = `Enqueue` or `Release` |

`request[w]` is a history variable. Throwing is modelled because
`Capability_mapping::checkpoint()` does it (line 81); the thread ends. Only
workers in `Throwing` may do so.

### InitModule

`child`, `position` and `op` are the program counter of the two functions
`checkpoint()`. `Order` is the order of the statements in lines 122-176;
`SessionsOf` says which pointers of the `Child_info` are not null. A step
`NextCall` is a step of Checkpointable's client. The property
`IsCheckpointableClient` is Checkpointable's own specification: InitModule
implements it, so that everything true of Checkpointable holds of it.

### Snapshot and the sessions

`Snapshot` has three variables: what the child owns (`live`), what a reader finds
(`snapshot`), and whether the child has interfered with the checkpoint under way
(`disturbed`). The child changes the first at any time; a checkpoint copies it to the second,
or, if the child has interfered, puts some state there. For the sessions, `live` is computed
from the list, the queue and the hot fields; `snapshot` from the published pointer, the list
behind it and the cold fields. While a checkpoint runs nobody may read, and the mapping
holds the value of the last one (`published`); nobody reads before there was one. The
child interferes when it acts between a checkpoint's purge and its publication. That the
promise is kept depends on many details: insertion at the head, records that outlive
their objects, cold fields that only the checkpoint writes.

A record is named by its heap block, so that a block can come back as another
record while an old pointer to it is still around. An operation on a list or a
queue is one step, and so is an RPC of the child; the checkpoint goes record by
record, and the walks of `Cpu_session` and of the lookup likewise.

* `RamDataspaces`: `DestroyDataspace`/`PurgeDone`, `AllocDataspace`/`AllocDone`,
  `CopyDataspace`/`CopyDone` and `Publish` are the four steps of
  `_checkpoint_ram_dataspaces()`. A dataspace's content is one value; `dst` is
  `Null` until the record has a cold dataspace. Copying to a null pointer is the
  state `"fault"`. `late` is a history of the records that step 2 cannot serve: they
  came when it had begun, or into the block of the record it takes for the one published
  last. A dataspace may be freed twice: the capability's badge stays in use until the
  purge, so that the second free finds the same record and enqueues it again.
* `RegionMap`: addresses count half pages, and regions begin and end at pages. The parent
  attaches a region where it overlaps no other, side by side with one if it likes. `Covers` is
  the comparison of `find_by_addr()` with its inclusive upper end. The lookup runs beside the
  purge if `Parallel`. A null pointer it dereferences is the state `"fault"`, a record that was
  destroyed under it the state `"wild"`; it stops there. The histories are `stray`, the first
  detach that has queued the record of another region, and `sought`, what was attached at the
  address when the lookup began and has been since.
* `CpuSession`: `hot` and `cold` are `_started`/`_paused` and
  `i_started`/`i_paused`, `parent` is the state of the real thread, `enqueued` the mark
  in a record that `enqueued()` tests. A thread that runs issues a call (`IssueCall`); the
  entrypoint takes it up in another step (`TakeCall`), also when the thread has been paused
  since. The fields the constructor forgets take any value of `InitialFlags` and
  `InitialBadges`: `kill_thread()` may find the record of another thread, one that is in the
  queue already (`requeued`), or none. `touched` are the threads that a call has created or
  resumed since `pause()` began.
* `PdSession`: the three kinds of objects share the actions `Insert`, `Remember`,
  `DestroyRecord`, `PurgeDone` and `Publish`, which the code repeats for each of them.
  A source may be freed while contexts refer to it; these are `orphans`, and `loose` are
  the orphans when the contexts were published. `touched` are the records of what the child has
  allocated or freed during the checkpoint.
* `Fifo`: an element that is enqueued a second time becomes the tail where it stands, and
  what was queued behind it is lost.

A call's work at the parent and its operation on the list or queue are one step, and the parent
gives no badge away that is in use.
Published pointers that no constructor sets hold any value at first.

### RootComponent and Child

| code | action |
|---|---|
| `root_component.h` 68-71, 72-77, 80 | `FindInfo` (takes the lock), `InsertInfo` (releases it), `Construct` |
| `_destroy_session`: destructor of the session, `destroy()` | `Unregister`, `Destroy` |
| `init_module.cc` 94-103, 112-119 | `CallCheckpoint`, `LoadPointers` |
| 122-176 | `StartSession`, `JoinSession` (one call each), `WorkerDone`, `NextChild` |
| 66-100, `report()`, `Child_info::print()` and the serializer | `CallWalk`, `Visit`, `WalkReturns` |
| `child.cc`: constructor, `read_*_quota()`, `init()` | `create_pd_session`, `read_quotas`, `init_pd`, `open_cpu` |
| `resolve_session_request()` | `request_session`, `close_session` |
| `resource_request()` | `resource_request`, `give_resources` |

A session is created under the name that `NameOf` gives the label: a request with a
nested label makes a `Child_info` of its own, without a PD session. A pointer is an
index of `sessions`; a session is open, closing or freed, and whoever dereferences a
null, a wild or a freed pointer ends the run in the variable `fault`. The destructor
resets the pointer whatever session it names, as the code does. `walk` holds the
local copies that `Init_module::checkpoint()` makes of a child's pointers: closing a
session does not change them. `Capability_mapping` lives with its `Pd_session`, whose
root at `Child` never closes it (`Single_session_factory`); the announced roots do.
Both quota readers ask for the attribute `caps` (`child.cc` 113), so that a child
without `quota` gets none and is started all the same. What `Genode::Child` does is
external, and so are the parent's quota transfers, which succeed or throw.

The history variables are what the properties compare with: `due` are the sessions
that have been registered since the call of `checkpoint()` and have not been
checkpointed, `shared` the pairs of a child and a kind that have had two open
sessions at once.

### OptionalSessions

A call of the child is a sequence of steps, in the code's order: assignments to hot
fields (`Store`), calls of the parent (`Forward`), operations on the list of region
maps and on the contexts (`Do`). The entrypoint takes one call and does its steps;
the workers go through `Script`, one field or list operation at a time, so that
every interleaving of a setter and a copy occurs. `Begin(pause)` is a `checkpoint()`
inside `pause()` and `resume()` or, as rtcr_app has it, alone: a paused thread issues
nothing, while its outstanding call is handled. `_timeout` is cut to `Word`.
`destroy()` looks for the intercepting map's badge among badges of the parent's maps
and finds none: `DestroyMap` models it so, and `OwnBadge(m)` is never in the list.
`upgrade()` keeps a pointer into the arguments of an RPC that is over, and gives the
quota to rtcr's own PD session (`Parent::Env::pd()`), not to the parent's session.

### Serializer

One action per step of `serialize()` and `parse()`: `add_child_info` (one child),
`create_dataspace`, `attach`, `fill`; `compress_allocates`, `compress_attaches` and
`compress_returns`; `uncompress`, `parse_child` (one child), `parse_returns`. Whatever takes
memory may throw. What throws before the `try` of line 150 leaves everything where it is
(`serialize_throws`, the phase `"abandoned"`). `compress_fails` is an exception in
`compress()` - of its allocation (line 180), of one of the two attachments (lines 183-184) or of
`compress2()` - and the clean-up of lines 153-160; `compress()` itself frees its dataspace only
in the last case (`held`). `uncompress_fails` is the exception of the other direction.
`child_list` is the protobuf message, `memory` maps the offsets in the
region map to the contents attached there. The lists of a child become sequences
of records of a badge and its capability slot, with the address of an attachment, the
address and the registers of a thread, a region map its size and its regions their
sizes, offsets and addresses; the other fields are copied one by one and are left out.
`capability_mapping` is the loop over the child's slots, and `find_kcap_by_badge` its use. Addresses and the sizes and offsets of regions have 32
bits in the message, also where the build's are longer (arm_64), and slots 16 in `Normal_info`
(`Word`, `KcapRange`). `Transferred` are the registers that the code of
a platform copies: arm_64 leaves out the link register, `r30`. Sizes matter, in
words of four bytes: a message grows by a record and by an offset that is not zero.
`fill` has three outcomes: the message fits, `SerializeToArray()` refuses it (and
nobody looks), or it is written beyond the end of the dataspace, which is the state
`"fault"`. The pointers of a parsed `Child_info` that nobody sets are the set
`wild`; its name is not in the message.

## 3. Runs

Run a configuration with `tlc -config <run>.cfg <module>`.

| run | module | what it shows |
|---|---|---|
| `Checkpointable` | MCCheckpointable | safety of the protocol in every interleaving (`JoinMeansCheckpointed`, `RunsOncePerRequest`, `MailboxIsEmpty`); under fairness a job that was taken is served (`TakenJobIsServed`), a client in the queue is woken (`QueuedJoinReturns`), and only the three races block (`OnlyRacesBlock`) |
| `InitModule_sequential` | MCInitModule | `Init_module` is a legal client (`IsCheckpointableClient`), the capability mapping runs last (`MappingRunsLast`), `checkpoint()` returns unless a race or an exception (`CheckpointReturnsUnlessRace`) |
| `InitModule_parallel` | MCInitModule | children do not overlap (`OneChildAtATime`), nothing is missing when `checkpoint()` returns (`CompleteWhenReturned`) |
| `RamDataspaces` | MCRamDataspaces | the published record is alive (`PointerIsAlive`), a second cold dataspace and a copy to a null pointer have no cause but the stated ones (`CopiesAreExplained`), nothing is destroyed twice, also if the child frees it twice (`RecordsDieOnce`), the promise of Snapshot (`KeepsSnapshotPromise`) |
| `RegionMap` | MCRegionMap | a detach queues the record of another region only if that one ends where the detached one begins, and until then records and regions agree (`OnlyNeighboursAreConfused`); a lookup that ends has found what stayed attached, or its neighbour (`LookupFindsWhatStays`); the promise of Snapshot |
| `CpuSession` | MCCpuSession | `pause()` stops every thread that no call has created or resumed since it began (`OnlyTouchedRun`), walks spare the dead (`WalkSparesTheDead`), records match threads whatever badges they hold (`RecordsMatchParent`), the promise of Snapshot |
| `PdSession` | MCPdSession | a free finds its record although badges are reused (`FreeFindsItsRecord`); the snapshot is what was live, up to what the child freed meanwhile (`SnapshotIsPublished`), and closed under references, up to what it touched meanwhile and to contexts that have lost their source (`SnapshotIsClosed`) |
| `Child` | MCChild | a name has one `Child_info` (`OneInfoPerName`); no pointer outlives its session (`PointersAreOpen`); a session that was never one of two is registered while it is open (`SoleSessionIsRegistered`) and checkpointed (`RegisteredIsCheckpointed`); a fault needs a session closed during the call or a mandatory one missing (`FaultsHaveACause`); a child is notified of quota that it has, and none is lost (`NotifiedMeansGiven`) |
| `OptionalSessions` | MCOptionalSessions | snapshot and parent agree but for overlapping calls (`SnapshotIsParentState`), a handler in a snapshot is a context in the other (`SighIsInSnapshot`), a published map has been visited (`PublishedMapsWereVisited`) |
| `Serializer` | MCSerializer | the layout is what the message says (`LayoutIsSound`); every record, slot, address and dataspace comes back in its order if the message fits (`ParseRestores`); a size beyond 32 bits is refused (`OversizeIsRefused`); a `compress()` that throws leaves nothing, but for its own dataspace if an attachment has failed (`FailureLeavesNothing`) |

Two runs end in a violation, each of one property that a comment of the repository
states:

| run | the text | what happens |
|---|---|---|
| `Checkpointable_mailbox` (`PostedJobIsTaken`) | checkpointable.h 63: "If CHECKPOINT than the next job will be a checkpoint" | `set()` raises the flag, the worker runs a whole iteration and waits again, then the late `release()` wakes it. It reads `NONE`, the client posts, line 73 clears the mailbox. The checkpoint never runs and the join blocks. |
| `Serializer_growth` (`MessageFits`) | serializer.cc 130: "create dataspace for protobuf object" | the dataspace is allocated while all offsets are zero, which take no space; with the offsets the message no longer fits |

Five more comments claim what the code does not keep. Each claim is a definition of its
module. No run lists it; added to the configuration of the module's run, `KillEndsItsThread` as
a PROPERTY and the others as an INVARIANT, it is refuted by TLC. What does hold is the
property in the last column, which a passing run checks and a theorem states.

| definition | the text | what happens | what holds |
|---|---|---|---|
| `RamDataspaces!RecentlyAddedAreServed` | pd_session.cc 168: "allocate cold dataspace for recently added dataspaces" | a dataspace that is allocated during step 3 becomes the head of the list and is published without a cold dataspace; step 2 of the next checkpoint ends at it, and step 3 copies to a null pointer | `CopiesAreExplained` |
| `RegionMap!DetachDestroysItsRecord` | region_map.h 128: "Detaches the dataspace from parent's region map and destroys the information about the attachment" | `find_by_addr()` takes the end of a region for a part of it: the record of the region below is destroyed if that was attached later | `OnlyNeighboursAreConfused` |
| `RegionMap!LookupIsAlive` | region_map.cc 77: "no lock needed, as we are looking for something, which will not be deleted" | the lookup stands on another record on the way, which `Region_map::checkpoint()` destroys | `LookupFindsWhatStays` |
| `CpuSession!PauseStopsChild` | cpu_session.h 137: "Pause all child threads of this session" | a call issued before is handled after the walk has passed and creates or resumes a thread | `OnlyTouchedRun` |
| `CpuSession!KillEndsItsThread` | cpu_session.cc 211: "Find CPU thread for the given capability" | no constructor sets the badge (`cpu_thread.cc` 36 passes it as the flag `bootstrapped`): the search finds another thread, or none | `RecordsMatchParent` |

Other disagreements need no run of their own.

* `Init_module::checkpoint()` does not pause the children, as doc/api.md 39 says it
  does, and rtcr_app calls nothing else.
* `Cpu_session::pause()` unlocks a lock that it never took (line 163).
* `Rm_session::destroy()` finds no map, and `Child_info::child_destroyed()` is called
  by nobody.

### Assumptions that carry weight

No run and no theorem about a session assumes that the child is paused, that regions lie
apart, that workers run in sequence, or what the published pointers hold at first. What
is assumed instead:

* `RootComponent`: `FreshPointers <- NullOnly`. `Child_info`'s constructor sets no pointer;
  with `Wild` in place of `NullOnly` the walks of `Init_module` end in the fault `"wild"`,
  of which `FaultsHaveACause` does not speak.
* `PdSession`: the child frees what it has and frees it once, as a freed capability names
  nothing any more; the parent gives away no badge that is in use.
* `RamDataspaces`: the badge of a freed dataspace is not given away before the purge, which
  is where the dataspace is freed at the parent.
* A call's work at the parent and its operation on list and queue are one step, and a list
  or queue operation is not torn.
* `Serializer`: `uncompress()` succeeds only if the destination is as large as the
  original (zlib's contract, in the guard of `uncompress`).
* Nobody reads a snapshot before the first checkpoint, or while one runs.

### Bounds

* `Checkpointable`: two workers. They share nothing but the client, and a worker
  that can throw next to one that cannot shows every pair of behaviours. The
  client starts and joins without limit.
* `InitModule`: `MaxCalls = 1`; the second and later calls start from a state that
  Checkpointable's run covers. One child in sequence, from the start of its
  workers; two children in parallel, beginning when all workers sleep
  (`AsleepSpec`), and with at most two workers awake besides the one the client
  deals with (`TwoLaggards`). The theorems of `InitModuleProofs` need neither
  bound.
* `RamDataspaces`, `RegionMap`: three heap blocks. A list of two and a
  predecessor, a record in the queue between two others, and a block that is used
  again all occur. Two contents tell a copy from a blank dataspace. Three pages hold three
  adjacent regions of a page, in any order, and `CapAddr` is the border of two of
  them: it belongs to one and is the end of the other. `Parallel = TRUE` includes every
  behaviour of the sequence.
* `CpuSession`: two threads: one that pauses, starts or kills the other, and a
  record behind the cursor. A third adds no new neighbour. The unset badge is that of either
  thread. The unset flags are `FALSE`: they are copied, and nothing is decided by them.
* `Serializer`: pages of eight words, and children whose messages end from one to
  eight words below a page's end, so that each outcome of `fill` occurs; up to
  three dataspaces a child, of less than, exactly and more than a page; a `Word` of
  72 that the largest lists exceed.
* `PdSession`: four blocks and two badges: a badge is reused while two records of
  its former owners are still in the list, of which one is a context that refers
  to another's source. Blocks and badges are symmetric: no action and no property
  tells one from another. Two million states, about two minutes.
* `Child`: one child and one client of the announced roots, two labels of which one
  names the child, four sessions, one call of `Init_module`. Four sessions are a PD
  and a CPU session and a kind with two open at a time, of which either is closed
  first; a second call begins with everything reset. A budget of two of each
  resource and a child that starts with one capability cover a request that is met and
  one that fails between its two transfers.
* `OptionalSessions`: two threads, so that a call waits while another is served;
  two contexts, two maps, three calls and two rounds: create, destroy and a setter
  in any order, and a snapshot that is replaced. A `Word` of 16 is exceeded by 3 * 7.
  The threads are symmetric, and so are the contexts.

### Fairness

`Spec` and `IMSpec` assume weak fairness of every worker's steps and of the
client's continuation of a call: the kernel schedules every runnable thread. A
blocked thread has no enabled step, so that fairness does not hide a lost
wake-up. Nothing obliges `checkpoint()` to throw or the client to call. A lost
wake-up or a thrown exception stops the system for good, which TLC would report
as a deadlock: the runs of Checkpointable and InitModule switch that check off.
`OnlyRacesBlock` and `CheckpointReturnsUnlessRace` say instead what may stop it.
The sessions, `ChildSpec`, `OptSpec` and the serializer state no fairness: their properties
are safety properties. The session modules have deadlock checking on, but for
`RegionMap`: a lookup that has faulted ends the checkpoints, and in the end no block is left. The
bounds on calls stop the others, so that their runs switch the deadlock check off.

## 4. Theorems

Proved by TLAPS for every value of the constants that satisfies the modules'
assumptions: `ConstantsAssumption` and `ModuleAssumption` (the client is no worker;
the workers are the sessions the children have opened; no child is in the list
twice), `RamAssumption` (the null pointer is no block and no content),
`PdAssumption`, `RegionMapAssumption`, `CpuAssumption` and the `NullAssumption`s (the
bounds, and that null is no block, no badge and no snapshot), `RootAssumption` with
`ChildAssumption` (there are finitely many entrypoints, the thread of `Init_module` is
none of them, a quota in the configuration is a natural number or absent, and what a
name, a kind and a bound range over), `OptionalAssumption` (the waiting entrypoint
is no thread; times and bounds are natural numbers, and the word is not empty), and
`SerializerAssumption` (the binary has whole pages, which are more than a header;
records and offsets take space; a slot in use holds a badge; what the lists given to
`serialize()` consist of). The theorems about `Checkpointable` stand in a module that
also knows `ModuleAssumption`, and none of their proofs cites it. No theorem has a
hypothesis besides: the child may call at any time, the mode may be either, and what
no constructor sets holds whatever the constants allow.

| theorem | statement |
|---|---|
| `InitModuleProofs!InductiveInvariant` | `SafetySpec => []IInv` |
| `TypeCorrect` | `SafetySpec => []TypeOK` |
| `JoinIsSafe` | `SafetySpec => []JoinMeansCheckpointed` |
| `NoJobRunsTwice` | `SafetySpec => []RunsOncePerRequest` |
| `MailboxIsSafe` | `SafetySpec => []MailboxIsEmpty` |
| `IMInvariant` | `IMSafetySpec => []IMInv` |
| `ImplementsCheckpointable` | `IMSafetySpec => IsCheckpointableClient` |
| `CheckpointIsComplete` | `IMSafetySpec => []CompleteWhenReturned` |
| `TurnInvariant` | `IMSafetySpec => []TurnInv` |
| `ChildrenTakeTurns` | `IMSafetySpec => []OneChildAtATime` |
| `MappingFollows` | `IMSafetySpec => []MappingRunsLast` |
| `RamDataspacesProofs!CopyInvariant` | `Spec => []CopyInv` |
| `PurgeDestroysOnce` | `Spec => []RecordsDieOnce` |
| `PointerStaysAlive` | `Spec => []PointerIsAlive` |
| `CopiesHaveTheirCause` | `Spec => []CopiesAreExplained` |
| `SessionKeepsPromise` | `Spec => KeepsSnapshotPromise` |
| `PdSessionProofs!RecordInvariant` | `Spec => []RecordInv` |
| `FreesFindTheirRecords` | `Spec => []FreeFindsItsRecord` |
| `SnapshotsArePublished` | `Spec => []SnapshotIsPublished` |
| `ClosedInvariant` | `Spec => []ClosedInv` |
| `SnapshotsAreClosed` | `Spec => []SnapshotIsClosed` |
| `RegionMapProofs!RecordInvariant` | `Spec => []RecordInv` |
| `OnlyNeighboursGetConfused` | `Spec => []OnlyNeighboursAreConfused` |
| `LookupsFindWhatStays` | `Spec => LookupFindsWhatStays` |
| `RegionMapKeepsPromise` | `Spec => KeepsSnapshotPromise` |
| `CpuSessionProofs!CpuInvariant` | `Spec => []CpuInv` |
| `OnlyTouchedThreadsRun` | `Spec => []OnlyTouchedRun` |
| `WalksSpareTheDead` | `Spec => WalkSparesTheDead` |
| `RecordsAreTheThreads` | `Spec => []RecordsMatchParent` |
| `CpuSessionKeepsPromise` | `Spec => KeepsSnapshotPromise` |
| `ChildProofs!PointerInvariant` | `ChildSpec => []PointerInv` |
| `ChildIsUnique` | `ChildSpec => []OneInfoPerName` |
| `PointersStayOpen` | `ChildSpec => []PointersAreOpen` |
| `SessionStaysRegistered` | `ChildSpec => []SoleSessionIsRegistered` |
| `WalkInvariant` | `ChildSpec => []WalkInv` |
| `FaultsHaveTheirCause` | `ChildSpec => []FaultsHaveACause` |
| `RegisteredAreCheckpointed` | `ChildSpec => []RegisteredIsCheckpointed` |
| `QuotaInvariant` | `ChildSpec => []QuotaInv` |
| `NotifiedWereGiven` | `ChildSpec => []NotifiedMeansGiven` |
| `SerialInvariant` | `Spec => []SerialInv` (of `Serializer`, as the next four) |
| `LayoutIsAlwaysSound` | `Spec => []LayoutIsSound` |
| `ParseAlwaysRestores` | `Spec => []ParseRestores` |
| `OversizeIsAlwaysRefused` | `Spec => []OversizeIsRefused` |
| `FailureAlwaysLeavesNothing` | `Spec => FailureLeavesNothing` |
| `OptionalSessionsProofs!SnapshotInvariant` | `OptSpec => []SnapshotInv` |
| `FieldsMatchParent` | `OptSpec => []SnapshotIsParentState` |
| `HandlersAreInSnapshot` | `OptSpec => []SighIsInSnapshot` |
| `PublishedAreVisited` | `OptSpec => []PublishedMapsWereVisited` |

*Checkpointable.* `JoinMeansCheckpointed` is not inductive: that the join returned
because the flag was up says nothing without knowing who raised it. The invariant
`IInv` relates the finish flag and the mailbox to the positions of both threads
and the request: the flag is up only if the checkpoint of the outstanding request
is through, and there is at most one of a posted job, a job taken and a request
executed. Since all three races lose wake-ups or jobs and none invents any, the
safety half survives them. The proof has one step per action, with lemmas for
what the rest of an event call can change.

*InitModule.* `IMInv` says at which place of the script every worker is: before its
start, between start and join, or joined; `AdvanceMeans` shows that one step of the
script moves exactly one worker's place. `ImplementsCheckpointable` follows step by
step, and with it Checkpointable's invariant is available for `CheckpointIsComplete`:
a worker whose join has returned has run. `TurnInv` adds what the order of calls says
about the worker that is being joined: the script has moved on already, but within the
same child, or to the first start for the next one. A worker inside of `checkpoint()`
has been started and not joined, or is being joined, so that two of them belong to
one child; in sequence the mapping's place is the last, and all others lie behind.

*RamDataspaces.* That a record is destroyed once and that the published pointer does
not dangle between checkpoints needs only that the list and the queue hold nothing
twice and that the queue is part of the list (`RecordInv`). What `CopiesAreExplained` and
the promise say is about the order of the list. If the record that was published last is in
the list and is the one that was meant (`PublishedStands`), it and all behind it have a cold
dataspace or came late (`PublishedAreServed`), and before it none has one, as far as step 2 has
not come (`NewHaveNone`). So step 2 makes no second cold dataspace, and leaves none out
but late ones. For step 3 that is not enough: if the walk of step 2 ended at a record that
was late, older records behind it may be without a cold dataspace, too. But step 3 comes to
a late one first, and goes no further (`LateComesFirst`). What step 3 has passed is copied, if
the child has not acted since (`PassedAreCopied`). In the refinement the child's steps are
`ChildStep`, the publication is `TakeSnapshot`, and every other step stutters.

*PdSession.* The parent gives a badge again as soon as its object is gone, while the
record of that object waits for the next purge. That `find_by_badge()` finds the right
one of several records is a matter of order: the record of a live object comes before
every other that holds its badge (`LiveComesFirst`), since it was inserted at the head
when no live object had the badge. Taking a record out of the list keeps the order.
A snapshot is the part of the list from the published record on, and what is inserted
later lies before it (`SnapshotsAreKept`). For the three snapshots together, `SourcesAreAhead`
says of a context that is going to be published, and that the child has not touched
since the checkpoint began, that its source is live and in the sources' snapshot, unless
it is an orphan: the source cannot be new, as the context refers to it and is older. A
badge is given to another object only when the first one is freed; both are then touched
(`TouchedShareBadges`). `PublishedIsClosed` carries the two over to what has been published.

*RegionMap.* `find_by_addr()` takes the end of a region for a part of it, so that an
address can hit two records. Whatever lies before the record of an attached region
was attached while that one was, so that the two do not overlap, even if the former has
been detached since (`LaterRegionsAreApart`). A search for the beginning of a region therefore
stops at its own record or at one that ends there: the first stray detach hits a
neighbour, and until it happens the records that are not queued are the attached regions, one
each (`RecordsAreTheAttached`). After it nothing is said but that the queue holds records
of the list, each once. For a lookup under way, what has been attached at the address since
it began has its record at the lookup's place or behind it (`SoughtIsAhead`): a purge
removes other records only, and an attach adds at the head. That holds in parallel with the purge
as long as the lookup stands on a record; if the record is destroyed under it, the lookup
does not come to an end in the model.

*CpuSession.* Nobody sets the badge by which `kill_thread()` finds a record: the search
compares with what the memory held, and can find the record of another thread, or one that is
in the queue already. `Genode::Fifo` then cuts the queue off behind that record, so that
no record is queued twice, but some are marked and in no queue (`QueueHoldsTheDead`, with
`requeued` for the cause). What is in the list without a mark is alive, whichever record a kill
has found, which is what `WalkSparesTheDead` needs: a walk reads the mark and decides in
one step. `UnpausedIsAhead` says of a walk of `pause()` that every thread that would run is still
to come or was touched by a call. The refinement of `Snapshot` is that of the RAM
dataspaces, with the fields copied one record at a time (`CopiedIsBehind`).

*Child.* Three of the safety properties of the run are conjuncts of one inductive
invariant, `PointerInv`. `ListInv` says who holds the lock, and that what a
search of the list has found is still true when the entry is made, since the owner of
the lock has not changed: hence one `Child_info` for a name, although two entrypoints
search at a time. The rest follows the pointers: an object refers to an entry of the
list, a pointer to an open object of its kind, or to one that its thread is about to
unregister; two objects of one kind at a child are marked as such, and one that never was
one of two is registered as long as it is open. There is a lemma for each step of a
request; what `Init_module` and the child do is one, `Walked`: they leave the list and
the objects alone.

`WalkInv` adds `Init_module`. Its walks run while sessions come and go, so that the
pointers it has copied can be out of date. `CopiesAreOpen` and `NullsHaveACause` say what they
can be: if nothing was closed since the call began, a copy names an open session, and a
copy that is null was null for a reason that still holds. Hence `FaultsHaveACause`.
For `RegisteredIsCheckpointed` the history `due` is tied to the place of the walk
(`DueIsAhead`): a session that is due is registered with a child that is still to
come, or with the present one and is copied, but its worker is not joined. A new
`Child_info` goes to the head of the list, behind the walk, but its sessions are not due.
At the end of the walk nothing lies ahead. `SessionsAreFew` is the bound of the model on
the sessions as an invariant; it counts the requests that will end with a session,
and says that no session has the number that stands for a wild pointer.

`QuotaInv` says at which stage what part of a promise has been transferred
(`HalfWayIsGiven`). That the budget is neither lost nor given twice is about a sum over all
children, a fold. `SumIsUnits` shows that the fold is the number of elements of a
set with one element for each unit: the recursive function of the fold satisfies an
equation that has one solution (a set of least size on which two solutions differ
cannot exist), and counting is a solution. A transfer then adds elements to a set.

*Serializer.* `SerialInv` follows one list of children through `serialize()` and
`parse()`. While the children are converted, the message says of each child all but the
offsets (`IsMessageOf`), and everything that will need a place is attached once and
takes whole pages (`IsLayout`: a key occurs once in the list, although each child and
`create_dataspace` insert at the head). `attach` places the attachments one behind
the other. An offset is the sum of the sizes before it, which `SumIsUnits` reduces to
the addition of one size per place (`OffsetsAdd`). Hence the offsets are multiples of
the page size, grow from place to place, and lie below the total (`OffsetsAreDistinct`),
so that the region map has one entry for each attachment, and each entry the content
that belongs there (`PlacedInv`). The offset in the message is found by key; it is the
place itself as long as the total is less than 2^32, which is what the header's refusal
ensures when `parse()` comes to read it (`HeaderInv`): a total that the header cannot
hold appears to `uncompress()` as a smaller one, so that the destination is too small.

`parse()` reads records one by one and inserts each at the head of a list. `InsertedIs`
says what a fold of insertions yields: the elements in reverse and then what was in
the list before. It solves the fold's equation on initial segments of the places, after
`InsertionExists` has shown that a solution exists at all (a least length without one
cannot exist, since a solution for k - 1 places extends to k). The lists of a child
are read from the end and keep their order (`OrderIsKept`), the children are read from
the front and come in reverse: `ParsedInv` says of those read so far that the record at
place `Len(parsed) + 1 - i` is child `i`. That a child comes back (`ChildIsParsed`)
rests on one lemma per kind of record; `RecordIsParsed` is the one about capability
slots: the slot that the message holds is one of the capability's slots, or zero if the
child has none, and what `Normal_info` keeps of it are its low 16 bits. Numbers beyond
32 bits are cut on the way, so that `CutIsKept` is all that can be said of sizes, offsets and
addresses. `FailureAlwaysLeavesNothing` is about steps and rests on `HeldInv`: which
dataspaces are allocated in which phase of `serialize()`.

*OptionalSessions.* The snapshot agrees with the parent only where no call is under way,
so that the invariant has to know of each call how far it has come. `CallsAreWhole` lists
the forms: every call but the served one has not begun, and the served one has
done what `IsBegun` says of the fields and of the parent. When the last step is done
a field is no longer outstanding, and what has been done before makes it agree
(`IdleFieldsAgree`). For the snapshot it is then enough that a call under way during
`checkpoint()` is recorded as overlapping (`OverlapIsTracked`) and that any other
field stays what was copied (`CopiesStand`). `HandlersAreKnown` follows a handler from
the list of contexts into the call, the hot and the cold field: as soon as the contexts
are in the snapshot, every handler that a paused child can still set is in it as well or
has been freed. `MapsAreVisited` does the same for the maps.

*SequenceLemmas.* The lists are sequences, and the library's theorems about them
speak of places. The lemmas say at which place `RemoveFirst`, a new head, `Tail` and
`Append` leave each element, what a second `enqueue()` leaves of a queue, which of two elements comes first afterwards (`Before`),
and where a walk along the list has come (`AheadOf`, `NextIn`). That a search finds
something rests on the least element of a set of naturals, which follows from
their well-foundedness.

Changes to the models that the proofs asked for: `RemoveFirst` of the community modules
takes a record out of a list in place of a filter, and the next pointer of
a walk is the least of a set of places (`Pending`) in place of the head of a filtered
sequence. The optional sessions' fields are updated by function definitions, since the
provers do not know the operators of the module TLC, and their region maps are a set,
since nothing depends on their order.

The serializer's mapping of capabilities is a function on the slots in use in place of
a filtered sequence, `SumOf` and `Total` are `SumFunction` of the community modules, and
a child without a session "rm" has no region maps of one (`ChildInfos`), as in the code,
where they hang off that session. `LayoutIsSound` says of the binaries, too, that the
message knows their place.

Only model-checked: the liveness properties (fairness and `ENABLED` are out of the
prover's reach). Every safety property that a passing run checks is stated by a
theorem. The runs that expect a violation have their counterexamples and no theorem.

## 5. Not modelled

* `stop()`, `ready()`, `is_ready()` of Checkpointable: nothing calls them.
* Weak memory: flags and mailbox are plain variables, and the models interleave
  their accesses in program order.
* Torn list operations: a worker that walks a list while the entrypoint changes it
  is modelled between operations, not within one. The same goes for a call's work at
  the parent and its entry in the queue.
* What `pause()` does to a lock it never took (cpu_session.cc 163).
* Mappings in rtcr's own address space other than the serializer's region map, and the
  bytes and the size of what zlib writes.
* Methods that only forward to the parent: affinity, quota, trace and single-stepping
  methods of `Cpu_session`, `Log_session::write()`, `Rom_session::update()`, the
  timer's `elapsed_*()`, `fault_handler()` of a region map.
* Of the destructors, the destruction of the lists: the cold dataspaces of a closed
  `Pd_session` are not freed, and nothing says that they should outlive it.
* What a thread does after a fault: the models stop there.
* Module_factory (filled before anything runs), Synced_fifo (unused), the platform
  parts (printing, native capabilities), zlib (vendored), protocol buffers
  (generated).

## 6. Plan

1. Done: the checkpoint protocol (Event, Checkpointable, InitModule) with proofs;
   the records of Pd_session, Region_map and Cpu_session; the serializer.
2. Done: the life of sessions and children (RootComponent, Child), the optional
   sessions and their agreement (OptionalSessions), the capability map and the
   registers (Serializer).
3. Done: proofs about the records of all sessions of the PD, the regions and the
   threads, their refinements of `Snapshot`, the list of children, the walks of
   `Init_module` over it, and the quota; about the optional sessions; and about the
   layout and the round trip of the serializer.
4. Left: what a proof of the liveness properties needs, a prover for fairness and
   `ENABLED`; a model of the list operations below the granularity of a call.
