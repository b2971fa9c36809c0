# A verification project for pico2w-tfm

TLA+ specifications of the parts of this repository that keep state, checked with
TLC on small instances and proved with TLAPS for all sizes, the log formatter and
liveness excepted: the inference partition, its client API and contract, the package
format, its ciphertext and the tool that makes it, the inference engine and its
convolution, the echo service, the TrustZone shim, the three builds of the non-secure
side. The C and Python sources are the reference;
`PROJECT.json` maps every definition to the lines it models.

## The system

| Part | State it keeps | Operations | What makes it correct |
|---|---|---|---|
| TinyMaix partition (`partitions/tinymaix_inference/tinymaix_inference.c`) | `g_model_loaded`, `g_decrypted_model`, `g_decrypted_size`, `encryption_key`, `mnist_pic`; crypto operations and keys it holds | service loop; LOAD, RUN, GET_MODEL_KEY, connect, disconnect | every message is answered once; nothing acquired leaks; inference only on a complete, accepted model; decryption only under the derived key |
| TinyMaix API (`interface/src/tfm_tinymaix_inference_api.c`) | a connection per call in progress | load, run, get key | each function behaves as one atomic operation of the service and closes its connection |
| Model package (`tools/tinymaix_model_encryptor.py`, `decrypt_model`, `tm_load`) | none | pad, pack; check, unpad, check | what is loaded is what the tool made, and exactly which models load is known |
| Echo partition and API (`partitions/echo_service`, `interface/src/tfm_echo_api.c`) | two buffers that live across messages | echo | the caller's own bytes come back, nobody else's; both sides agree on the limits |
| NSID manager and TrustZone shim (`lib/nsid_manager`, `app_broker/tfm_nsid_map_table.c`) | token table, 8-bit thread id counter, `current_active_token` | init, alloc, free, load, store of contexts | a thread runs under its own NSID; tokens are never reused; which contexts are lost is known |
| Model encryptor (`tools/tinymaix_model_encryptor.py`) | the files it writes | encrypt with a given, drawn, derived or test key; write package, key, C files | a run that reports success leaves a package, a key that opens it and the C source of that package; decryption undoes the chain |
| TinyMaix engine (`tinymaix/src`) | layer cursor, main buffer, window buffer `sbuf` | load, preprocess, run, parse | every value read is the one its producer wrote in this inference; accesses stay inside; a convolution is the convolution |
| Mailbox RTOS layer and statistics (`lib/multi_core`) | semaphore or message queue, spin lock, `stats_queue_ptr`, `nr_tx`, `nr_used_slots` | lock, spin lock, wait, wake, send, receive; update, reset, average | a permit always finds a slot; no lost or stray wake-up; a call returns, or only other clients' calls keep it waiting for room; averages never above the number of slots |
| RTOS wrapper (`app_broker/os_wrapper_cmsis_rtos_v2.c`) | kernel objects and the kernel's memory | create, acquire, release, flags, send, receive | nothing is created beyond the memory; a blocked thread is woken |
| Kernel configuration (`lib/ext/CMSIS/RTOS2/RTX`) | none (fixed by the build) | settings, `#error` conditions, `osRtxConfig` | what boot creates fits |
| Boot (`app_broker/main_ns.c`) | how far `main()` is | platform, secure CPU, kernel, interface or mailbox, threads, start | what `main()` does not check cannot fail with the shipped settings |
| Log formatter (`lib/log/tfm_log_raw.c`) | a buffer per call, `count` | format, flush | what is printed is what the format and its arguments stand for |

How they interact: non-secure threads call the API functions; each makes three
blocking PSA calls (`psa_connect`, `psa_call`, `psa_close`) that become messages of
a partition's queue. A partition is one thread that takes a message, works and
answers. The inference partition itself calls the PSA Crypto service, whose pools
of operations and key slots it shares with other partitions. Below the threads,
the RTOS kernel calls the TrustZone shim at thread creation, termination and every
context switch. `main()` creates the lock or the mailbox of the secure interface and
the application thread; a secure call goes through the mutex of the single-core build,
or through the mailbox of a multi-core build, sent by the client itself or by a mailbox
thread that clients reach over a message queue. The log formatter is called from any
thread and prints through one console.

What is hard here: a failure at any one of eleven crypto calls after the earlier
ones succeeded; a reload that fails while a model is in use; buffers and globals
that outlive the client that filled them; size limits written down twice; branches
of a service loop that must each answer; handle, slot and 8-bit counters at their
limits; threads created and terminated between context switches; one buffer shared
by all matrices of a model, at offsets nobody checks; an encryptor that writes four
files one after the other and may stop in between; replies that interrupt a client
before it waits; permits, slots, messages and flags that must agree across three
builds; statistics updated in two locked sections and reset without a lock; boot steps
whose failures are not looked at; a log line cut at a full buffer while other threads
print. `PROJECT.json`
lists these under `hazards`, each at its line with the properties that cover it.

## Modules

* `ModelPackage` - pure operators: the encryptor's padding and header
  (`PackageOf`), the checks of `decrypt_model` in code order (`HeaderStatus`,
  `PaddingValid`, `ContentValid`) and of `tm_load` (`TmLoad`), and `Genuine`, the
  packages that load said in terms of the model the tool was given. The three fields
  of the model's header that `tm_load` looks at are where `tm_mdlbin_t` has them: the
  magic, the type right after it, `sub_size` at offset 16 (`SubSizeAt`), well inside the
  64 bytes before the layers (`LayersBody`). Ciphertext stands for the
  plaintext CBC makes of it; a package need not be one the tool made.
* `PsaIpc` (external) - the PSA client and service calls as `src/` uses them:
  a queue of messages, a bounded number of connections, one answer per message.
* `PsaCrypto` (external) - counters of what the partition holds in the pools.
* `TinyMaixPartition` - the partition, one action per call into another partition
  together with the C code up to the next call. `spc` is the program point, `msg`
  and `status` the locals; each crypto call has a success and a failure action.
* `TinyMaixSystem` - clients running the API functions or making the PSA calls
  themselves; the whole-system `Spec`, `FairSpec`, and the refinement mapping.
* `InferenceContract` - the abstract service: a flag, a picture, and one atomic
  step per request. `ImplementsContract` says the system implements it, a request
  taking effect with the `psa_reply` that answers it.
* `EchoService` - echo partition, API function and direct callers.
* `NsidManager` - the token table's operations; `TzShim` - the shim's functions
  under a kernel that creates, terminates and switches threads in any order.
* `CbcPackage` - the ciphertext between the two ends `ModelPackage` describes: the
  tool chains the padded model's blocks, one block may be damaged, `decrypt_model`
  unchains them under its own key and makes its checks. AES is any family of
  functions with inverses, exclusive or any self-inverse operation on bytes.
* `EncryptorTool` - the command line as a program run again and again over the same
  files. A file is opened (and so emptied) and then filled; opening may fail and the
  program may be interrupted at every step. A name is a stem and an extension, which
  is all `str.replace` looks at here.
* `TmEngine` - `tm_load`, `tm_preprocess`, `tm_run` and `parse_output` over
  `static_main_buf`. A byte of the buffer is the name of the value stored in it
  (inference, matrix, form, index); a step is what a layer does between two writes.
  Layers have the record of `tml_head_t` and its extensions; kernels, strides and
  padding are square here.
* `TmLayout` - what the engine relies on and `tm_load` does not check: `WellLaid` says,
  header by header, which models the converter may hand over.
* `TmConv` - `tml_conv2d_dwconv2d` in full: pairs of an input index and a weight
  index for every output element, `sbuf` included. `Reference` is the text-book
  convolution.
* `MnistModel` - `mdl_data` of `models/mnist_valid_q.h` as the engine reads it: the
  type, dimensions, sizes and offsets of its layers. Weights, scales and biases are
  left out; the engine run uses it.
* `RtxConfig` - pure operators: the settings (`Options`: any numbers; `Shipped`: those
  of the repository), the `#error` conditions (`Compiles`) and
  the `osRtxConfig` they give, with the sizes of control blocks, stacks and queues.
* `OsWrapper` - the wrapper's operations over the kernel (external): creation takes
  bytes or blocks from the memory `osRtxConfig` describes and returns NULL without
  them; locks and the queue keep their waiting threads in order; what an interrupt
  signals is processed before a thread runs again.
* `NsMailbox` - the RTOS layer of the mailbox in the wrapper's terms, and the
  statistics, whose update, reset and average are several steps each.
* `NsSystem` - `main()` step by step, and then clients making secure calls, in three
  builds ("trustzone", "mailbox", "thread") over the modules above. Slots of the
  mailbox queue and the secure core are external. `pc[t]` is where thread t is; a step
  ends at every kernel call and at every point where another thread or an interrupt
  can come between.
* `LogRaw` - `tfm_log_printf` character by character: scanning, digits, the buffer,
  the pieces that reach the console, the count. `Rendering` is the reference.
* `TinyMaixProofs` (with the package format), `EchoProofs`, `TzProofs`, `CbcProofs`,
  `NsProofs`, `EncryptorProofs`, `EngineProofs`, `ConvProofs` - theorems.
* `MCTinyMaix`, `MCEcho`, `MCTzShim`, `MCEncryptor` (with the ciphertext), `MCTmEngine`,
  `MCTmConv`, `MCNsSystem`, `MCLog` - the instances TLC checks.

Abstractions. A byte is a number up to `ByteMax`, a key one of "zero", "derived",
"unspecified", a picture a function from few pixels to few values, the trained
model a function `Class` of the picture (a model that was loaded with less than its
header has no layers of its own: an inference on it gives any class or an error, and
what else the engine may do with such bytes is not modelled); inside the engine modules a number is
replaced by where it comes from, so quantisation and activation are left out and
data flow is kept. Calls of the log are left out of the other modules. A handler's
locals go back to their initial values once it has answered, which C leaves undefined
and no later code reads.

## Runs

| Run | Instance | What it shows |
|---|---|---|
| `tinymaix` | 1 client with each of 23 packages (one or more per check of the code, on and around each boundary, models that end before, inside and behind `sub_size`), every direct call; 2 clients with the good package; 2 connections, any of them refused, DEV_MODE (whose API has one function more), a failure at every crypto call, fairness | types, `ResourcesReleased`, `LoadedModelIntact`, `DecryptsWithDerivedKey`, `OneAnswer`, `HandlesBalanced`, `EveryCallReturns`, `ImplementsContract` |
| `tinymaix_builtin_image` | 2 clients | violation: the built-in picture does not survive a client's image |
| `echo` | 2 clients, API and direct, data of 0 to limit+1 bytes, fairness | types, `EchoIntact`, `SidesAgree`, `EveryEchoReturns` |
| `tz_table` | 3 threads, 2 slots, 3 contexts, 6 thread ids | types, `TableMatchesThreads`, `RunsUnderOwnNsid`, `TokensNeverReused`, `ContextsAccounted` |
| `tz_release` | the same | violation: an entry is removed although its context is not released |
| `tm_engine` | the shipped MNIST model's real layer headers and sizes (1464-byte buffer), small models of all layer types, refused layers; two inferences, reloads anywhere; the buffer aligned and not | types, `InputsFresh`, `AccessesInside`; TLC also evaluates `MCModelsWellLaid`: the shipped model and all others of the run meet the theorems' hypothesis |
| `tm_conv` | pointwise, spatial and depthwise layers of up to 4 x 4, strides 1-2, no, one-sided and full padding | `OutputIsConvolution` |
| `encryptor_files` | 3 runs, 2 models and an unreadable one, good, bad and empty key files, all options; and, for the ciphertext, 2-byte blocks, 2 keys, 6 models of up to 3 blocks, any one block damaged | `KeyOpensPackage`, `ArtifactsAgree`; types, `DamageIsLocal`, `RoundTrip` |
| `encryptor_names` | also an output without `.bin` | violation: the package is overwritten |
| `ns_system` | 3 clients that call for ever, 2 slots; with statistics 2 clients, one call each; three builds, each with the shipped settings, with 4096 bytes of kernel memory, and with pools for threads only; every failure of boot; resets and averages anywhere; fairness | types, `BootObjectsCreated`, `OneInside`, `PermitMeansSlot`, `AnsweredOwnRequest`, `CleanBetweenCalls`, `StatisticsBounded`, `EveryCallReturns`, `StarvedOnlyByOthers` |
| `log` | 2 threads, 8 messages with every directive, a buffer of 4, 8-bit numbers at both ends of their range | types, `OutputIsRendering`, `CutOnlyWhenFull`, `EveryPrintReturns` |
| `log_count` | the same | violation: the count returned is not the number of characters printed |

Bounds. Sizes are scaled so that every comparison has inputs below, at and above
its limit: blocks of 4, a package header of 2, a buffer of 14, a magic of 2 bytes, pictures
of 2 pixels, echo data up to 2. A model's header is 8 bytes with `sub_size` at 5 and 6,
behind its first block, as in the code, where it is in the second block of 16. The two
questions of `tinymaix` (which package, which interleaving) and of `encryptor_files`
(the files, the ciphertext) are explored one at a time: the MC module keeps the second
client out, or one of the two parts still, and excludes nothing else. Two interleaved clients are enough for one to come
between the calls of another; a connection may be refused at any time, since the
SPM's handles are shared with the clients of other services. Thread ids (6 instead
of 254) and slots (2 instead of 10) run out within a run. Two inferences are enough
for one to find what another left, three runs of the encryptor for one to find the
files of two others. `MaxRuns` (engine, encryptor) and `MaxCalls` (`ns_system`, `log`)
are the other caps. In `ns_system` three clients compete for two slots, the fewest
with which one has to wait while two requests are under way and can be passed over by
the others. Their calls go on for ever and are numbered modulo `MaxCalls`, here 1; only
where statistics are kept (a build with `TEST_NS_MULTI_CORE`) does `MaxCalls` end them,
since each adds to the counters, and there two clients, one of which resets and reads
them, are looked at. That an answer is not one to an earlier call of the same client is
what the proof of `AnswersMatch` adds, for any `MaxCalls`. In `log` the messages are
shorter than, as long as and longer than the buffer, and a call's frame is its own, so
one call of each of two threads shows what interleaving does. `tm_conv`,
the encryptor runs, `ns_system` and `log` end (one call, one package, a number of
program runs or calls, a parked `main()`), so deadlock is not checked there.

Fairness. The partition's thread and every client already inside a function keep
taking steps when they can (weak fairness): the secure scheduler always runs the
partition that has a signal pending, and a thread whose blocking call has returned
is runnable. Nobody is obliged to call, and a crypto call may fail every time. On the
non-secure side the kernel runs threads of equal priority in turn (`OS_ROBIN_ENABLE` 1):
a thread that can go on again and again, between the moments in which others have
interrupts disabled or interrupts are processed, does go on (strong fairness). The
kernel processes what interrupts have signalled; the secure core answers a pending
request, and its interrupt waits while interrupts are disabled (strong fairness again); a
reset or an average that was begun is finished. One step has no more than weak fairness:
a client of the mailbox thread that polls the message queue for room. Room may come
and go between its turns, and nothing in the wrapper or the kernel keeps it for the one
that has waited longest, as the semaphore of the other build does. So `EveryCallReturns`
is about calls from their message on in that build, and `StarvedOnlyByOthers` says
what the polling leaves: a client can be passed over for ever, but by nothing else than
another client whose calls keep returning. Both are checked with endless calls;
a property without that exception fails. TLC treats every strong fairness formula by
cases; `MCNsSystem` therefore states the same with weak fairness of actions that count
as due also while the core is busy (`MCFairness`). A thread interrupted inside `tfm_log_printf` runs again.

## Findings

1. An inference without input data runs on whatever `mnist_pic` holds: after a
   client has sent an image, the "built-in test image" is that client's
   (`tinymaix_builtin_image`).
2. For an output name without `.bin` the encryptor overwrites the package with its
   key (or its C files) and reports success (`encryptor_names`).
3. `TZ_FreeModuleContext_S` removes the table entry before the token is released, the
   reverse of what the NSID manager's header asks for. When the release fails the
   context stays assigned for good, with no entry that names it (`tz_release`).
   `ContextsAccounted` counts this loss, and the creation that finds the table full, as
   the only two.
4. `tfm_log_printf` adds what the last `stdio_output_string` returns to a count that
   has those characters already; its header promises the "Number of chars printed"
   (`log_count`).

Met while modelling, without a run of their own:

* A model shorter than its 64-byte header is loaded when its first five bytes are right
  and `sub_size` is 0 or lies beyond its padding, as it does for every model of 5 to 15
  bytes, which fills one block: `tm_load` reads the static buffer behind it, which is 0
  there. `decrypt_model` has no lower bound on the size and `tm_load` is not told it, so
  `RUN_INFERENCE` then walks layers the model does not have. No comment or test says
  which sizes are refused, so there is no run that expects a violation; `ModelLoadable`
  states which models load, `LoadedModelIntact` what is known of one that has, and the
  contract allows any class for it.
* The encryptor's texts speak of AES-256-GCM with tags; it makes AES-128-CBC without
  one. `DamageIsLocal` says what a damaged block costs; nothing promises that the checks
  notice it.
* In the build with a mailbox thread a client may be starved by others while it polls the
  message queue; see Fairness. No document promises otherwise.
* The statistics' reset and average and `os_wrapper_thread_new` have no caller in
  `src/`. `NsSystem` lets the application thread call them between its own calls, so
  that what they do beside running calls is checked.

## Proofs

The first part of `TinyMaixProofs`, for every block, header and buffer size allowed by
`PackageConstants`:

* `AcceptedIsGenuine` - whatever passes all checks of `decrypt_model` and
  `tm_load` is a package the encryptor makes of a model of which `ModelLoadable` holds:
  the magic and the type are the model's own, and each byte of `sub_size` is a 0 of the
  model or lies beyond its padding. The arithmetic
  part (a whole number of blocks leaves no partial block; the padding length is the
  only one that fills the block) is in lemmas over `%`. `LoadableModel` is about
  `tm_load`, which reads the whole buffer: neither a byte of the magic nor the model
  type can be a padding byte, so these two are never completed by what is behind the
  model, and a padding byte is not 0, so `sub_size` is not either where it meets one.
* `GenuineIsAccepted` - the converse, provided the buffer is 0 where `sub_size` is beyond
  the padding. That this is so, after any loads, is `ZerosBeyond` below.

The rest of it, for any number of clients, connections, packages and sizes, from
the named assumptions `PackageConstants`, `PartitionConstants`, `CryptoConstants`,
`IpcConstants` and `DirectConstants`:

* `Invariance` - `IInv` is inductive. `TypeOK` alone is not: to know that a counter
  of a pool stays in range one must know what is held at each program point
  (`ResInv`), that a handler in progress has a real message, of the right type,
  for a package whose header was accepted (`MsgInv`, which bounds the writes into
  the buffer), and that a client that closes has the answer it will return
  (`ApiInv`). One lemma per group of actions, resting on two: what every answer
  preserves (`ReplyKeepsInv`) and what every step inside a handler preserves
  (`GotoKeepsInv`).
* `TypeCorrect`, `NoLeak` - `TypeOK` and `ResourcesReleased` from `IInv`.
* `KeyDerived` - `DecryptsWithDerivedKey`, from `IInv` and `KeyInv`: after a
  successful derivation for a load, and until its key is destroyed, the global
  holds the derived key.
* `ModelIntact` - `LoadedModelIntact`, from `IInv` and `BufInv`: from the update on,
  and while the status is still success, the buffer's first bytes are the whole
  plaintext; at the last step `AcceptedIsGenuine` applies.
* `ZerosBeyond` - `ZeroInv`: the static buffer starts as zeros, the update of a load is the
  only step that writes it (`OnlyUpdateWrites`) and writes no further than the padded
  model of the build's one package. `ModelIntact` and the refinement rest on it: without
  it, whether a short model loads would depend on the loads before.
* `MessagesAnsweredOnce`, `ConnectionsClosed` - `OneAnswer` and `HandlesBalanced`.
  A section of its own shows, one lemma per PSA call and for any service, that each
  call preserves both and the finiteness of the set of connections (needed for its
  size); `EchoProofs` has the lighter half of it that the echo service needs.
  What is left for the partition is `LinkInv`: the message in its hand is the one the
  SPM waits for an answer to, and between messages there is none.

The last part of `TinyMaixProofs`, from the same assumptions: `ContractImplemented`, that
`TinyMaixSystem` implements `InferenceContract`. Beyond the invariants above it needs
`SentInv`, that the message served is the one its client sent, and that a result is
kept only until its function returns. Each step of a client is a step of the contract
or unseen by it; each step of the partition takes a message or goes on with one
(unseen), or answers (`PartitionEffects`, with the `Effect` each answer may have):
the answer to a `psa_call` is the contract's `Answer`, the answers to `psa_connect` and
`psa_close` are unseen.

`EchoProofs`, for any number of clients and any limits allowed by `EchoConstants`:
`TypeCorrect`, `OwnBytesBack` and `LimitsAgree`. The properties speak of what a function
has returned; the invariant follows the bytes back: what is returned comes from a right
answer (`AnswersInv`), an answer is made from the message, and the message is the one
the client sent (`MessagesInv`), whatever the buffers held before.

`TzProofs`, for any number of threads, slots, contexts and ids allowed by
`TzConstants` and `NsidConstants`: `TypeCorrect`, `TableCorrect`, `OwnNsid`,
`FreshTokens` and `LossesAccounted`. `TableMatchesThreads` and `RunsUnderOwnNsid` are not
inductive alone: a new token must differ from every token still remembered
(`TokensBelowCounter`), and a live thread's context must be one the secure side
still holds (`LiveContexts`).

`CbcProofs`, for every block size, byte, model, vector and invertible cipher
(`CipherConstants`): `DamageLocal`, that one damaged block costs the block itself and
the next. `DamageIsLocal` speaks of the plaintext only; its invariant adds that the
ciphertext is chained (`CipherChained`), that what is stored is the ciphertext but
for one block (`StoredMatches`) and that what is decrypted is what is stored,
unchained (`PlainUnchained`). `CbcTypes`: `TypeOK`. `ModelBack`: `RoundTrip`, from the
same invariant with one conjunct more (`CheckedInv`: the checks were made on all of the
plaintext) and lemmas on how padding and blocks cut a model up and give it back.

`NsProofs`, for any number of clients, calls and slots and any settings that compile and
whose interrupt queue (16 entries as shipped) holds a signal per slot (`NsConstants`), in
all three builds. The actions of one build are disabled in the others,
so each build has its own invariant and a theorem joins them.

* `MutualExclusion` (`OneInside`), `PermitsEnough` (`PermitMeansSlot`) - the builds whose
  clients take a lock. Neither property is inductive. The permits left and the permits
  held must add up (`CountInv`), a thread waits only when none is left and is blocked,
  once (`QueueInv`), the holders are exactly the threads past the lock (`HoldersInv`),
  and a slot that is not empty belongs to a client that is using it, a slot found under
  the spin lock to nobody (`SlotInv`). If every slot were occupied while a client with a
  permit still looks for one, the owners would be as many holders as there are slots, not
  counting that client: one more than there are permits (`PermitLeavesSlot`).
* `AnswersMatch` (`AnsweredOwnRequest`), `CallLeavesNothing` (`CleanBetweenCalls`). In the
  builds with a lock a client keeps its slot until it has looked at the reply: the slot
  holds the request of its present call, as far along as the client is (`RequestsInv`),
  and a flag is set or a wake-up pending only for a client whose reply is there
  (`FlagsInv`; both in `CallInv`). In the build with a mailbox thread the request changes
  hands: from the message queue to the mailbox thread, to a slot, to the reply. Everything
  in flight is a request of a client that waits for it (`TransitInv`), no client has two
  things in flight (`OnePlaceInv`), and a wake-up is pending only for a client whose
  answer is written (`SignalInv`, `ClientInv`). Together, `ThreadCallInv`.
* `CountersBounded` (`StatisticsBounded`) - with what a thread has read and not yet added
  (`CountersInv`): a sample is at most `NumSlots`, and outside a reset so is the share of
  every transmission.
* `TypesKept` (`TypeOK`). That the kernel's interrupt queue never overflows needs
  `SignalsInv`: pending signals and requests at the secure core are together no more than
  the slots. That no pool goes below zero needs `MemoryInv` and, for its beginning, that
  the allocator leaves nothing of a pool too small for its own bookkeeping (8 bytes
  compile), a case no shipped size shows.
* `BootSucceeds` (`BootObjectsCreated`) - with the shipped settings (`ShippedFirmware`) and
  at most eight clients (`FewClients`; with 16 slots a ninth would find no stack). The
  invariant `PoolInv` is an account of the one pool everything comes from: what `main()`
  has taken at each of its steps and 344 bytes for each thread the application has
  created. That no thread comes into being otherwise rests on the invariants above: a lock
  is handed to a thread that waits for it.

`EncryptorProofs`, for any paths, files there before, failures, interruptions and number of
runs (`ToolConstants`): `KeyKept` (`KeyOpensPackage`) and `SourceMatches`
(`ArtifactsAgree`). The inductive invariant `ToolInv` says what each stage of a run has
left behind it (package, then key, then header and source). A later stage must not
overwrite what an earlier one wrote; the theorems have that as a hypothesis on the command
lines, `SeparateFiles`: the key file is none of the other files and, when C files are
asked for, the output ends in `.bin`. Every command line of `encryptor_files` satisfies
it. The one of `encryptor_names` that does not shows that it is needed (finding 2).

`EngineProofs`, for any models, any buffer, scratch and picture sizes, any alignment of
the buffer and any number of inferences and reloads (`EngineConstants`), as long as every
model is `WellLaid`. That hypothesis is the engine's precondition: `tm_load` checks only
the magic and the model type, `tm_run`, layer by layer, the type, the dilation, the
kernel's size and, for a kernel of one element, padding and `dmul`; the converter has to
provide the rest, and the shipped model does. Of a layer that `tm_run` does not get to
only a size is asked. In words: every record has a size, so the cursor moves (`Sized`); what a layer writes and the weights it reads fit
(`Inside`); what it takes it takes from where it was put, no more than was made, with no
write over it in between (`Kept`); the output is the last layer, of as many elements as
it has made, and there is one with enough scores for `parse_output` (`Scored`).

* `EngineInvariant` - `EngineInv` is inductive. `InputsFresh` alone is not: a value read
  is the right one because it was written by its producer, in this inference, and nothing
  has been written over it since. So the invariant says what is in the buffer between the
  reads: everything that a layer still to come takes from those already run (`ReadyInv`),
  what the present layer has computed so far, which for softmax is a different thing in
  each of its three passes over the same cells (`MadeInv`), the scores behind the output
  (`OutputInv`, `ScoresInv`); beside the cursor and how far the walk is (`EngineTypes`).
* `TypeCorrect`, `FreshInputs`, `StaysInside` - `TypeOK`, `InputsFresh` and
  `AccessesInside` from it. Where a layer's record is and which matrix it is given are
  recursive functions of its number; what they give for a layer and the next is shown by
  a least counterexample (`LeastElement`), so no induction theorem is needed.

`ConvProofs`, for every layer `ConvConstants` allows, which is what `tml_conv2d_dwconv2d`
itself relies on: a window of 2 to `MaxKSize` cells fits in `sbuf` for all the channels
it is gathered for, and a pointwise layer, which pads nothing, takes only pixels of its
input. Layers with no column of output (`ow` = 0) are not among them.

* `ConvolutionComputed` - `OutputIsConvolution`. The invariant is where the loops are
  (`CursorInv`), that the elements written so far are the right ones, in order
  (`WrittenInv`), and that `sbuf` holds the window of the present pixel, a padded cell
  where the window leaves the input (`WindowInv`). That the gathering loop, with its
  clipped bounds, writes exactly the cells inside is `CellsInsideRight`; that the places
  `k_oft` computes are those of distinct cells is uniqueness of division (`PlaceUnique`);
  the dot product takes eight terms at a time and the rest (`DotIndicesAll`).

Only model-checked: liveness (`EveryCallReturns` of both systems, `StarvedOnlyByOthers`,
`EveryEchoReturns`, `EveryPrintReturns`), which is outside the prover's reach, as is ENABLED; and the log
formatter (`TypeOK`, `OutputIsRendering`, `CutOnlyWhenFull`). How many
digits fit `num_buff`, and which they are, is a matter of powers of the base, and what a
call has printed is selected from the console: the installed provers know nothing of
`^` nor of `SelectSeq`.

## Plan

Done: package format, inference partition, API, contract and its refinement; echo;
NSID and shim; the encryptor and its ciphertext; the engine and its convolution; the
wrapper, the mailbox layer with its statistics, the kernel configuration, boot and the
three builds; the log formatter; the proofs above.

Left, most valuable first:

1. `CutOnlyWhenFull` of the log, restated over the pieces on the console one by one,
   which needs neither powers nor `SelectSeq`.
2. An engine model whose output is not dequantised (the one hazard without a
   property), once code in the partition distinguishes it.

## Not modelled

* TF-M, mbed TLS and the RTX kernel: not this repository's code; external, modelled
  by how it is used. `rtx_evr.h` and `cmsis_os2.h` are their declarations.
* Of the kernel configuration: the event recorder and the C library's space per
  thread, which touch nothing that is modelled.
* Of the wrapper: deleting objects, thread priority and exit, `set_flag` outside an
  interrupt, the tick and the delay, which the firmware does not call; timeouts other
  than waiting for ever.
* The test programs (`src/nspe`): straight-line callers of functions the models call
  in any order. Some print their "passed" banner unconditionally.
* Failures of `osKernelInitialize` and `osKernelStart`, whose results `main()` does not look
  at and which leave no thread to go on, and of `psa_get`, after which both services
  wait for the next signal.
* What happens inside one `stdio_output_string`: a piece is printed whole. Nor a quotient
  by 0 other than the processor's 0 (`Udiv`), nor an engine run on a model the converter
  would not have laid out.
* C library stubs, build scripts, `uf2conv.py`, manifests beyond what the partitions'
  constants say, and the data tables of the embedded model and key.
