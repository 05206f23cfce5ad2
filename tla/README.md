# A verification project for emp-ag2pc

emp-ag2pc is a header-only C++ library for maliciously secure two-party
computation with authenticated garbling.  Two processes, ALICE (party 1, the
garbler) and BOB (party 2, the evaluator), run the same program over
`AG2PCSession`.  Gates are only recorded; at a flush the recorded chunk is
compacted and run by the garbled-circuit engine over a COT-backed pool of
authenticated shares and AND triples.

This directory holds TLA+ models of the library, TLC configurations that check
them on small instances, and TLAPS proofs of the parts where a general argument
is worth having.  All paths below are relative to `src/`.

## 1. Inventory

| Part | Source | State | Operations |
|---|---|---|---|
| Gate recorder `AG2PCCtx` | `emp-ag2pc/session/ag2pc_ctx.h` | `next_id_`, `chunk_gates_`, `pending_`, `const_wire_` | `and_gate`, `xor_gate`, `not_gate`, `public_bit`, `reserve_ids`, `drop_chunk` |
| Flush planner | `emp-ag2pc/backend/flush_plan.h` | none (pure) | `plan_flush` |
| Canonical check | `emp-ag2pc/backend/canonical.h` | none (pure) | `ag2pc_require_record_canonical` |
| Session `AG2PCSession` | `emp-ag2pc/session/ag2pc_session.h` | `carried_`, the open `InputBatch` | `input`, `input_batch`/`add`/`finish`, `reveal`, `checkpoint`, `run`, `run_artifact`, destructor |
| Engine `AG2PCEngine` | `emp-ag2pc/backend/engine.h`, `run_state.h` | one `AG2PCRunState` per run | `run_program`, `run_source`, `run_pass`, the c_gamma exchange |
| Gate passes | `emp-ag2pc/backend/pass_ctx.h` | liveness and slot tables, masks, stream chunks | liveness, slot/mask, garble, evaluate, gamma-check |
| Chunk pipe | `emp-ag2pc/backend/helper.h` | ring, `consumer_head_`, `count_`, `closed_` | `producer_slot/publish/close`, `consumer_slot/release` |
| Protocol messages | `emp-ag2pc/backend/protocol.h`, `helper.h` | transcript digests | `process_inputs`, `public_wires`, `decode`, `feq_check` |
| Triple pool | `emp-ag2pc/backend/triple_pool.h` | COT sessions, `cots_minted_since_check_` | `draw`, `compute`, `maybe_flush_cot_check` |
| Secure wires | `emp-ag2pc/backend/secure_wires.h` | per-wire share, Lambda, label | `resize`, `slice`, `append` |
| Profiling | `emp-ag2pc/backend/profiling.h` | counters | timers |

**How they interact.**  User code holds values that are bare recorder ids.
`reveal` and `checkpoint` call `flush_`, which asks `plan_flush` for a compact
program, feeds it the carried wires, runs it on the engine, stores the outputs
in `carried_` and drops the chunk.  `run` skips recorder and planner: it feeds a
stored program to the engine and gives the outputs fresh ids.  The engine
replays the gate source several times, once per pass; pass 2 garbles at ALICE
and evaluates at BOB, each with a helper thread coupled by a `chunk_pipe`.  At
the end of a run `maybe_flush_cot_check` settles the shares drawn since the last
check.  `error()` ends the process, so every failed check is final.

**What is hard here.**

- Long legal call sequences.  Ids outlive the chunk that made them; a chunk may
  read carried, pending, dropped and never-finished ids in any mixture.
- State set in one layer and cleared in another: the constant cache, the
  minted flag, the garbler's copy of Lambda.
- Threads: the ring's slots are used outside its mutex; four threads, two
  bounded rings and a bounded socket form one chain; a body may throw while a
  helper thread is in the middle of the stream.
- Two parties cut the same stream into chunks independently, and every message
  is untyped bytes: nothing but the order says what a message is.
- Each party has two sockets and a thread pool; the COT roles and the exchanges
  cross on them, so who waits for whom depends on which jobs run at once.
- Coins and seeds are hashes of the transcript, read by each party on its own.
- Physical slots are recycled during a run and the same gates are replayed over
  them up to three times.
- Authentication is asymmetric: the same public bit is folded into a MAC at one
  party and into a key at the other, and no party ever sees both halves.

**What makes each part correct.**

- Recorder: chunk, pending set and constant cache describe the same wires; ids
  grow along the chunk and are never handed out twice.
- Planner: stale operands are detected exactly; dead gates, and only those, are
  eliminated; the compact program computes what was recorded.
- Session: an id is pending, carried or reserved, never two of them; a stale id
  stays stale; every carried wire holds its clear value; what is revealed is
  that value, and rests on checked shares.
- Engine: honest parties pass the c_gamma check; outputs hold the same mask at
  both parties; labels and masks are right on every wire.
- Passes: no two live wires share a slot, and the passes over slots compute what
  the engine promises.
- Triple pool: every layer is an authentic triple; both parties use the same
  coins; sigma is a share of the AND of the operand masks.
- Sockets and threads: messages are read where they were meant to be; a session
  ends; a failed F_eq stops both parties.
- Chunk pipe: a FIFO channel without races, lost wakeups or a premature end.
- Pass 2: row k reaches gate k; both passes end; a throw still joins.

The hazards, each at its line and with the properties that cover it, are listed
in `PROJECT.json`.

## 2. Modules

| Module | Models | Notes |
|---|---|---|
| `Bits` | – | bits as polynomials over GF(2); one state stands for all inputs and masks |
| `Circuit` | gates, programs, `canonical.h` | `validate_program` is emp-tool's (external) |
| `FlushPlan` | `flush_plan.h` | pure operators |
| `AG2PCCtx` | `ag2pc_ctx.h` | one action per recorder call |
| `Engine` | `engine.h`, the per-gate effect of `pass_ctx.h`, the results of `protocol.h` | pure operators over shares and opened masks |
| `AG2PCSession` | `ag2pc_session.h`, `maybe_flush_cot_check` | composes the four above |
| `ChunkPipe` | `chunk_pipe` in `helper.h` | one action per critical section and per notify |
| `ChunkChannel` | – | what `chunk_pipe` promises: the abstract FIFO channel |
| `PipeClient` | a producer and a consumer of one pipe | refines `ChunkChannel` |
| `GarbleStream` | garble and evaluate passes, `run_pass` | two instances of `ChunkPipe` and a connection |
| `SlotPasses` | `run_source` and the five passes of `pass_ctx.h` at one party | liveness, recycled slots, replays; compared with `Engine` |
| `Blocks` | `AShareBundle`, `LSB`, `LSB1`, the Deltas of `init_abit_` | symbolic 128-bit blocks |
| `Duplex` | `io`, `sib`, their transcripts | one FIFO per direction in use |
| `TriplePool` | `compute_inplace` and all it calls, `feq_check` | both parties, step by step |
| `HalfGates` | `process_inputs`, pass 2, c_gamma, `decode` | both parties, message by message, with labels |
| `PartyThreads` | `parallel_abit_`, every blocking call of a session | main thread and thread pool of both parties, two sockets |
| `PlanReference` | – | what `plan_flush` is compared with: the least closed set of wires, the value of every id |
| `MCFlushPlan`, `MCSession`, `MCSlotPasses`, `MCTriplePool`, `MCHalfGates`, `MCPartyThreads` | – | instances for TLC |
| `Blocks_proofs` | – | the algebra of symbolic bits and blocks; authentic shares under XOR, scaling and public bits |
| `Engine_proofs` | – | induction on the naturals and over folds; what the engine returns for any canonical program; what `plan_flush` returns for any chunk |
| `AG2PCSession_proofs`, `PipeClient_proofs`, `GarbleStream_proofs`, `SlotPasses_proofs`, `TriplePool_proofs`, `HalfGates_proofs` | – | theorems about the module they are named after |

**How the levels fit together.**  `Engine` is the specification of a run that the
session uses: shares and masks, no slots, labels or messages.  `SlotPasses` shows
that one party's passes over recycled slots return exactly the bundle `Engine`
specifies.  `HalfGates` shows that with labels, rows and messages between two
parties the masks come out as in `Engine`; it takes `sigma` from the triple pool
as an authentic share of the product of the operand masks, which is what
`SigmaCorrect` shows of `TriplePool`.  `TriplePool` and `HalfGates` let messages
interleave but treat a send as never blocking; `PartyThreads` has the blocking,
the buffers and the threads, and no contents.  `GarbleStream` is the detail of
the one step of `PartyThreads` in which rows flow.

Definitions keep the names of the functions they model.  `PROJECT.json` maps
each of them to its lines.  A definition whose comment starts with *Bug:* is a
deliberate mutation of the one below it: the run that checks a property must
fail when the mutated form is used instead.

### Abstractions

- **One state for two parties.**  The session and everything above the wires
  is executed in lockstep by both parties from the same calls, so `AG2PCSession`
  has one copy of it.  Only what can differ is doubled: `lamA`, `lamB`, the
  Lambda each party stores.
- **Symbolic bits.**  A clear input is a variable, a drawn mask is a variable,
  and a bit is the set of monomials of its algebraic normal form.  An equality
  of bits therefore holds for all inputs and all random masks, not for sampled
  ones.
- **Shares** are sets of draws (a formal XOR).  MACs and keys go through the
  same XORs as the shares, so equality of sets is equality of MACs.  The c_gamma
  check of honest parties can fail exactly if the Lambda bits at the two
  parties select different MACs (`WitnessDiffers`); both outcomes of the check
  are explored when both are possible for some inputs and masks.
- **One wire per value.**  A wider value is a list of wires with consecutive
  ids; the keep list of a flush, and the outputs of `run`, are lists already.
  The revealed value itself is one wire.
- **Ghost variables** of the session: `truth` (clear value of every id),
  `checked` (shares the COT check has covered), `opened` (the last reveal).
- **error()** sets `status` to the message and clears the state; nothing
  happens afterwards.
- **Pipe steps.**  A step is what happens under one hold of the mutex, a
  `notify_one`, or one write to a slot in hand.  `wait` may wake spuriously.
- **Symbolic blocks.**  A block is an XOR of unknown blocks (keys, the two
  Deltas, labels, hash outputs), each multiplied by a polynomial of bits: a
  polynomial whose monomials have one block variable each.  Equality is equality
  for all values.  `LSB` and `LSB1` use only what `init_abit_` pins: bit 0 is 1 in
  both Deltas and 0 in every key; bit 1 is 1 in the garbler's Delta, 0 in the
  evaluator's, and an unknown bit of every other block.
- **Ideal primitives.**  A COT draw is a fresh key and a fresh share bit
  (external).  `MITCCRH` is a function of the block hashed and the tweak; as its
  argument is one of two blocks chosen by a bit, the result is the hash of one
  plus the bit times the difference.  A digest stands for what was hashed, a
  commitment for what was committed.
- **Transcripts.**  A digest of `io` and `sib` commits to how much of each channel
  a party has sent or read.  A coin is a random function of it, drawn by whoever
  asks first, so two parties that asked at different points would see different
  coins.
- **Slots.**  A slot holds a share and a mask.  Labels are kept in the same slots
  and written in the same places, so they are not repeated in `SlotPasses`.
- **NetIO and ThreadPool** (external) are modelled from their use.  `feq_check`
  sends without a flush and then reads, so NetIO must push its buffer before it
  reads; `PartyThreads` has that.  The direction in which a COT extension sends
  follows the comments of `init_abit_` on `kSenderSendsOnExtend`; the base OTs of
  `begin` go both ways on each socket.
- **Stream rows** carry the index of the gate they were made for as a ghost;
  no action looks at it.

## 3. Runs

| Run | Question | Bounds | States |
|---|---|---|---|
| `flush_plan` | Is `plan_flush` right in every recorder state, for every keep list and every set of stale ids? | 4 ids, keep lists of 2 | 4 700 |
| `session` | Do all sequences of calls, batches and stored programs included, keep ids apart, values right and shares settled? | 3 ids, 1 keep besides the revealed value, 2 arguments, 2 adds | 37 000 |
| `session_gates` | The same for longer gate chains; do the internal checks never fire, and c_gamma only for a reason? | 4 ids | 74 000 |
| `reveal_to_garbler` | *violation*: see finding 1 | 3 ids | – |
| `reveal_settled` | *violation*: see finding 2 | 3 ids | – |
| `chunk_pipe` | Race, order, wakeups, end, refinement with fairness | 2 slots, 5 chunks | 530 |
| `garble_stream` | Rows aligned, no null chunk, both passes end, a throwing garbler joins, a throwing evaluator if the stream fits the ring | 0 to 5 ANDs, chunks of 2, 2 slots, 3 rows in flight; at most one party throws | 130 000 |
| `evaluator_throw_long` | *violation*: see finding 3 | 0 to 5 ANDs | – |
| `slot_passes` | Do the passes over recycled slots compute what `Engine` says? | 1 input; all programs of at most 3 gates, any output; all chains of 5 XORs; masks drawn 2 at a time | 273 000 |
| `triple_pool` | Is `sigma` an authentic share of the AND, with the same coins at both ends and no honest abort? | requests of 1, 2, 3 ANDs; 3 or 4 layers; batches of 2 | 1 900 |
| `half_gates` | Inputs, garbled run and reveal: labels, masks, checks and outputs right? | 2 inputs; all programs of 2 gates, 3 longer ones; 3 ownerships; all recipients | 80 000 |
| `party_threads` | Does a session end, every message reach its reader, and a failed F_eq stop both? | 2 workers, buffers and sockets of 1 message; 0, 1 or 2 runs, with and without ANDs | 98 000 |

### The properties

`flush_plan`: `PlanDetectsStale` (stale operands are reported iff a kept id
depends on one), `PlanExact` (dead-code elimination and compaction against the
least closed set `Cone`; a plan passes the engine's canonicity check),
`PlanPreservesMeaning` (the compact program
computes what the chunk says, symbolically).

`session`: `TypeOK`; `CtxInv` (the recorder's chunk, pending set and constant
cache agree); `IdsPartitioned`; `CarriedCorrect` (every carried wire decodes at
the evaluator to its clear value, and reveals to BOB and PUBLIC return it); `EngineOutputsSettled` (the minted
flag is exact, and an unchecked share occurs only in its own input wire);
`StaleForever` (action property: no id is handed out twice
and no stale id revives).  `session_gates`: `NoInternalError` (the
planner/engine and flush/gather self-checks never fire),
`GammaFailsOnlyOnDisagreement` (honest parties see a c_gamma error only if a wire
entered the run with different Lambda bits).

`chunk_pipe`: `PipeTypeOK`, `NoSlotRace`, `InOrder`, `NoLostWakeup`,
`EofMeansDrained`, and `ImplementsChannel`, the refinement of
`ChunkChannel` with its fairness.

`garble_stream` and `evaluator_throw_long`: `RowsAligned`, `NoNullChunk`,
`BothPassesEnd`, `GarblerThrowJoins`, `ShortThrowJoins`, `EvaluatorThrowJoins`.

`slot_passes`: `NoAliasing` (two wires still needed never have one slot, no such
slot is on the freelist, all lie inside the arrays); `LiveIntact` (in every pass the slot
of a wire still needed holds that wire's share and mask, and permanent shares
stay where pass 1 put them); `MatchesEngine` (outputs and operand shares equal
those of `Engine`).

`triple_pool`: `TriplesAuthentic` (after every s-open and every combined layer,
each lane is a triple with correct MACs); `FeqAgrees`; `CoinsAgree`; `BucketBound`
(enough layers for the size, and not one more); `SigmaCorrect`.

`half_gates`: `LabelsMatch` (the evaluator's label is the garbler's, plus Delta iff
Lambda is 1, on every wire it has reached); `MasksCorrect` (Lambda masks the clear
value, at both parties once the garbler ran the gamma pass); `SeedsAgree`;
`NoHonestAbort` (no MAC hash and no c_gamma digest differs); `DecodeCorrect`.

`party_threads`: `MessagesMatched`; `SocketsNotShared`; `SessionEnds` (liveness, from
the constructor's base OTs to the destructors); `FeqStopsBoth` (liveness: if the
digests differ, both parties reach `error`).

### Bounds and why they are enough

- `MaxId` stands for `UINT32_MAX`; the guard is modelled, so the overflow exit
  is reached in every session run.  Three ids suffice for two inputs and a
  stored program's output, or an input and a chunk of two gates; four
  (`session_gates`) for a chunk over the output of an earlier flush combined
  with a second input, which is where the parties' masks can disagree.
- `MaxKeep`: the flush list is the revealed value plus `MaxKeep` ids, so lists of
  two with duplicates occur.  `PlanKeep` = 2: the planner is checked on all lists
  of at most two ids on its own.
- `MaxArgs`, `MaxAdds` = 2: a batch can mix PUBLIC and owned adds in both orders,
  a stored program can take twice the same argument.
- `Depth` = 2 is the code's value.  `MaxChunks` = 5 wraps the ring twice.
- `KBatch` = 2 (the code's is larger) with up to 5 ANDs gives no chunk, a
  partial chunk, full chunks only, and full chunks with a tail; five ANDs are
  three chunks, one more than the ring holds.  `NetCap` = 3 is less than the four
  rows of a full chunk, so both sides block in the middle of one.

- `slot_passes`: three gates over one input with every output wire give every
  order of deaths of three wires, gates that read one wire twice, constants and
  ANDs in every position; five XORs let a recycled slot be recycled again while
  others are live.  `LgBatch` = 2 (the code's is 2^14) with up to three ANDs makes
  the buffer of output masks run empty in the middle of a run.
- `triple_pool`: `Floor` and `Ssp` are scaled down (1024 and 40 in the code) so that
  requests below and above the floor occur, with the exact-power case in between;
  three lanes are the smallest number with shifts that wrap differently.  Two and
  three gates share operands, repeat one wire, and use a constant.  `Batch` = 2 (8
  in the code) gives a partial last batch.
- `half_gates`: two gates suffice for every pair of gate kinds in sequence, with
  equal, swapped and repeated operands; the longer programs chain ANDs through
  NOT, XOR and a constant.  There is one input phase and one run: wires carried
  from run to run are the business of `AG2PCSession`.
- `party_threads`: buffers and sockets of one message block as early as possible;
  three batches are more than buffer and socket hold.  Two workers are the least
  the code works with: with one, `SessionEnds` fails in the constructor.

The session runs have no fairness and no liveness property: a session waits
for its caller.  `flush_plan` disables the deadlock check because the recorder
there simply runs out of ids.

### Fairness

`PipeClient`, `GarbleStream` and `PartyThreads` assume weak fairness of each thread: the OS
scheduler runs a thread that stays runnable, a mutex held for a few
instructions is eventually acquired, TCP delivers what was sent.  Throwing and
spurious wakeups are not fair.  Nothing assumes that a caller goes on: the
session of `PartyThreads` is a fixed list of calls.  Its run does not check for
deadlock because a session ends; `SessionEnds` excludes every other stop.
`TriplePool` and `HalfGates` have no fairness; their deadlock check is on, so two
parties that follow the protocol never wait for each other there.

## 4. Findings

1. **An AND-free run leaves the garbler without masks** (`reveal_to_garbler`).
   `AG2PCSlotMaskPass` sets `mask_input` of XOR and NOT wires to 0 at the
   garbler and relies on the gamma-check pass to fill them in, but `run_source`
   runs that pass only `if (st.num_ands > 0)` (`engine.h:249`).  After an AND-free
   flush, ALICE's Lambda of an XOR or NOT output is 0.  A reveal of such a value
   to ALICE gives the wrong bit whenever BOB's Lambda is 1, and an AND fed by such
   a wire in a later run may end in the c_gamma error between honest parties.
   `secure_wires.h:25-26` says Lambda is "set at every party after process_inputs
   or compute".  Reveals to BOB and to PUBLIC are right (`CarriedCorrect`),
   and `GammaFailsOnlyOnDisagreement` says this is the only way c_gamma fails.
2. **A reveal of an input wire is not preceded by the COT check**
   (`reveal_settled`).  `flush_` returns early when nothing kept is pending
   (`ag2pc_session.h:384`) and `decode` checks nothing itself, against
   `ag2pc_session.h:137-139`, `README.md:107` and `protocol.h:56-57`.
   `EngineOutputsSettled` shows what does hold: whatever the engine returned rests
   on checked shares.
3. **A throwing evaluator may never join its receiver** (`evaluator_throw_long`).
   `AG2PCEvaluatePass::end` (`pass_ctx.h:372`) releases at most one chunk and waits
   for a receiver that may itself wait for a free slot; `engine.h:55-56` says the
   thread is joined.  `ShortThrowJoins` shows that it is when the run has
   at most `Depth` chunks, `GarblerThrowJoins` that the garbler's side is right.

## 5. Proofs

`tlapm` checks every theorem; none rests on an unproved statement.  The constants
are arbitrary within the named assumptions, which are evaluated by TLC too:
`MaxIdAssumption`, `PlanKeepAssumption`, `MaxChunksAssumption` (natural numbers);
`SessionAssumption` (stored programs have the shape of the type, bounds are
naturals); `DepthAssumption` (a ring has a slot); `StreamAssumption` (chunks, rings
and the connection hold at least one element); `SlotPassesAssumption` (programs are
canonical, which `run_program` checks before the passes; masks are drawn at least
one at a time); `TriplePoolAssumption` (a request is a sequence of pairs of finite sets
of draws and not empty, the floor is at least 2, a batch has an entry);
`HalfGatesAssumption` (canonical programs, every input has an owner or is a
constant, "Public" is no party); `PartyAssumption` (two parties).

| Theorem | States | Module |
|---|---|---|
| `ChunkConsistent`, `IdsNeverShared`, `StaleStaysStale`, `SessionTypes` | `CtxInv`, `IdsPartitioned`, `StaleForever`, `TypeOK` | `AG2PCSession_proofs` |
| `WiresCorrect`, `OutputsSettled`, `SelfChecksNeverFire`, `HonestGammaFailure` | `CarriedCorrect`, `EngineOutputsSettled`, `NoInternalError`, `GammaFailsOnlyOnDisagreement` | `AG2PCSession_proofs` |
| `StaleOperandsDetected`, `PlansExact`, `PlansPreserveMeaning` | `PlanDetectsStale`, `PlanExact`, `PlanPreservesMeaning` | `AG2PCSession_proofs` |
| `RunReturns`, `AgreeingRunPasses` | what a run returns; when c_gamma passes | `Engine_proofs` |
| `PipeTypeCorrect`, `PipeRaceFree`, `PipeInOrder`, `PipeNoLostWakeup`, `PipeEofDrained` | `PipeTypeOK`, `NoSlotRace`, `InOrder`, `NoLostWakeup`, `EofMeansDrained` | `PipeClient_proofs` |
| `PipeIsChannel` | the pipe implements `ChunkChannel`, without its fairness | `PipeClient_proofs` |
| `StreamRowsAligned`, `StreamNoNullChunk` | `RowsAligned`, `NoNullChunk` | `GarbleStream_proofs` |
| `SlotsNotAliased`, `SlotsIntact`, `PassesRefineEngine` | `NoAliasing`, `LiveIntact`, `MatchesEngine` | `SlotPasses_proofs` |
| `PoolCoinsAgree`, `PoolBucketBound` | `CoinsAgree`, `BucketBound` | `TriplePool_proofs` |
| `PoolTriplesAuthentic`, `PoolFeqAgrees`, `PoolSigmaCorrect` | `TriplesAuthentic`, `FeqAgrees`, `SigmaCorrect` | `TriplePool_proofs` |
| `RunSeedsAgree` | `SeedsAgree` | `HalfGates_proofs` |
| `RunLabelsMatch`, `RunMasksCorrect`, `RunNeverAborts`, `RunDecodes` | `LabelsMatch`, `MasksCorrect`, `NoHonestAbort`, `DecodeCorrect` | `HalfGates_proofs` |

### The arguments

**`PipeClient_proofs`**, for every ring size and number of chunks.
None of the properties is inductive alone.  The invariant `IInv` adds `HoldInv`
(the slot in a thread's hand is still the one its index formula gives, although
the other thread moved `count_` and `consumer_head_` meanwhile), `RingInv` (the
ring holds the published chunks in order from the head) and `CloseInv`.  The
arithmetic is in three lemmas: `ModOnce` and `AtSlot` (one wrap, distinct
positions are distinct slots), `AtAfterRelease` (a release shifts positions by
one, so the producer's index survives it: `(head+1)+(count-1) = head+count`).
`PipeIsChannel` takes each step to a step or a stutter of the channel: publishing
appends to the queue, releasing takes its head, everything else is invisible.

**`GarbleStream_proofs`**, for every chunk size, ring depth, connection capacity
and number of ANDs, with or without a throw.  `StreamInv` describes all places a
row can be in as one interval of the stream after another: the chunk being
filled (`FillInv`), the garbler's ring (`PipesInv`), the chunk being sent (`SendInv`),
the connection (`NetInv`: it holds exactly the rows sent and not yet received),
the chunk being received (`RecvInv`), the receiver's ring, the chunk being evaluated
(`EvalInv`).  Since both parties cut the same number of ANDs into chunks by the
same rule, equal positions are equal gates; this is where an off-by-one in the last
partial chunk would break the induction.

**`SlotPasses_proofs`**, for every canonical program.  `IndInv` has one part per
table: `LiveInv` (what pass 0 wrote of `last_use` and `permanent` is right up to the
gate reached), `MapInv` (a wire's slot differs from the slot of every wire still
needed when it was allocated, and a permanent slot is never given to another wire;
the freelist has no duplicates and no needed slot), and `ShareInv`, `DrawInv`,
`MaskInv` (what the slots hold in each of the replays).  `NoAliasing` alone is not
inductive: that a recycled slot is free follows from the liveness table written a
whole pass earlier.  `PassesRefineEngine` joins what `LiveInv` and `MaskInv` say
of the slots at the end of the last pass with what `Engine_proofs` says `Engine`
computes per wire: the slot passes return the engine's result.

**`Blocks_proofs`** is the algebra of `Bits` and `Blocks`, which the provers do not
know: the sum is a commutative group of exponent 2, the product is commutative,
associative and distributes over it (by the parity of cardinalities), `LSB` and
`LSB1` are linear, the hash of either label opens what was closed under it.
`Shared` says that a family of shares is authentic: each party's MAC is the
other's key, plus the other's Delta if its bit is 1.  Authentic shares are closed
under the sum and under scaling by a public bit.

**`TriplePool_proofs`**, **`HalfGates_proofs`**.  Both agreement theorems on coins and
seeds rest on one idea: the number of messages a party has sent and read on each socket is a function
of its step and layer (`CoinInv`, `SeedInv`), and at the point where the coin or
seed is taken this function is the same for both parties although their roles on
the two sockets are exchanged.  No property of the contents is used there.
`PoolBucketBound` adds `LayerInv` and needs that the search for the number of layers
ends: `PowersGrow` (`l^(Ssp+1) > 2^Ssp` for `l` at least 2) is a hypothesis of the
theorem and of `PoolTriplesAuthentic`, because the provers know nothing of `^`.

The contents of the pool's triples need a second invariant, `PoolInv`: there is a
request and a history such that `ExchangeInv` holds.  The history records the shift
and the combination of each layer that was opened.  All vectors a party holds, and
every message in the channel, are then functions of the request, the layer and the
history, so that a message is known by its number in the channel; `Stage`,
`Buffers` and `CountedAfter` say what a party holds after each of its steps.
`OpeningIs`, `VectorsAgree`, `FoldedGood` and `CombinedGood` are the algebra of one
layer (folding two buckets leaves a share of a product), `ResultGood` is Beaver's
identity for the triple that `compute_inplace` delivers.

The values in `HalfGates` need a third one, `ProtocolInv`: there is a run `R` (a
program, the owners of its inputs and a recipient) such that `RunInv(R)` holds.  The
wires' draws, clear values, Lambda bits, shares, labels, rows and witnesses are
functions of the run and a wire or gate alone; `RunInv` says of everything the state
holds that it is the value of this function:

- `GarblerState`, `EvaluatorState`: each party's tables, by its step and the gates it
  has done in its pass;
- `CountsOk`, `ChannelsOk`: how many messages a party has sent and read, and what the
  message of each number in each channel is.  A message is therefore known when it is
  read, however far ahead its sender is;
- `Matches`: labels agree up to the gate both have reached, and an AND is evaluated
  only after it was garbled;
- `ValuesAre`: what `decode` has returned.

None of the four properties is inductive alone.  That the labels match after an AND
needs the masks of its operands, and the mask of its output comes from a label; both need
that the row just read is the row of this gate, which the message counts give.  There
is one `...Keeps` lemma per action, and the algebra is apart: `AndLabelDecodes` (either
half-gate label the evaluator can compute is the garbler's output label, plus Delta iff
Lambda is 1), `RowBit` and `AndLambdaIs` (Lambda from a bit of the row and bit 1 of the
label, because bit 1 of the two Deltas differs), `WitnessesAgree` (the witness made of
MACs is the one made of keys).  `WitnessesMet` turns the last into `NoHonestAbort`: a
garbler that has a witness has read a message on `io_back`, the evaluator sends the
first one only when its pass is over, so it has that witness too.  The draws, values and masks of the wires
of a run come from the equations of **`Engine_proofs`**, so that the half-gate
protocol is shown to agree with the `Engine` the session uses.

The first part of **`Engine_proofs`** makes induction over programs possible.  An operator cannot be
passed to the library's induction theorems, but a *set* can: `SetInduction` is
derived from the well-foundedness of `<`, and a statement about all positions of a
sequence becomes one about the set of positions where it holds.  Since a lemma
cannot take the step function of a fold as a parameter either, `FoldStep` takes a
tag that says which fold of the model is meant.  `FoldTrace` says that a fold has a trace, the accumulator
before and after each element; `GrowingFold` that a fold which adds one wire per
gate is the function that satisfies the gate equations.

**`Engine_proofs`**.  With the traces, `WiresAre`, `MasksAre` and `ClearAre` turn the
three passes into equations per wire, and `WireInduction` runs along the program.
`WiresDecode` is the heart: the Lambda the evaluator has on a wire masks the clear
value on every wire if it does on the inputs (`GateDecodes` is the case for one
gate).  `MasksAgree` says the garbler's gamma
pass finds the evaluator's masks if the inputs agree; hence `AgreeingRunPasses`.  For the
planner, `ReachedClosed` and `ReachedLeast` characterise the backward sweep as the
least set that is closed under operands, `RemapIs` and `CompactIs` the renumbering,
`PlanCanonical` and `PlanMeans` the result.

**`AG2PCSession_proofs`**, for every id limit, any stored programs and unbounded
argument, keep and batch sizes.  There are two invariants.  `SInv` is about ids: to
`CtxInv` and `IdsPartitioned` it adds `AllocInv` (everything the session holds was
handed out below `next_id`, which is why a fresh id collides with nothing).  `WInv`
is about values:

- `GoodWires`: every carried wire decodes to the clear value of its id, and a draw
  not yet checked occurs in one input wire only.  The second half is needed to
  keep it true that nothing the engine returns is unsettled: a run XORs shares, so
  an unchecked draw would spread if the check at its end did not cover it.
- `Means`: the clear value of a recorded gate's id is what the gate computes
  from the clear values of its operands.  It ties the recorder's chunk to the
  values, so that what a flush returns for a pending id (`PlanMeans`,
  `RunReturns`) is that id's value, whatever else was recorded, pruned or flushed.
- `BatchTruth`: the adds of an open batch still stand for the inputs they were
  made with, which `finish` needs however many calls came in between.

`Exact`, `StaleDetected` and `MeaningPreserved` prove the three properties of the
planner from `CtxInv` alone.  The reference definitions are different from the
algorithm: `Cone` is an intersection of closed sets (`ReachedIsCone`), and `Meaning`
is a recursive function, of which `MeaningExists` first shows that its equations
have a solution.

### Only model-checked

- Liveness (`BothPassesEnd`, `GarblerThrowJoins`, `ShortThrowJoins`, `SessionEnds`,
  `FeqStopsBoth`) and the fairness part of `ImplementsChannel`.
- `MessagesMatched`, `SocketsNotShared` of `PartyThreads`: see the plan.

## 6. Plan

What is left is one proof: `MessagesMatched` and `SocketsNotShared` of
`PartyThreads`, with an invariant over the two programs of blocking calls in the
style of `SeedInv`.  It has to relate positions in four programs of blocking calls
(the main thread and the pool job of each party) and the bytes in two bounded sockets; the run
`party_threads` checks both properties on complete sessions.

## 7. Not modelled

- A party that deviates from the protocol, and statistical or computational
  statements: the hash, the OT extension and the coins are ideal.
- The inside of the OT extension (`begin`, `next_n`, `end` of emp-ot), of NetIO and
  of the thread pool: external, modelled from how they are used.
- Several live `InputBatch` objects at once; values of more than one wire in
  `reveal` and `input`, hence `SecureWires::slice`; the context-mismatch errors of
  debug builds; `check_secure_wires`, which no bundle the library builds can fail;
  what the compiler checks (static asserts, the typing of live bodies).
- The counters `total_ands` and `process_input_calls`, profiling, the umbrella
  header, examples, tests and the benchmark.

## 8. How to run

    tlc -config MCSession.cfg MCSession
    tlapm AG2PCSession_proofs.tla

The other runs, with their modules and configurations, are under "runs" in
`PROJECT.json`.
