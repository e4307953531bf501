# Kathryn: formal models

Kathryn is a C++ library in which hardware is described as a program.  A module
declares registers, wires and memories, and describes what happens over time
with *flow blocks*: `seq`, `par`, `cif`, `cwhile`, `pip`, `zync` and so on.  The
library compiles the flow blocks into one-hot state registers and gates
("100% cycle determinism", `Readme.md:16`), generates Verilog from the result,
and simulates it by generating C++, next to a test bench that runs in a thread
of its own.

This directory holds TLA+ models of the parts in which something can go wrong
over time, in an order nobody tried, or at the boundary of a number: the front
end that turns a program into flow blocks and update events, the compiled flow
blocks, the pipelines, the simulation kernel with its two threads, the model
it runs and the arithmetic of that model, the elements that the library makes
of operators, nests, slots, tables and memories, the Verilog that is generated for the
same design, and three designs of the repository: a pipelined RISC-V core
(`example/riscv`), a cache server (`example/cacheAc`) and the out-of-order processor
Kride (`example/o3`).  Paths below are relative to `src/src` of the repository.

    tlc -config pipeline_flow.cfg MCPipeline     model-checks one configuration
    tlapm PipelineProofs.tla                     checks the proofs

## 1. Inventory

| Component | Where | State it keeps | Status |
|---|---|---|---|
| special registers and nodes | `model/flowBlock/abstract/{nodes,spReg}` | one register per state of a flow block, with prioritised update events | modelled: `FlowNode` |
| flow block compilation | `model/flowBlock/{seq,par,cond,loop,time}`, `abstract` | none over time: a tree becomes a network | modelled: `FlowCompile` |
| `pick`, `pipeStream` | `model/flowBlock/{pick,pipeStream}` | of a stream: two wait registers for each element | modelled: `FlowCompile`, `FlowNet` |
| compiled machine of a module | the same, and `hwComponent/module` | start node, state, wait, counter, sync registers | modelled: `FlowNet` |
| pipelines | `model/flowBlock/pipeline` | a pip's wait node, a zync's send node, ready wires of `SyncMeta` | modelled: `Pipeline`, `ItemChannel` |
| simulation kernel | `sim/controller`, `sim/event`, `sim/interface` | event queue, current cycle, stop mark, four `SerializeEvent`s, the trigger | modelled: `CoSim`, `Lockstep` |
| values of the simulation | `sim/logicRep`, `sim/modelSimEngine/base/simValType` | a number of any size in machine words | partly: `Datapath` |
| `zif`, `zelif`, `ztate`, `zcase`, pseudo block | `model/flowBlock/cond`, `.../state` | classes of assignments, while a chain or a ztate is open | modelled: `FrontEnd` |
| update events | `model/hwComponent/abstract/{updateEvent,assMetaMng,assignable}` | the pool of events of each register | partly: `FrontEnd` |
| stacks of the controller | `model/controller`, the attach and add functions of all blocks, `makeComponent.h`, `box`, `interface/base` | the modules, boxes and blocks that are open while the user's program runs; a lock on making elements by hand | partly: `FrontEnd`, `Construct` |
| hardware components | `model/hwComponent` | a graph of registers, wires, expressions, nests, memory accesses, each with its pool of events | partly: `Library`, `Design` |
| tables | `model/hwCollection/dataStructure/table` | none over time: decoders and multiplexers | partly: `Tables`, `Library` |
| other hardware collections | `model/hwCollection/dataStructure/{slot,mux,indexing,memTable}` | none over time | partly: `Library` |
| simulation engine | `sim/modelSimEngine` | variables of the generated file: registers with a second copy, wires, memories, marks of writes, counters | partly: `SimEngine`, `Design`, `Hardware` |
| Kride core: tags and speculation | `example/o3/core/{tagGen,mpft,broadCast}` | rotating tag, number of unresolved branches, fix table | modelled: `KrideTags`, `TagRing` |
| Kride core: registers | `example/o3/core/{rrf,arf}` | ring of results, registers, rename table and a copy for every tag | modelled: `KrideRegs`, `RrfRing` |
| Kride core: reservation stations | `example/o3/core/{rsv,orsv,irsv,rsvs,search_idx}` | waiting instructions, allocation pointers | modelled: `KrideRsv` |
| Kride core: store buffer | `example/o3/core/storeBuf.h` | a ring of stores with three pointers | modelled: `KrideStBuf` |
| Kride core: pipeline | the rest of `example/o3/core`, `o3_sim.cpp` | stages, reorder buffer, memories | partly: `Kride`, `Isa`, `RvInstr` |
| Kride core: branch predictors | `example/o3/core/{btb,gshare}.h` | | not modelled: commented out where they would be used |
| Kride lockstep bench | `example/o3/simCompare` | workload, verdicts so far, command of each memory | partly: `KrideState`, `KrideCompare` |
| RISC-V example core | `example/riscv/{core,subSystem,element.h}` | five stages, their states and data registers, register file, memory | modelled: `Riscv`, `Isa` |
| cache server example | `example/cacheAc`, `example/dataStruct/queue`, `model/interface/singleHandShake.h` | a ring of requests, banks with a schedule, a timer and rows, an outgress | modelled: `Cache`, `CacheStore` |
| Verilog generation | `gen` | for every module the wires that were made to route something through it | partly: `VerilogGen` |
| decoder library | `lib/instr` | registers of the decoded operation and its operands | partly: `Decoder` |
| result writer, front end, utilities | `sim/simResWriter`, `frontEnd`, `util` | output text, tables, files | not modelled: text and data transformation |
| tests and other examples | `test`, `example` | | source of the programs the runs use |

How they interact.

- *User program → controller → flow blocks.*  Constructing a block pushes it on
  a stack of the controller; leaving its scope pops it, attaches it to its
  parent and, for the outermost, to the module.  An assignment goes to the block
  on top of the stack, or becomes a block of its own.  `buildHwComponent` then builds
  the tree: each block creates its nodes, builds its children, reads their
  summary (`NodeWrap`: entry, exit, forced exit, number of cycles) and wires
  them.  Hold and reset signals are handed down to every node inside.
- *Nodes → registers.*  A node is a register or a gate.  The register collects
  *update events*; every clock cycle the one of the highest priority whose
  condition holds decides its next value.
- *pip ↔ zync.*  The two sides of a channel share a `SyncMeta`.  Each tells the
  other through a combinational wire that it is ready; nothing else connects
  stages.
- *Controller of the simulation ↔ test bench.*  The main thread takes the events
  of the next cycle out of a queue and runs them in order.  One of them, the
  trigger, hands the turn to the bench thread and back through four condition
  variables, at the front and at the end of a cycle.  The bench writes the next
  cycle it wants into the trigger, which the controller reads.
- *Design → generated model.*  The wires and expressions of all modules are
  sorted and become statements; each edge of the clock becomes one function that
  computes and one that moves.  The controller of the simulation calls the four
  functions of a cycle, or one loop over them.
- *Design → Verilog.*  Each module of the design becomes a module of text.  What one
  reads in another is routed to it through ports and wires that the generator
  makes, up to the module that both are in and down again; later routes use them
  again.
- *User program → design.*  Every operator, slice, nest, slot or table access makes
  elements that refer to those made before, and every assignment adds events to
  the pools of the registers that a name stands for, however many names they have.
- *Description of an instruction set → zif tree.*  Each rule is a sequence of tokens; the
  library branches on the bits in which rules differ and assigns, at each leaf, the
  registers of the operands and operations.
- *Generated model ↔ values.*  Every expression of a cycle becomes a C++
  expression on machine words; masks, casts and shifts keep it in its size.
- *Parts of the Kride core.*  Fetch, decode and dispatch are pips joined by
  zyncs; the units behind the stations too.  The branch unit tells every other
  part by calls (`onMisPred`, `onSucPred`) that add events to the registers of
  that part; results reach waiting instructions over bypass wires and the ring.
- *Ring → banks → outgress of the cache.*  Each hands a request or an answer over by a single
  hand shake: a wire that asks, a wire that accepts, in the same cycle.
- *Lockstep bench ↔ cores.*  The bench loads a program, resets both cores, serves
  their memories and compares what it sees of them at the end of every cycle.

What is hard, and what each part must get right.

| Part | Hard behaviour | What makes it correct |
|---|---|---|
| front end | a `cif`, `zif` or `ztate` stays on the stack after its end, because an else may follow; whatever comes next must remove it first; assignments are taken out of their blocks, sorted into classes, merged over arms, sorted again | the flow blocks are the ones written, and a register gets the value the text gives it |
| nodes | several events on one register in one cycle (set, hold, reset, count) | the state is kept under hold, gone after reset, not doubled by a restart |
| compilation | branches that end in any order, or together; forced exits through joins; loops tested in the same cycle in which they are entered | control is in one place, is not lost, leaves nothing behind; the number of cycles is the one claimed |
| pipelines | transfers that both sides must agree on while either is held, refused, killed or restarted | no item is lost, duplicated or overtaken; one token per stage; progress |
| kernel | two threads, missed and spurious wake-ups, double unlock, stop and limit, events scheduled while events run | bench and model take turns, events run in their cycle, `simStart` returns |
| Verilog | what a module reads elsewhere comes through ports and wires that several routes share, made in the order in which somebody asked | the text is well formed and means the design |
| generated model | statements in an order found by a search; registers, memories and wires that are moved at different moments; single cycles and long runs | it goes through the states of the design, or is refused because of a cycle |
| operands and collections | operands of different sizes, slices of nests of slices, several names of one register, indices that select no row, or several | an operand is worth what was written; a register loads what was assigned to it last, bit by bit |
| decoder library | bits that one rule fixes and another leaves open; operands that one rule uses and the next does not; immediates in pieces | the registers show what the rule of the instruction says, and nothing of another or of an earlier one |
| values | sizes that fill a type partly or exactly, several words, carries, shifts across words | the number is the one a register of that size holds |
| Kride | a mispredict in the same cycle as commits, results, issues and stores of what it keeps and what it throws away; tags and ring entries used again; operands that arrive in the cycle of dispatch | registers and memory change as in a machine that executes one instruction after the other, and go on changing |
| RISC-V core | an operand that is written in the cycle in which it is read; a jump that leaves the execute stage while two instructions behind it are fetched and decoded; a shift of many cycles; a load that takes the read port from the fetch | the program runs as if one instruction was executed after the other |
| cache server | a bank that decides one cycle ahead while its request is answered, replaced or overtaken by a maintenance | every request is executed once, as what it is, in order |
| lockstep bench | a comparison that looks at a field only while it is in use; registers, memories and a memory command that outlive a workload | a difference that reaches the memory is reported by then; nothing an earlier workload left is taken for a difference |

`PROJECT.json` lists every hazard at its line together with the properties that
would catch it.

## 2. Plan

Written, in this order, most important first:

1. `FlowNode`, `Pipeline`, `ItemChannel`, then `PipelineProofs`: the pipelines
   are the part of the design language with concurrency of its own;
2. `FlowCompile`, `FlowNet`: compiled control flow;
3. `Lockstep`, `CoSim`, then `CoSimProofs`: the simulation kernel;
4. `Datapath`: simulated values;
5. `RvInstr`, `Isa`, `Tables`, `KrideTags`, `KrideRegs`, `KrideRsv`,
   `KrideStBuf`, `Kride`; `TagRing` and `RrfRing` with their proofs; then
   `KrideState`, `KrideCompare`, then `KrideRsvProofs`, `KrideProofs` and
   `KrideAlikeProofs`;
6. `FrontEnd`, then `FrontEndProofs`; `Construct`;
7. `Design`, `Hardware`, `SimEngine`, then `SimEngineProofs`;
8. `VerilogGen`;
9. `Library` and `Decoder`, next to `Datapath` in `MCOperands`;
10. `Riscv`, next to `Pipeline` in `MCPipeline`, and its part of `PipelineProofs`;
11. `Cache` and `CacheStore` in the same two modules.

Composition:

    FlowNode ──► Pipeline ──(refines)──► ItemChannel      MCPipeline
        │            └──► PipelineProofs (with Riscv, Cache)
        └──► FlowNet                                      MCFlowNet
    FlowCompile ──┘
    CoSim ──(refines)──► Lockstep                         MCCoSim
      └──► CoSimProofs
    Riscv ──(refines)──► Isa                              MCPipeline (beside Pipeline)
    Cache ──(refines)──► CacheStore                       MCPipeline (beside Pipeline)
    Design ──► Library, Decoder, beside Datapath          MCOperands
    KrideTags, Tables ──► KrideRsv ──► KrideStBuf ──┐
    KrideTags, RvInstr ──► KrideRegs ───────────────┴► Kride
    Kride ──► KrideState ──► KrideCompare (two cores)     MCKride
    KrideCompare ──(refines)──► Isa, TagRing, RrfRing
    TagRing, RrfRing ──► RingProofs
    KrideRsv ──► KrideRsvProofs ──► KrideProofs (with KrideCompare, RingProofs)
    KrideProofs ──► KrideAlikeProofs (the two cores of KrideCompare)
    FrontEnd, Construct                                   MCFrontEnd (beside each other)
        └──► FrontEndProofs
    Design ──► SimEngine ──(refines)──► Hardware          MCSimEngine
                 ├──► SimEngineProofs
                 └──► VerilogGen (the other back end, on the same designs)

Abstract specifications: `ItemChannel` (what a chain of stages promises),
`Lockstep` (what co-simulation promises to a bench), `Hardware` (a design as a
machine that goes from edge to edge), `Isa` (what a processor
promises to a program), `CacheStore` (what the cache server promises to those who
ask it), `TagRing` and `RrfRing` (the life of the tags and of the
ring entries, in any order of calls).  Another is planned: a
reference interpreter of flow blocks, which `FlowNet` would refine; it would
replace the separate properties of section 4.2 by one statement.

Left, in this order:

1. several zyncs on one channel in `Pipeline`;
2. the interpreter and the refinement of it by `FlowNet`; programs that
   `FrontEnd` builds as the input of `FlowCompile`;
3. in `FrontEnd`: slices, assignments with `=`, the order in which different
   blocks add events to one register, and its blocks in the modules of
   `Construct`; the access of a bench to values (`ValRepBase`);
4. proofs: `ImplementsISA`, which needs the values of all operands in flight.

## 3. Modules and code

**`FlowNode`** — one operator per register of `nodes` and `spReg`, for one clock
cycle: what it exits with and what it becomes.  Each lists its update events from
the highest priority to the lowest (set 100, count 99, unset and user reset 50,
`hwComponent/abstract/updateEvent.h`).  This is where a hold wins over a reset.

**`Pipeline`** — `N` stages `pip(c_i) { seq { Work[i] states; zyncc(c_i+1,
accept) { data_i+1 <<= data_i } } }`.  `up[i]` is the set of registers of stage i
that are 1: 0 is `waitNode`, `Work[i]+1` is `prepSendNode`.  A step is a clock
cycle: the program picks any subset of hold, kill, restart and refuse signals of
`SyncMeta` that the constants allow; the ready wires are *any* solution of their
equations (`Settled`), then all registers load.  `Ent`, `MasterReady`,
`ReadyFinal`, `Sent`, `SetNode` are `pipe.cpp:86-125` and `zync.cpp:80-112`.
`data[i]` is an item number, the only data the properties look at.

**`Riscv`** — the core of `example/riscv`, five stages made of `pip`, `zync`, `seq`,
`zif`, `pif` and `cdowhile`.  A step is a clock cycle: the operators between "The
wires of a cycle" and "The registers load" are the wires of the code, in the order in
which they depend on each other, `NextExec`, `NextDc` and `NextWbData` the registers of
the execute stage, `RiscvNext` everything else.  The blocks of a stage are reduced to
the states that tell cycles apart: `decode` is the wait or the send state of the decode
pip, `exec` the wait state or the state of the execute sequence.  The write back pip
needs one bit, its body runs in the cycle behind the end of execute.  `Decoded` loads
what `genDecodeLogic` loads, the registers of operands it does not set included.  What
an instruction means is `Execute`, written from the same lines but without stages.
Data is abstracted: an address counts words (the 4 of the code is 1), the sizes of
words, of their parts and of shift amounts are constants, a shift is any function with
the property `ShiftAssumption`, and `and`, `or`, `xor` are left out.

**`Cache`** — the cache server: the ring of requests in a memory (`Queue`), the
ingress, the input interface of every bank (`isBusy`, `input`), the bank with its
schedule (`state`: waiting, executing a load or a write, the first cycle of a
maintenance and the clearing of its rows), and the outgress.  `Clock` is a cycle after
the start node, `PushDataSim` a request that the bench puts into the ring.  The size
of the ring (`curSize`) is a register of `log2Ceil(WORD_AMT)` bits (`queue.h:28`, `39`),
which cannot hold the size of the full ring if the number of words is a power of two.
The bench counts in the C++ number behind the register (`queue.h:155`), and where the
whole register is read, as by `isEmpty` and by the assertion at `queue.h:149`, that
number is read without a mask; so it is what the model keeps, and `Container` is where
it wraps.
`Choice` is the schedule, a `pif` tree over wires that the code computes one cycle
ahead (`IsNextCycleBusy`, `NextIsLoad`).  Nothing is in the ring before the start node
has fired, since the bench waits a cycle (`systemTest.h:41`).  The turn of the outgress
(`curBankItr`) counts on through a reset (`simpleOutgress.h:62`), so `CacheInit` has any
bank.  A maintenance is skipped if no bank chooses in the cycle in which the timer is at
its limit; that is in the code, and the timer goes round.  A value has one field: with
several, `composedDataToAssign` (`bank.h:140`) and `getReadValue` (`bank.h:119`) put
them in opposite orders, so that a load returns them exchanged (section 6).
**`CacheStore`** — a line of requests, one place for each bank, a store.

**`FlowCompile`** — `buildHwComponent` of every block as functions on programs.
A program is a function from block numbers to records (kind, children,
conditions, length, declared signals).  `Compile` gives nodes, edges, summaries,
and the hold and reset signals that reach each block.  Recursion is by recursive
functions.  `Buildable` is the simulation's own refusal of combinational cycles
(`proxyBuildMng.cpp:57`).

**`FlowNet`** — runs a compiled program.  Registers (`up`, `timer`, `joined`,
`cnt`, `start`), this cycle's inputs (`in`: a value for every condition, and the
hold, reset and start signals) and this cycle's exits (`on`).  `Settled` gives
every node's exit by one recursive function; `Tick` loads all registers.
`TSpec` adds `age`, a clock on every block whose summary claims a number of
cycles; it only watches.  The programs the runs execute are in `MCFlowNet`.

**`CoSim`** — the main thread and the bench thread.  `StartCycle` and the phases
of a batch are `SimController::start` and its loops over the events of a cycle;
`ModelPart`, `LongRun`, `ModelNext`, `TriggerPart`, `TriggerNext`, `UserEvent`
are the virtual functions of the three kinds of events; `conNextCycle`,
`conEndCycle` and `describeConReturns` are what a bench may do.  A call of
`SerializeEvent::notify` or `wait` takes several steps: lock, publish, unlock,
`notify_all`; lock, test, sleep, wake, lock, test, unlock, unlock again.  `todo[t]`
holds the calls a thread still has to make.  A mutex that the second unlock finds
owned by the other thread is released: the effect that C++ leaves undefined and
that `NoForeignUnlock` shows does not occur.  The queue's own mutex is left out:
only the main thread uses the queue after the start.

**`Lockstep`** — front visit, the four parts of a cycle, end visit, in this order.

**`Datapath`** — the class `UintX` of `valRep.h`, a function from word numbers to words:
add, subtract, multiply, long division, shifts, relations, masks, resize; and
`ValR` and the generated statements on top of it: which C++ type
holds a value, masks, enforcement of the size, slices, casts, partial
assignments.  `ref` is a history variable: the number the register would hold if
it were just a number.

**`Library`** — what the calls of a program on operands, slots, tables and memories
make.  A step is one call.  `design` holds the elements made so far, in the form of
module `Design`, and a call appends those that the code makes, in its order: a
nest for an extension, a comparison for each row that an index may choose, a
wire of several events for what is read, events in the pools of what is
written.  `DoReduceBase` builds the tree of muxes over the rows of a table, with the
hardware that tells which of two rows is selected as its parameter: a field of the
left one, or `FindMatchedOrdered` on rows that got two wires more.  `oprs`, `slots` and `tables` are what the program has in hand; a row, a
slice or a join of a table has registers in common with the table it is of.
Three history variables hold the meaning, for each of a sample of states of the
registers: `is`, what an operand is worth, computed from the worth of what the
call was given; `home`, the bits of registers that an operand which can be assigned
stands for; `loads`, what each register and memory is to load, by writing the bits
of the home over it, call by call.  `stock` is what a program starts with: a few
registers, slots, tables and held states, and the calls it may make.  A call
uses what the call before it made; a program that would not is one with a call
less.  The numbers of the events' priorities are other than in the code (the reset
has the greatest `int`), their order is the same.

**`Decoder`** — the decoder library.  The calls of a program (`addMop`, `addDecRule`,
`ad`, `adm`, `addFixPrefix`, `declareHw`) are actions, and `Decode` is a cycle of the
logic `genDecodeLogic` makes: `GenDecInternal` goes down the tree, `DoAsm` is what
the rule at the leaf loads.  A rule is a sequence of tokens; the parsing of its
text is left out.  `Matches`, `Shows` and `WrittenImm` read the same tokens from
the left, as a user writes them, for the property.

**`RvInstr`**, **`Isa`** — the instructions and a machine that executes them one
after the other; a core with two commit ports may show two at once.
**`Tables`** — how the library selects a row: a tree of muxes built from a
function on two rows, level by level.  **`KrideTags`**, **`KrideRegs`**, **`KrideRsv`**,
**`KrideStBuf`** — one operator per operation of the classes of the same name:
what a cycle makes of their registers.  **`Kride`** — a step is a clock cycle of
the whole core: `Wires` says how the branch in the branch unit ends, `Committed`,
`Dispatches`, `Decodes`, `Fetches` and `Issued` which stage lets go, and `Cycle`
loads every register.  A pip is a bit (executing or waiting): module `Pipeline`
shows that a stage has no other state.  Fields that are carried along and never
read are left out; every station has the same kind of entry.  `apc` and `clk` are
a history variable and the clock.

Abstractions of `Kride`: addresses count words (the 4 of the code is 1), a
one-hot tag is the number of its bit, immediates are those of the decoded
instruction, and of operations that take the same way through the core
one or two stand for all (`add` and `addi`, `beq` and `bne`).  The
memories answer as `o3_sim.cpp` makes them: an instruction in the cycle of its
address, data in the cycle after.  The start is the state after the reset.

**`KrideState`** — what the bench sees of a core at the end of a cycle
(`Recruit`) and when it takes two cores for equal (`Compare`): idle stages, free
rows, entries outside of the ring and operands that are not there yet are left
out.  **`KrideCompare`** — the bench: `WorkloadInit` (reset, load, first cycle),
`CompareCycle`, and the end of a workload one cycle after the first difference or
with the store of 1 to word 2.  The slave of the code is the Verilog core
RIDECORE, which is not in the repository; here it is a second Kride core, of
which one register is changed once, between any two cycles (`Upset`): the bench
exists for the case that the cores differ.  Without a bench (`Alone`, as in
`o3_sim.cpp`) the module is a core that runs a program.  What the code leaves
alone between two workloads is left alone: registers without a reset event, and
the last command to the memory, which is executed on the data of the next
workload (`resetDmem` is commented out in `doWorkloadInit`).

**`TagRing`**, **`RrfRing`** — the operators of `KrideTags` and `KrideRegs` under
*every* order of calls, not only those the core makes, as specifications of
their own; the core is shown to implement them and they are proved about.

**`FrontEnd`** — a step is one statement of the C++ program that builds a design.
`text` is the program as it was written so far, `scope` the C++ blocks that are
open; both are the user's.  `ctl` is the controller: four stacks, the flow blocks
made so far and those that reached the module.  `Begin(kind, arg)` is the
constructor of a block and its attachment, `End` its detachment, `Assign` is
`on_reg_update`, `EndFlow` the end of `flow()` and what `buildFlow` asserts.
Its first section is what an assignment is on its way to its register: an event with
a priority, and the classes in which `zif`, `zelif`, `ztate` and `zcase` collect, join
and merge events of one register and one priority.
`Kind` is a table of what the classes of blocks do differently: which stacks they
are pushed to, how they join, whether they purge a lazy block, whether they make
an implicit block, which blocks they take.  An assertion of the code ends the
behaviour in phase `abort`.
**`MCFrontEnd`** — the right side of its properties, read off `text` alone, and
an evaluation of the events (`Run`, the `if` and `switch` statements that
`updateEvent` generates).
**`Construct`** — the same programs with an eye on where an object belongs, not on
what a block does.  `mc` is the controller with its stacks of modules, boxes and
blocks and all objects made so far: each knows its module, the object in whose
list it is, the box it is a field of and the block around it.  `frames` is the call stack of the
C++ program: a constructor, a flow, the logic of an interface, or one of the
loops of `buildAll`, which runs interfaces and submodules in the order of their
lists and registers the blocks last.  `written` is the program as a reader sees
it: whose code made an object and what surrounds it.  An action is a declaration,
the begin or the end of a box, a block or a module, an assignment, or what
`buildAll`, `start`, `reset` and `describeModelTriggerWrapper` do in between; an
assertion that fails ends the program (`failed`).

**`Design`** — what registers, wires, expressions, nests and memories mean: the
network is one recursive function, and an edge loads all registers at once.
**`Hardware`** — that as a machine.  **`SimEngine`** — the generated file.  `store`
holds its variables; locals live inside one function only (`LocalVariables`).
`SortNext` is `doTopologySort`, a search with a stack of its own, one action for each
way through a round of its loop: `OutOfRegion` is the element that is not in the
sorted set (a register), `MeetAgain` the assertion that finds a cycle.
`Build` is the generation, during which the sort runs; `MainOp` and
`FinalizeOp` are the two functions of an edge, `StartMainOpEleSimNeg` to
`StartFinalizeEleSimPos` the calls of a cycle, `LongRunGoesOn` and `LongRunReturns`
the end of the loop in `mainSim`, `GenNextEvent` the next event.  `AssignSimValue`
is a bench that writes a signal.  Registers and wires have two bits at most
(module `Datapath` has the values); an operand is a slice of an element, and an
event loads a slice.  An event is a chain of conditions (`FrontEnd` has the
others).

**`VerilogGen`** — the same designs with their elements spread over a tree of
modules.  `RouteSrcOprToThisModule` is the function of that name: `Apogee` is
where the ways from the reader and from the source meet, `Chain` makes or uses
again the wires of the modules on the way, `GenAutoWireBase` keeps them in the
order of the code's maps.  `Routes` is every call in the order of
`startRouteEle`.  `Declared`, `Assigned` and the ports are what `startWriteFile`,
`getIoDec` and `getSubModuleDec` write.  A wire is named by its kind (`AIP`, `AOP`,
`ABD`, or its own), its module and its source.  The rest is the meaning of
that text: `NetValues` follows the ports from module to module, an always block
is the fold of its assignments, and `EdgeLeaves` is the set of what an edge may
leave, since blocks that write one cell run in any order.

An operator whose comment says *Mutant* is a plausible mistake in the code of
the definition next to it.  No specification uses it; every checked property
fails when its mutant replaces the original.

## 4. What the runs check

All twelve runs take less than two minutes each.  "pass" runs check deadlock as
well, except `front_end` and `datapath`, where a program that is written ends, and `sim_engine`,
where a design that is refused is not run and the others stop at `MaxCycle`.

### 4.1 Pipelines

| Run | Instance | Shows |
|---|---|---|
| `pipeline_flow` | N=4, work 0,1,2,1; holds and refusals, no kills; `MaxItem` 9 | `ImplementsChannel` (refinement); `Progress` under fairness |
| the same | the core with 3 registers, words 0..15, and about two thousand programs of up to eight instructions (`Forwards`, `Loops`) | `ImplementsHart` (refinement); `Progress` under fairness |
| the same | the cache with 2 banks of 2 rows, values 0 and 1, a ring of 2, a timer up to 5; a write and a load for each bank, in any order and at any time | `ImplementsStore` (refinement); `Progress` under fairness |
| `pipeline_kill` | N=3, work 0,2,1; kills, restarts, holds, refusals, all at once | `InOrder`, `Handshake`, `SignalsObeyed` |

*Handshake* and *SignalsObeyed* speak, in every state, of every set
of signals the program may raise next and every solution of the ready wires.
*Handshake* relates the two separately computed decisions about one transfer:
the zync leaves its send node exactly in the cycles in which the next body is
entered.  `ItemChannel` allows one item in and one out per cycle, oldest
first, at most `N-1` inside.

`MCPipeline` runs the stages of `Pipeline`, the core of `Riscv` or the cache, one of the
three in a behaviour.  The programs put results in front of instructions that read them in the
next cycle, shift by amounts from 0 to 3, load and store parts of words, and jump over
instructions that would leave a trace.  *ImplementsHart* is the refinement of `Isa`
with one instruction at a time; the machine a program sees is the oldest instruction
that has not left the execute stage, and the registers with the result that is being
written back.  *Progress* says that what is offered to the stages is delivered
(`Delivered`), that instructions go on leaving the execute stage, and that a full
ring of the cache gets room again (`KeepsServing`).

*ImplementsStore* is the refinement of `CacheStore`: every request is executed once and
as what it is, those of a bank in the order in which they were put into the ring, and a
load is answered with what the store holds.  A bank gives up its request in the very
cycle in which it is executed, may take the next one over it in that cycle, and has
decided in the cycle before what it does with it.  The timer runs up to 5, so that
maintenance of 2 rows meets every state of the ring and of the other bank.

### 4.2 Compiled flow blocks

| Run | Instance | Shows |
|---|---|---|
| `flow_blocks` | `AllPrograms` with the clock of `TSpec`: conditions free in every cycle, and five programs with hold, reset and start interrupts in any cycle | `OnePlace`, `LeavesNothing`, `NoTokenLost`, `CyclesExact`, `ResetEmpties`, `HoldFreezes`; `Drains` under fairness |
| `hold_timer` (violation) | a held `syWait` | finding 1 |
| `hold_branch` (violation) | a held branch of a par | finding 2 |

*OnePlace*, *LeavesNothing* and *NoTokenLost* together say that a block that is
not parallel behaves like a program counter.  *CyclesExact* is the claim of
`nodeWrap.h:148-152` and the reason a par may skip its join: a block whose
summary says x cycles exits in the x-th cycle after its entry and in no other.
*LeavesNothing* and *NoTokenLost* speak of *joining* blocks only: a `parMan` exits
with each branch, a par with a join master with that branch, by design.  A `pick`
starts every branch whose condition holds, so that two of them may run; the
elements of a `pipStream` always do, and each of them is a program counter of its
own that hands an item to the next.

### 4.3 Simulation kernel

| Run | Instance | Shows |
|---|---|---|
| `cosim_bench` | a bench that visits any of the cycles 2..5 beside five user events; long runs with callbacks that schedule events and stop | `UserOnTime`, `NoForeignUnlock`; `TakesTurns` (refinement of `Lockstep`); `Joined` under fairness |
| `cosim_limit` (violation) | a bench that asks for a cycle after the limit | finding 3 |

Two threads, every interleaving at the granularity of mutex operations, spurious
wake-ups at any time.  *Joined* excludes simulations that a callback stops, which
hang in the same way as finding 3.

### 4.4 Operands and values

| Run | Instance | Shows |
|---|---|---|
| `datapath` | values: word of 3 bits, native types of 2 and 3 bits; sizes 1, 2, 4, 5, 6. Operands: ten stocks (`MCStocks`), programs of two to four calls. Instruction sets: every three rules on three bits, one with all instructions of six bits, one with a prefix | `Exact` after any sequence of statements; `MeansWhatIsWritten` after any sequence of calls; `DecodesAsWritten` after any sequence of instructions |
| `datapath_word` (violation) | size = word | finding 4 |

*Exact* is checked over every value of the register, every operand and every
operator, slice and assignment; since every value of a size is reachable, one
step of every kind from every value is covered.

*MeansWhatIsWritten* holds the elements against the calls: evaluated as a network
(`Design`), every operand has the value that follows from the texts of the calls
alone, and every register and memory loads the bits that were assigned to it
last, by whatever name, and no others.  It takes sign and zero extensions of
slices and nests, partial assignments through nests of slices, priorities of
events that several calls put into one pool, and indices that choose no row or
several.  A behaviour of the run is a register of `Datapath`, a program of
`Library` or an instruction set of `Decoder`.

*DecodesAsWritten* holds the decoded registers against the rule that the instruction
matches: operation, operands, immediate bit by bit, micro-operations, and nothing
left of the instruction before.  It is claimed for opcodes that are *Proper*: the
lowest bit in which two of them differ is written in both.  That there is exactly one
operation, or none without the prefix, is claimed for all of them.

### 4.5 The Kride core

| Run | Instance | Shows |
|---|---|---|
| `kride` | about a thousand programs in four families (`AllKinds`), and two pairs of workloads on the bench (`AloneOrInPairs`) with a change of one register in any cycle; ring of 8, 2 branches, 4 registers, words 0..15 | `OnePlace`, `OperandArrives`, `FixExact`, `SpecOwned`, `TablesRight`, `SameMemory`, `OnlyTheGuilty`; `ImplementsISA`, `TagsAndRingLive` (refinements); `KeepsCommitting` under fairness |

*ImplementsISA* is what an out-of-order core is for.  Its refinement mapping takes
the registers as they are, and for the memory adds the committed stores that are
still in the buffer.  The invariants are what it rests on and
point to the part that is wrong: *OnePlace* (an instruction of the ring without a
result is in exactly one station or unit, and nothing else is), *OperandArrives*
(an operand that waits has a producer that will serve it), *FixExact* and
*SpecOwned* (a mispredict kills what is behind the branch and nothing else),
*TablesRight* (the rename table, and the copy of every unresolved branch, name
the youngest writer of each register).  *KeepsCommitting* says that the core
never gets stuck: every program ends in a loop of one jump, so there is always
something to commit.

*SameMemory* is what the bench is for: as long as it has reported no difference,
the memories of both cores and what goes to them are the same, whichever register
was changed and whenever.  It rests on the store buffer: a wrong store is seen
there, or when its address is computed, before it leaves the core; the comparison
of the commands alone would not do, since a difference in the written data is
printed and not counted (`compareMemOp`).  *OnlyTheGuilty* is the other side: the
registers the reset leaves as they were differ after a workload that was cut off,
and a later workload that runs right is not blamed for it.  One exception is in
the definition of `guilty`: the address on the idle port of the memory comes from
a free row of the store buffer, is compared, and may be left over.  *ImplementsISA*,
*TagsAndRingLive* and *KeepsCommitting* hold across workloads: a reset in any
state gives a machine that starts anew.

The core is deterministic for a program, so an instance is a set of programs.
The families put, in every order the positions allow, loads, stores, products and
branches that succeed and fail behind unresolved branches (`Forward`), branches
backwards that use the tags again and again (`Loops`), stores and loads that fill
the store buffer (`Straight`) and dependent sums that fill the ring (`Chains`).
They run to the end of every program.  The sizes keep two defects of section 6 out
of this run: with eight rows for the multiplier and four for each adder a
station is never full up to its last row, and the store buffer is full only
in programs without branches around it.

### 4.6 The front end

| Run | Instance | Shows |
|---|---|---|
| `front_end` | every program that thirteen users can write (`All`) | `BuiltAsWritten`, `AssignsAsWritten`, `LazyContinued` |
| the same | every design of four elements of any kind, boxes and assignments; of nine registers and boxes; of seven interfaces, modules, blocks and assignments (`Designs`) | `WellMade` |

*BuiltAsWritten* compares the tree of flow blocks with the braces of the text:
no block is lost, moved into another, or purged too late, an `else` continues
the chain it follows, and an implicit block runs as the innermost `seq` or `par`
around it.  *AssignsAsWritten* is about meaning: for every value of the
conditions and selectors, the events that the blocks of one state leave give a
register what the text gives it, the last assignment of the highest priority
whose conditions hold.  It is claimed for chains and cases that are *Regular*;
section 6 says what happens to the others.  *LazyContinued* is what makes the
purge right: the comment at `flowController.cpp:11` says that there is never more
than one lazy block, which is not so (a `cif` whose `celse` is open is lazy, and
another may end inside the `celse`); what holds is that each of them is on top or
under the arm that continues it.  *WellMade* compares where the controller puts an
object with where it stands in the text, at every moment of a program in which
submodules are constructed among the members of a module or in the middle of its
blocks, boxes stand in boxes, and interfaces bring blocks of their own after the flow: it
belongs to the module whose code made it, is in the list of what surrounds it as
soon as it is complete, and is a field of the box it was declared in; submodules
are built before their module, and in the end all are.  No assertion of the code
fails but the two that tell the user of a sixth field and of a `pmVal` in a box.  A
constructor that assigns while the block before it is a lazy `cif` is left out
(section 6).  A behaviour runs `FrontEnd` or `Construct`, one of the two.

### 4.7 The generated model

| Run | Instance | Shows |
|---|---|---|
| `sim_engine` | 576 nets of a register, two expressions and a wire, cyclic ones too; `Wired` (a wire of three events, two registers, an input), `Memory` (two writers, registers of both edges), `Sliced` (parts of two-bit registers and wires, nests, a value wider than its place) and `Ported` (marked inputs and outputs), all of them spread over four modules, one below another and next to a third; single cycles and long runs up to 3 | `SortsOrAborts`, `CollectedSettled`, `PerfExact`, `VerilogAgrees`; `SimulatesHardware` (refinement of `Hardware`) |

*SimulatesHardware* compares two independent ways to the next state: statements
in an order, temporaries and marks here, one recursive function there.  Its mapping
takes registers, inputs and memories out of the variables of the file; the clock
is low between the two edges.  *CollectedSettled* is about what others see between
the two functions of the positive edge (VCD, counters, events of the back of a
cycle).  *PerfExact* compares the counters of the flow blocks with a history of
the cycles in which a register inside was 1.  *VerilogAgrees* holds the other back
end against the design: in every module of the text all that is read is declared
and driven once, on the right side of every port, the outputs of the top module
show what the design makes of the registers, and so does an edge.  Together with
*SimulatesHardware* it says that the simulation and the Verilog of a design agree.

### 4.8 Bounds, and why they are enough

- `N` 2 to 4: a stage sees only its two neighbours, so three stages have every
  kind (first, inner, last) and four a pair of inner ones.  `MaxItem` stops the
  item number; the item number of a stage only differs from its neighbours' by
  what is in flight, at most `N`, so 5 and 9 pass every relative position several
  times.  The theorems remove both bounds for the safety properties.
- `AllPrograms`: five programs with a `pick` (alone, with a default, in a loop,
  with a break, in each other) and six with a `pipStream` of one to three
  elements, started by the module or by a seq; 14 sample blocks, one or more for each kind and each choice a
  block's builder makes (length known or not, branch with or without else, with
  forced exit); each of them in nine surroundings, each pair in a par, all run
  over and over so that a stale register meets its next visit; five deeper
  programs; `parMan` and join master.  Builders see a child only through its
  summary, so nesting two deep reaches every combination of summaries.
- Programs outside the set: combinational loops (refused by the simulation),
  `cloop` of one round (a counter of no bits), an `sbreak` beside longer
  siblings of a par (section 6), `syWait` whose length is an operand.
- Start interrupts are raised only where nothing runs or all that runs is reset
  in the same cycle, and `restartSlave` only on a stage that is empty after the
  cycle (`Disciplined` in both modules).  The code has no guard; the tests use
  the signals in this way.  Without the discipline two tokens run at once.
- `Limit` 5, `BenchLast` 5: the bench visits consecutive and skipped cycles and
  the last one.  `RunMax` 3: long runs shorter than, equal to and longer than the
  distance to the next event.
- The cache: two banks see each other only through the ring and the outgress, and a
  ring of two has one request that waits behind the first.  Six cycles between two
  maintenances are more than a request takes.  The theorem removes these bounds, up to a
  ring whose full size the C++ number of its register cannot hold (`RingCounted`).
- `Menus`: a user has two to four kinds of blocks and writes at most five to
  seven statements.  Each menu joins kinds whose attachments and purges meet:
  two chains in a row and in each other, chains in a loop, wrappers that make
  implicit blocks in `seq` and `par`, z-blocks beside control blocks, chains and
  cases of two registers and of two priorities.  Seven statements hold a chain of
  three arms with an assignment in each.  Only `Menus` is bounded; the theorem of
  `FrontEndProofs` holds for all of them.
- `sim_engine`: with two expressions and a wire that read any of the four, in any
  order, a graph has every small shape: shared, repeated and missing dependencies,
  chains of three, cycles of one, two and three elements.  A cycle of the clock only
  sees the state before it, and `MaxCycle` 3 reaches every state of these designs;
  `LongLimit` 3 has long runs that end at the limit and at a condition before it.
  The theorems of `SimEngineProofs` hold for every graph, every design and blocks
  of any depth.
- Kride: two unresolved branches and three tags are the least with which a tag
  is used again while another branch waits; a ring of 8 is filled and goes round
  many times; the theorems of `TagRing` and `RrfRing` hold for every size.
- `MCStocks`: operators in pairs on registers of two and three bits, in each of
  their 32 states; slices, nests and assignments in threes on two registers; the
  access to a row, a field or a cell of a table of two rows by binary and one-hot
  indices, whose values also lie outside of the table; columns, joins and
  reductions in threes, so that a joined table is reduced and a slice of it
  reset; a search from any row on in a table of four; slots in fours; parts of slots
  that are assigned and reset, and slots of wires that are declared, joined and
  given fields, in threes; memories and muxes.  The sampled states are all states of
  the small stocks, eight states of the tables, 32 of the table of four rows and
  four of the parts of slots.  With a third call on `MCRowsByIndex`
  (77,612 states) and on `MCMemory` (25,893) the property was found to hold as well.
- A word of 3 bits for 64 and native types of 2 and 3 bits for 8 to 64: the code
  is uniform in the word length, and the sizes fill a native type partly and
  fully, and two words partly and fully.  A native value is not shifted by its
  own size or more (`Amounts`): C++ leaves it undefined.

### 4.9 Fairness

- `Pipeline!FairSpec`: cycles in which the program raises no signal go on
  occurring (`QuietCycle`).  The clock runs as long as the simulation does, and a
  program that holds a stage for ever gets what it asked for.
- `FlowNet!FairSpec`: the clock ticks.  `Drains` assumes in addition that
  from some cycle on conditions favour an exit (`Easy`); the code promises
  nothing otherwise.
- `CoSim!FairSpec`: each thread that can step does in the end, and a thread that
  finds a mutex free again and again gets it (strong fairness of `Lock`).  This
  is what the operating system gives two threads; nothing is assumed of spurious
  wake-ups.  A bench's own code is assumed to end.

- `MCFair`: the clock of the core and that of the cache go on, and in `Pipeline` cycles without a
  signal come again and again.

- `KrideCompare!FairSpec`: the clock does not stop before the bench is done.

## 5. What is proved

`PipelineProofs`, in its first part for every `N`, every `Work`,
every `MaxItem` and every choice of the sets of stages that may be held, refused,
killed and restarted, from `PipelineAssumption` alone (which only gives the
constants their types):

| Theorem | Statement |
|---|---|
| `TypeCorrect` | `Spec => []TypeOK` |
| `OneTokenPerStage` | `Spec => []OneToken` |
| `ItemsInOrder` | `Spec => []InOrder` |
| `NothingLost` | `Spec => []NoLoss` |
| `SidesAgree` | `Spec => []Handshake` |
| `SignalsAreObeyed` | `Spec => []SignalsObeyed` |
| `ChannelImplemented` | `Spec => ImplementsChannel`, for `N # 1` |

The inductive invariant is `IInv == TypeOK /\ StartFirst /\ OneToken /\ InOrder`.
`OneToken` alone is not inductive: the start node enters stage 1 like any other
entry and would meet a token there, so `StartFirst` says that nothing is up
before it has fired.  `InOrder` alone is not either: a stage that sends its item
stays busy only if it takes a younger one in, which needs that its only token
left (`OneToken`).  The steps: `HandshakeFact` (both sides compute the same
decision), `NoExit` (an empty or killed stage does nothing), `OneTokenStep`
(entry, wait, body and retry exclude each other; one case for an empty stage, one
for each place of the token), `BusyStep` and `BehindStep` (what a cycle does to
an item), then `InitIInv`, `StepIInv`, `Invariance`.

*NoLoss* is exact: a busy stage holds the item that follows the one ahead of it, and
every stage has its token.  Without kills, `Conserved == IInv /\ NoLoss` is inductive:
`BusyKept` and `TokenStep` show that a stage is left only by sending, `EntryFree`
that an item is taken in only where none is lost by it, `LossStep` concludes.
`SidesAgree` and `SignalsAreObeyed` follow from `IInv` by the
definitions of one cycle.

`ChannelImplemented` is the refinement of `ItemChannel`.  `InOrder` compares
neighbours, but the item that leaves the channel is the least of a set, so
`LInv == IInv /\ Ordered` says that items decrease from any stage to any later
one.  `NothingAppears` and `NothingDropped` give what one cycle does to the set of items
inside: the item of the last stage, the least (`LastIsOldest`), is taken out, one that enters behind the first
is put in.  With one stage the channel would have to pass an item in the cycle of
its entry; the code's chains have two stages at least, hence `N # 1`.

The second part of `PipelineProofs` is about `Riscv`, for every set of programs, every
number of registers and every width of words, of their parts and of shift amounts:

| Theorem | Statement |
|---|---|
| `RiscvTypeCorrect` | `RiscvSpec => []RiscvTypeOK` |
| `CoreImplementsHart` | `RiscvSpec => ImplementsHart` |

It assumes `RiscvAssumption` (a part of a word divides it, and words, their parts and
half words are even), `ShiftAssumption` (a shift by n is n shifts by one bit: what `Shift`
means, not what the core does) and `ProgramsAssumption` (types).  The inductive
invariant is `RiscvInv`: the stages hold consecutive instructions (`InSequence`); the
registers of the decoder are those of the instruction in execute (`DecodedRight`), its
operands name the registers before they are read (`OperandsNamed`) and behind that hold
their values in the register file (`OperandsRead`), which nothing changes until the
instruction leaves, because one result is written at a time; and what is left of a
shift makes the result of the whole of it (`ResultsRight`).  `OperandsRead` is where the
bypass is needed: the register file is one cycle behind what a program sees.  A cycle
in which nothing leaves the execute stage changes nothing of the machine (`Idles`).  In
the others (`LeavesAre`) the next instruction is the one behind or the one jumped to
(`FollowerIs`), and registers and memory are those of `Execute` (`RegistersAre`,
`ValueIs`, `MemoryIs`).  The arithmetic of words (`RemainderIs`, `AmountDown`,
`PooledIn`) is proved from the properties of quotient and remainder.

The third part is about `Cache`, for every number of banks and rows, every set of
values, every limit of the timer and every set of requests, from `CacheAssumption` and
`WorkloadAssumption` (types); the second theorem for every length of the ring but 256
and 65536 words:

| Theorem | Statement |
|---|---|
| `CacheTypeCorrect` | `CacheSpec => []CacheTypeOK` |
| `CacheImplementsStore` | `RingCounted => (CacheSpec => ImplementsStore)` |

The invariant is `CacheInv`: the types, `RingInv` (the size is at most
the number of words, and the read and the write position are as far apart as it says)
and `ScheduleInv` (a bank whose schedule is at a load or a write has a request of that
kind).  The last is what the comment in `interface.h:47`
asks for: `Choice` is made one cycle ahead, from the busy bit and the kind that the
registers *will* have, and the lemma about it shows that the wires are those of the next
cycle in every case, also when a request is taken in over one that is just done.
`RingInv` gives the line of requests (`Line`): taking one out is its tail, putting one
in is appending it, wherever the positions turn at the end of the memory.  It needs
`RingCounted`, that the number behind `curSize` (8, 16 or 32 bits) is larger than the
number of words.  It is, for every `int` but 256 and 65536, where the request that fills
the ring makes the size 0 and the ring looks empty (section 6).

`CoSimProofs` (3320 obligations), for every set of scenarios of which
`CoSimAssumption` holds (types, and a finite number of user events), under every
interleaving, with spurious wake-ups:

| Theorem | Statement |
|---|---|
| `ThreadsAgree` | `Spec => []HInv` |
| `MutexNotStolen` | `Spec => []NoForeignUnlock` |
| `TurnsTaken` | `Spec /\ ~LongRange => TakesTurns` |
| `EventsOnTime` | `Spec /\ ~LongRange /\ Punctual => []UserOnTime` |

`HInv` says for each thread in which call it can be (`BenchAt`, `SimAt`, `PcAt`),
what the trigger is then in (queue, batch or neither, `Kernel`), what has been
published, and who owns which mutex (`Mutex`).  `NoForeignUnlock` alone is not
inductive: that the mutex is free at the second unlock needs that the other side
of the event has finished its own call, which needs to know where both are in the
protocol.  `TInv` adds where the model stands in its cycle while the bench is away
(`ModelAt`, `Behind`, `Placed`), which is what the mapping to `Lockstep` reads.
`Timely` adds that the batch is in the order of the priorities and that everything
in the queue is for a later cycle.  `LongRange` (a run of several cycles in one
event) and a user event that schedules another for its own cycle (`Punctual`
excludes it) do break the order the two last theorems speak of: the code ignores
events of the running cycle there (`simController.cpp:24`, `43`).

`KrideRsvProofs`, for every size of the stations that is a power of two
(`RsvAssumption`, which the reduction of `table.cpp:396-406` needs).
`WinnerInv` is the invariant of the tree of muxes, level by level: the slot of a
node is that of a row below it and is preferred to all others.  From it follow
the searches: `SearchFirst`, `SearchLast`, `FreeIndexIs`, `OIssueIs`, and for the
stations that issue in order, whose rows are a ring without a head pointer,
`CheckIdxIs` (the row found is the first of the ring), `AllocMisPredRow` (the
pointer goes behind the last survivor), `RingIssue` and `RingWrite` (the rows stay in
the order of their ages).

`KrideProofs`, for every size of the core, every program and every sequence of
workloads:

| Theorem | Statement |
|---|---|
| `SameWrites` | `CompareSpec => []SameMemory` |
| `CoreIsRight` | `CompareSpec => []CoreInv` |
| `FixIsRight` | `CompareSpec => []FixExact` |
| `TablesStayRight` | `CompareSpec => []TablesRight` |
| `LivesAsTold` | `CompareSpec => TagsAndRingLive` |
| `TypesKept` | `CompareSpec => []DataInv` |
| `OperandsServed` | `CompareSpec => []OperandArrives` |
| `SpecIsOwned` | `CompareSpec /\ []StoresGoOn => []SpecOwned` |
| `NothingIsLost` | `CompareSpec /\ []StoresGoOn /\ []RowsApart => []OnePlace` |
| `RowsGivenOnce` | `CompareSpec => [](RowsApart <=> RoomForTwo)` |

`SameMemory` speaks of
comparisons that are over; its invariant `CInv` adds that the pointers of the store
buffer stay in it (`StoreBufferOk`, which takes the searches after a mispredict): the
row that retires is busy and is one whose data the bench has compared in that cycle,
and so the commands agree, of which the bench compares only the addresses
(`SameCommand`).

The next four rest on one inductive invariant of the core, `CoreInv`.  It looks at
the places where an instruction can be between decode and its result (`Spots`: a lane
of the dispatch stage, a row of a station, an execution stage, the second memory
stage) and at its age, which is the distance of its ring entry from `comPtr`, for a
lane the one it will get.  What a mispredict kills is what the fix table names, so
`FixExact` needs the tags of every branch wherever it is:

- `Shapes`, `FrontOk`, `TablesOk`: the fields there are, and that a lane with a
  branch goes to the branch station;
- `TagsOk`, `RingOk`: the invariants of `RingProofs`, which the core has to keep by
  calling the tags and the ring only where they allow it;
- `Sound`, `Apart`: what is at a place is in flight and without a result, and two
  places have two ages, so that nothing commits before it is executed and no entry
  is used twice;
- `TagsHeld`: a tag is in use exactly if a branch at some place has it;
- `InTheirOrder`: what is behind a branch is speculative, with a tag that is not
  older; between branches the order of tags is that of ages;
- `BrOrder`: the rows of the branch station wait in the order of their ages behind
  its pointer, and the branch in the unit is older.  That is why branches resolve in
  order, which the tags require (`TagRing` frees only the oldest tag), and why the
  row that `AllocMisPredRow` yields is right;
- `ResultsValid`, `RowsRight`: the master table names the youngest writer of every
  register, the copy of a branch the youngest writer up to it, free copies follow the
  master.

A step moves every instruction from a place to a place (`From`, `Dest`, `Origin`), its
age goes down by the commits (`AgeFollows`), and a mispredict leaves what is older
than its branch, which is no branch (`Survivor`).  One lemma for each conjunct
follows (`SoundKept`, `ApartKept`, `InTheirOrderKept`, `TagsKept`, `TagsHeldKept`,
`BrOrderKept`, `RowsRightKept`), then `CoreKept` for the clock edge and `CoreNextOk`
for the bench, whose other steps reset the core or leave it alone (`CoreSteps`).
`RowsRight` goes through what commits (`ComFits`), a group that is dispatched
(`TakeFits`) and a mispredict (`UptoBack`).

`OperandsServed` needs two more invariants.  `DataInv` says of every value in the
core what type it has, in the order in which a value travels (`FrontData`, `RegData`,
`UnitData`, `MemData`, `JobsData`).  It rests on `FetchAssumption`, since the fetch
stage picks its two instructions from a line of four words (`fetch.h:105-125`), and on
`BenchAssumption`, that a workload of the bench is a program with its data.
`OperandsWait` says that the producer of every operand that waits in a station is in
flight, without a result and older than the instruction that waits.  It is inductive
because a producer leaves with a result on the bus of that cycle, which the station
takes, or in a mispredict, which also kills what is younger (`StillYields`).  A new row
has its operand from the rename table or from the lane before it (`LaneAwaits`); that
the producer which the table names is in flight follows from `RowsRight`, and that the
ring has no result of it from `ResultsValid` (`MasterWriter`).

`SpecIsOwned` holds until a store that cannot go on misses the success of its branch,
which is a finding of section 6; `StoresGoOn` says of one state that this does not
happen, and is true in every state of the run `kride`.  `Owned` says that what is
speculative between decode and its result is behind an unresolved branch of its own
tag.  A success takes the bit of everything of that tag (`StillSpeculative`), and a
mispredict leaves nothing speculative, since what it does not kill is older than every
branch that is left (`NothingSpeculative`).  The second memory stage is left out of
`Owned`: it does not hear of a success, and nothing reads its bit.  `StoresOwned` says
the same of the rows of the store buffer.

`OnePlace` adds to `CoreInv`, by which an instruction is never in two places, that it
is in one.  Two findings of section 6 break it, so `NothingIsLost` has both as
conditions.  `RowsApart` says that the two instructions of a group that is dispatched
get two rows.  `RowsGivenOnce` says when that is, in every size, program and workload:
always, but for two instructions that go to one station with only one row free
(`RoomForTwo`; the adders are one table).  So a group that goes to two stations, or to
one with two free rows, always gets two rows, whichever rows of the table these are, and
the condition of `NothingIsLost` leaves out nothing but the defect of the last row.
The other half says that a group that is dispatched without two such rows is given one
row for both, every time.  The run `kride` has stations that never get that full.  `parameter.h` has 2 rows for the multiplier and 8 for each adder beside
64 ring entries, and its core can meet it.

The invariant is `PlaceInv`.  `Placed` says that what is in flight and has no result is
at a place outside of the lanes.  It is inductive if no row that is in use is written:
a station that issues in order offers the rows at its pointer, so this needs that the
loads and stores, too, wait in the order of their ages behind it (`InRing("ls")`,
`LsOrderKept`).  After a mispredict that is so only if what it kills are the youngest
rows (`RingTurnsBack`), and since a load or a store that is killed is speculative
and one that is left is older than the branch, it rests on `Owned` and so on
`StoresGoOn`.  What leaves its place has a result in the same cycle
(`FinishedIs`), or is killed, and then its ring entry is taken back.

`KrideAlikeProofs`, of the same instances: `OnlyGuiltyReported == CompareSpec =>
[]OnlyTheGuilty`.  A workload starts with registers that differ between the cores,
since the reset leaves some as they were, so that the cores need not be equal for the
bench to find no difference.  `Alike` says what is enough: everything the reset clears
is equal, a rename register only if it is valid, an entry of the reorder buffer only
if it is in flight, the second memory stage and the command to the memory only as far
as they are in use, a row of the store buffer if it is busy, and the addresses of all
rows.  The last is what the idle port of the memory shows, and the reason why
`WorkloadInit` adds a workload with other addresses to `guilty`.  The inductive
invariant is `Guilt`: a workload that is not guilty runs on cores that are alike and
has no difference noted.  It needs `CoreInv` and `DataInv`: that no operand is read
from a rename register that is not valid and nothing is committed that is not in
flight is what they say.

The proof has three parts.  `AlikeKept`: a cycle keeps the cores alike.  The slave
is an instance of the same module with other registers, so each operator is first
shown to be the same in both cores (`SameWires`, `SameLanes`, `SameFront`, down to
`SameEntries`), then each part of the core after a cycle (`SlaveFront` to
`SlaveCmd`).  Where the cores read registers that differ, a lemma of its own says why
it does not matter: `CommitsAlike` for a commit port that is not enabled,
`SameOperands` for an operand, `SameChoice` for the trees of muxes over the rows of the store
buffer, which choose the same row of two tables if they would choose alike between any
two rows.  `AlikeCompares`: the bench finds no difference of such cores; the ring it
goes round is what is in flight (`RoundIsInFlight`).  `StartAlike`: a workload begins
with such cores.  `SlaveShape`, that the slave has the fields of a core however it was
changed, is an invariant beside.

`RingProofs`: `TagsAreExact == TagSpec => []TagsRight`, for
every `BRANCH_ENT_NUM`, from `TagAssumption` alone.  `TagsRight` is inductive: the
tags in use are those whose distance from the tag register is less than the
number of branches.  The lemmas compute how a distance changes when the register
turns by one or two tags and when the oldest branch succeeds; there is one more
tag than there may be branches, so that the turn never reaches a tag in use.
`RingAccounts == RingSpec => []Accounts`, for every `RRF_NUM`:
the free-entry count a mispredict computes from two pointers agrees with the
count kept by adding and subtracting.  That the core makes no call outside of
these two specifications is `LivesAsTold`.

`FrontEndProofs` (768 obligations): `LazyBlocksContinued == Spec =>
[]LazyContinued`, for every set `Menus` of users and programs of any length, from
`MenusAssumption` (the kinds of a menu are kinds of the language).  The invariant
is `IInv == menu \in Menus /\ Good(ctl, NoBlock)`, of three parts: the stacks hold
blocks that exist (`CtlTyped`); the base stack is increasing, since a block is
pushed when it is made (`Nested`); every lazy block on it is on top or under an
arm (`LazyExcept`, which allows one exception: the block that `End` has just made
lazy and that is still to be detached).  `LazyContinued` alone is not inductive: a
pop uncovers the block below, which is lazy only if what was popped is an arm, and
that arms are never lazy themselves is a fact about the table `Kind`
(`KindsOK`).  There is one lemma for each function of the controller, in the order
in which they call each other.

`SimEngineProofs` (from `GraphsAssumption`, which says that dependencies are
elements, and `BlocksAssumption`, which says that a flow block has a number above
those of the blocks in it and of those that continue it): `SortIsRight == SortSpec => []SortsOrAborts`, for every graph.  The
invariant adds to `DepsFirst` that the stack is a path of the graph (`Path`), that
what was visited and has no place in the result is on the stack below the top, or
is the top (`OnStack`), that a dependency that has been looked at is done, or not in
the graph, or the next element of the stack (`Searched`), and that every element
started from is done when the stack is empty (`Tried`).  `OnStack` is what makes the
refusal right: an element met again without a result closes a path.
`ModelRunsInOrder == Spec => []RunsInOrder` takes that to the generated model: every
step of the model is one of the sort or leaves the sort alone, and the model leaves
`build` only with a sorted graph, so in every state in which it runs it has a
statement for every element of its design, each behind those it reads.
`CountersExact == Spec => []PerfExact`: the counters of a model that is run cycle by
cycle are the numbers of cycles in which a block, or anything inside it, ran.  The
invariant is `Counting`: the counters are equal to the history, and one cycle ahead
of it between the collection and the edge.  Its step is `BitsAreRight`, that the
recursive function of the generated code (`CurBits`) and the one of the history
(`Ran`, over what is `Inside` a block) are the same on every state: `Within`, the
least relation that goes through what a block looks at, solves the equation of
`Inside` (`WithinIs`, `InsideIs`), what it yields solves that of the bits
(`RunsIsRunning`), and the numbers of the blocks leave room for one solution
(`OneRunning`, by the least block on which two would differ).

Model-checked only:

- `Progress`, `Drains`, `Joined`, `KeepsCommitting`: liveness is out of the
  prover's reach.
- `TakesTurns` and `UserOnTime` in long runs.
- `FlowNet`: its properties quantify over programs, and what
  `Compile` computes for every program needs induction over the tree.
- `BuiltAsWritten` and `AssignsAsWritten` (evaluating an event is recursive),
  `WellMade` of `Construct`, `Library`
  (recursive operators), `Datapath` (bitwise operators).
- `CollectedSettled`, `SimulatesHardware` and `VerilogAgrees`: they compare numbers that
  one side puts together from parts, event after event in a fold, with those the other
  side adds up bit by bit; that is induction over the events and arithmetic of powers
  of two, of which the provers do neither.
- Of Kride: `ImplementsISA`, which would need an invariant over
  every part of the core, values of operands included; `SpecOwned` and `OnePlace`
  without the conditions that their theorems name are false (section 6).

## 6. Findings

Shown by a run that must find the violation:

1. `hold_timer` — a `syWait` that is held in the cycle in which its count is
   complete forgets that it runs and never exits (`spReg/waitReg.cpp:157`).
2. `hold_branch` — a `seq` that can be held still claims a fixed number of cycles
   (`seq/seqEle.cpp:53` adds the assignment node, not the state node), so a par
   around it goes on without it.
3. `cosim_limit` — a bench that asks for a cycle beyond the limit, or whose
   simulation is stopped, is never woken, and `simStart` joins it for ever
   (`sim/interface/simInterface.cpp:83`).
4. `datapath_word` — the mask of a whole 64-bit word is `INT64_MAX`, so bit 63 of
   every masked result is 0 (`simValType.h:171`).

Seen while modelling, kept out of the runs by the disciplines of section 4.8 or
by what is left out:

- When only the last row of a Kride station is free, the search for a second free
  row yields it once more, because the function it is built from looks at the left
  of two rows only (`core/orsv.h:57`); two instructions are written to one row and the
  first is lost.  With two rows for each adder and the multiplier, `OnePlace` fails.
  No other group is given one row (`RowsGivenOnce`).  The sizes of `parameter.h` can
  meet it.
- A store that waits for the full store buffer while its branch succeeds keeps
  its spec bit (`core/rsv.h:64` clears it only in the cycle of the issue) and
  enters the buffer as speculative; a later branch with the same tag that fails
  kills it.  Two rows in the buffer and branches around the stores are enough.
- The class of an arm is merged after the last arm that assigns the same register
  with the same priority, without the conditions of the arms between
  (`cond/zif.cpp:67-72`).  `zif(a){x} zelif(b){y} zelse{x}` assigns x in the else
  although b holds, and `zif(a){y} zelif(b){x} zelse{x}` assigns x in the else
  although a holds.  `AssignsAsWritten` without `Regular` shows both.
- A default case that is not the last of its `ztate`: a register that only the
  cases up to it assign has no case for the later ones, and takes the default
  there (`ztateClassAsm.cpp:54`).
- A `zif` directly in a `seq` that assigns two registers becomes two cycles.
- Wrapping an event loses its sub-priority (`updateEvent.h`), and `std::sort`
  keeps the order of equal priorities only up to 16 events in a pool.
- `reg = e` in a state with several entries wraps the event of the first entry
  into that of the second (`asmNode.h:113-124`).
- A submodule that is constructed in a flow while a lazy block is open takes that
  block from the stack of its parent when it purges.

- An `sbreak`'s state node gets no hold (`loop/cbreak.cpp:59-65`): a held loop can
  be left by its break.
- An `sbreak` in a par leaves a longer sibling running, whose bit in the sync
  node stays for the next visit.
- A hold outlives a reset of the same cycle in a state node, but not in a
  condition wait next to it (`stateNode.h:67`).
- A `pipStream` that is reset: the wait for the previous element gets no reset
  and the one for the next gets it twice (`pipeStream/streamEle.cpp:91-92`), and
  the ready wire of that one is read before its reset is bound (62 and 78).  An
  element that is reset while it waits goes on waiting, and a restart gives it a
  second token.  For the same reason a held `pipStream` of several elements fails
  the assertion of `nodes/node.h:172` (`WellFormed`).
- When the bench has returned, the main thread may delete the trigger while the
  bench thread is still inside `notify_all` of one of its events
  (`simController.cpp:93-95`, `ctTrigEvent.h:31-32`).  The model has this
  interleaving (`alive` is FALSE) and gives the condition variable its usual
  behaviour.
- An event scheduled for the running cycle aborts (`simController.cpp:24`); the
  bound of a long run ignores events scheduled in its own cycle
  (`simController.cpp:43`).
- `UintX::operator+` detects a carry by the sum of two words being smaller than
  one of them (`valRep.h:567`).  With a carry in and two words of all ones it is
  neither, and the carry is lost; it takes three words to see this, and `Datapath`
  is checked with two.
- A reduction over a number of rows that is no power of two takes from an empty
  queue (`table.cpp:396-406`); `Tables` takes powers of two.
- `t[row][col] <<= v` with two operands passes the column as the row
  (`tableSliceAgentDouble.cpp:56-57`), and `table.cpp:279` compares the column with the
  number of the row: the row is not looked at, and only cells of the diagonal are
  written.  `Library` has a row and a column chosen by operands for reading only.
- `RegSlot::operator+` adds the registers of the right side to the left one and not
  to the result (`regSlot.cpp:183-188`), so `joinTableByCol` makes rows with fewer
  registers than fields.
- A slot of wires that lists a field twice is assigned in the first of the two only
  (`slotMeta.h:211-225` takes the first field of the name).
- A range of fields that is given by names cannot include the last field
  (`regSlot.cpp:160-163`, `table.cpp:608-610`: the index after the last is refused).
- `exceptIdxs` of an assignment of slots is ignored (`slot.h:318` and `341`).
- `findMBO_OHIDX` (`table.cpp:564`) cuts two fields off its result, of which none is a
  helper.
- A nest refuses a value that is a slice and ends beyond its own size
  (`nest.cpp:160` compares the absolute end of the slice with the size).
- An index of a slot is not checked for reaching every field, one of a table is, but
  only when the row is read or assigned (`table.cpp:633-641` ignores the result).
- A reduction over rows of which the number is odd, see above; `MemTable` declares a
  constructor and an index operator that are defined nowhere.
- The tree of a decoder takes a bit that a rule leaves open for 0
  (`instrEle.cpp:326`): if the lowest bit in which two rules differ is open in one of
  them, an instruction of that rule with a 1 there is decoded as the other one.
- `trig(signal, EXIT_SIM)` falls through to the case that asserts
  (`simInterface.cpp:176-182`).
- Combinational loops are found when the simulation is built, never when Verilog
  is generated.
- A narrower assignment of a slice is written `x[5: 2][1: 0]`
  (`logicGenBase.cpp:28-39`), a part-select of a part-select, which Verilog does
  not have; `AssignmentLine` reads it as it is meant.
- A wire to which only constants are assigned becomes an `always @(*)` block that
  reads nothing but wires that never change (`AssignGen.cpp:39`).
- Every route that passes an intermediate wire again adds a connection to it
  (`moduleRouting.cpp:199`); only the first is written, and they are all the same.
- Wires that are marked as ports of their module are connected without routing
  (`wireGen.cpp:28-33`): what they read must be in sight where they are written, in
  the module itself for an output and in the one around it for an input.
- Two writers of one memory cell in one cycle are ordered in the simulation (the
  later one wins) and not in Verilog, where they are two always blocks.
- The instance of a module with parameters is written with its name twice over
  (`moduleWrite.cpp:174-176`).
- VCD values collected at the negative edge are those of the last positive edge if
  no register loads at the negative one: the function that would compute the wires
  is empty (`proxyBuildMng.cpp:474-478`).  A VCD of a long run has no times.
- In a long run the performance counters are taken after the positive edge, in a
  single cycle before it; a callback condition sees registers of the new cycle and
  wires of the old one.  An event at the front of a cycle reads wires of the last
  cycle, and a register it writes at the end of a cycle is overwritten
  (`proxyBuildMng.cpp:614`, `proxyEventBase.cpp:62-80`).
- `retrieveInit` leaves the counter registers of loops unbound
  (`moduleSim.cpp:170-174`); an index beyond the depth of a memory that is no power of
  two is not checked.
- The size of a `Queue` is a register of `log2Ceil(WORD_AMT)` bits (`queue.h:28`, `39`),
  too few for the full queue if `WORD_AMT` is a power of two.  In the simulation 2, 8 or
  64 words work, because `pushDataSim` and the comparisons use the C++ number of the
  register without a mask.  With 256 or 65536 words that number has no bit left either:
  the poke at `queue.h:155` wraps to 0, the assertion at `queue.h:149` does not fire
  on the next one, and the full queue looks empty.
- The cache writes the fields of a value in the opposite order of the one in which it
  reads them (`cacheAc/bank.h:140` and `119`): with two fields a load answers with the
  two exchanged.
- `slt` and `sgt` take the sign of the C++ container, not of the value's size
  (`simValType.h:154`); a native shift by its own size or more is undefined.

## 7. Not modelled

- Several zyncs on one channel.
- Of the front end: assignments with `=`, slices of registers, the payload of interfaces,
  reset and default events, and the order in which different blocks add their
  events to one register; the conditions of hold, reset and interrupt signals.
- Data paths inside flow blocks: an assignment is a state that exits; pipelines
  carry item numbers.
- The text itself (Verilog, C++), compiling and loading the simulation library,
  VCD output, logging.
- Of the generated model and of the Verilog: group and switch events, operators
  other than those of `Operation` (`Datapath` has them all), parameters of modules.
- Of operands: division and remainder, `>`, `>=` and `sgt` (made like the ones
  modelled), expressions as proxies, ports, boxes assigned field by field; assignments with `=`, clock modes
  of assignments; assignments to wires that were made before the value.
- Of the decoder library: the parsing of rules, decode errors and queries.
- Of Kride: the branch predictors (commented out), exceptions and the CSR opcodes
  (not decoded by the code either), the encodings of immediates; the recorders and
  printers of the bench, its clock and its check of registers against a file.
- Signed relations of values in the simulation.
- Construction errors (assertions of the builder): programs are well formed.
