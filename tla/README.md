# IOb-SoC-OpenCryptoLinux: specifications, checks and proofs

This directory models the repository's own logic in TLA+: the userspace
library that runs SHA-256, AES and McEliece on the Versat accelerator, the
kernel module that gives it memory, the SoC's memory interconnect and RAM, its
boot, the bare-metal drivers of the SHA and AES units with the units themselves,
and the software cryptography that runs beside them, up to the whole McEliece
KEM.  TLC checks small instances (`MC*.tla` with `*.cfg`),
TLAPS checks the proofs in `*Proofs.tla`.  `PROJECT.json`
maps every definition to the lines it models and lists runs, mutants, findings, hazards and theorems.

## 1. Inventory

| part | state | operations | meets the others through |
|---|---|---|---|
| Versat library sessions, `software/src/linux/versatCrypto.c` 285-546, 749-1099 | `versat`: buffers and who holds them, mode, bytes processed, rest of the message; the registers of the accelerator | `BeginSHA/AES_*`, `ProcessSHA/AES`, `EndSHA/AES` | called by `crypto.c`; runs the accelerator; buffers from the kernel module |
| McEliece on Versat, same file 1100-1528 | two matrix rows in the accelerator, the read/compute/write pipeline, the arena | `Loop1`, `Loop2`, `Versat_pk_gen`, `VersatMcEliece` | reuses the session buffers and the accelerator |
| Kernel module, `software/versat/module/versat.c` | `last_physical`, one page block per mapping, the device nodes | `open`, `mmap`, `ioctl`, `release`, `vm_close`, `init`, `exit` | every process that maps `/dev/versat` |
| Physical memory of the library, `versatCrypto.c` 30-188 | the device's descriptor, `PhysicalBuffer`s | `AllocatePhysicalBuffer`, `AllocateBuffer`, `ConvertVirtToPhys` | `mmap` and `ioctl` of the module |
| File client, `software/src/linux/crypto.c` | open files, the output arena | SHA, AES and McEliece commands | calls the library |
| Shared AXI bus, `hardware/src/axi_interconnect.v`, `iob_soc_opencryptolinux.v` | arbiter, address decode, one burst in flight, read and write skid buffers | AR/R and AW/W/B bursts | CPU caches, Versat and the peripherals' masters; boot memory and external memory |
| AXI RAM, `hardware/src/axi_ram.v` | read and write burst machines, memory, output pipeline | bursts | slave of the shared bus in simulation and as boot memory |
| Boot controller, `iob_soc_opencryptolinux_boot_ctr.v`, `iob2axil.v` | boot flag, CPU reset | register write, reset pulse | CPU and boot firmware |
| Boot firmware, `iob_soc_opencryptolinux_boot.c` | UART protocol position, flash | console handshake, file transfer, flash programming and reading | console on the host, SPI flash, boot controller |
| Firmware, `iob_soc_opencryptolinux_firmware.c`, `clint.h`, `plic.h` | CLINT and PLIC registers, timestamps | timer interrupt, self tests | CPU traps |
| Bare-metal SHA and AES, `software/src/versat_crypto.c` | `initVersat`, the configuration of the next run, the round's buffers | `VersatSHA`, `ExpandKey`, `Encrypt`, `Decrypt`, the rounds of `VersatAES` | writes the units' registers beside a run, starts and awaits runs |
| SHA and AES units, `hardware/src/units/`, `software/versat/versatSpec.txt` | message words, round registers, two halves of the reader; key words, `lastResult`, `lastValToAdd`, lookup tables | one block, or one AES round, per run | inside the accelerator |
| tiny-AES, `crypto/aes.c` | round keys, vector or counter | ECB, CBC, CTR over streams | the board's programs, as reference |
| McEliece's primitives, `crypto/McEliece/common/` | contexts of SHA-256, sponges, bitsliced AES; the generator's key and counter; the expander's buffer | init, absorb, squeeze, clone, finalize; `randombytes`, `seedexpander` | called by the KEM |
| McEliece KEM, `crypto/McEliece/` | seed, key pair, matrix, error vector | `crypto_kem_keypair`, `_enc`, `_dec` | the reference of the accelerated key generation |
| Bare-metal McEliece and tests, `versat_mceliece.c`, `versat_*tests.c` | arena, test vectors | the Linux library's loops, timed comparisons | the same accelerator without Linux |
| User DMA demo, `rootfs-overlay/root/dma_demo/` | device registers through sysfs | DMA and stream transfer | kernel drivers that are not in this repository |

Not part of the program's own logic: `riscv-csr.h` and `versat_accel.h` (written
by generators: one accessor or address per line), FPGA wrappers, build scripts,
images and test vectors.  `crypto/` comes from other projects, but is compiled
into the programs and modelled.

### What is hard here

* **State that outlives a call.** The library hides the rest of a message in
  front of the client's buffer, keeps a half-processed block inside the SHA
  unit, shares one byte of a union between SHA and AES, and leaves values in
  the registers of the AES unit from one session to the next.
* **Pipelines the CPU drives.** A SHA run hashes the block the run before it
  read; a McEliece run reads one row while another is computed and a third
  written; an AES run uses the configuration copied at its start while the next one
  is being written.
* **Streams cut into calls.** Sponges, counters and generators stop in the middle
  of a block and go on in the next call.
* **Limited resources.** Two buffers, handed out by index, not always given back.
* **Concurrency.** The kernel module has one global for all processes.  The
  bus, the RAM and their pipelines run in parallel and stall each other.
* **Protocols.** Begin/Process/End, AXI handshakes, the boot handshake.
* **Edges.** The SHA padding boundary, whole blocks at the end of a message,
  `int` lengths, zero-length files, page sizes.

The list of hazards, each at its line with the properties that watch it, is in
`PROJECT.json`.

## 2. Modules

| module | what it is | source |
|---|---|---|
| `VersatSession` | the library's sessions, the two buffers and the accelerator's registers | `versatCrypto.c` 198-546, 816-1099; `crypto.c` 176-195, 463-474 (the client) |
| `VersatSessionProofs` | theorems: types, room in the buffer, buffers accounted for, digest, blocks of the modes, what the Ends return | |
| `VersatModule` | the kernel module, one action per step between two accesses of shared state | `versat.c` |
| `PageGrants` | abstract: a page is free, owned by one process, or gone | what `/dev/versat` promises |
| `VersatMemory` | library and kernel module composed: several processes allocate, are killed, start again | `versatCrypto.c` 30-188, 235-262 |
| `VersatMemoryProofs` | theorems: types, one holder per page, `PageGrants` implemented, addresses right | |
| `Systematic` | abstract: the elimination of the reference McEliece, as recursive functions | `crypto/McEliece/pk_gen.c` 131-168 |
| `VersatMcEliece` | the same elimination on the accelerator, three rows in flight, behind a CPU cache | `versatCrypto.c` 1103-1527 |
| `McElieceProofs` | theorems about `VersatMcEliece` and `McElieceKem`: the elimination ends in systematic form; no stale row, no race on a row, rows and key of the reference; the seed gives the key | |
| `AxiInterconnect` | arbiter, state machine and both data paths, clock edge by clock edge | `axi_interconnect.v`, as `iob_soc_opencryptolinux.v` instantiates it |
| `AxiInterconnectProofs` | theorems: one burst at a time, beats whole and in order, answers, types | |
| `AxiRam` | read and write machine, memory and output pipeline, clock edge by clock edge | `axi_ram.v` |
| `AxiRamProofs` | theorems: order of reads and their data, landing of writes, answers, what is offered stays | |
| `Boot` | boot firmware, flash layout and boot controller, across power cuts | `iob_soc_opencryptolinux_boot.c`, `.S`, `iob_soc_opencryptolinux_boot_ctr.v` |
| `BootProofs` | theorems: the right firmware starts, the list is read as written, the program finds its files | |
| `Gf` | the field of McEliece and its extension | `gf.c`, `root.c` |
| `ControlBits` | sorting network, control bits of a permutation, the bit-sliced Benes network | `uint64_sort.h`, `int32_sort.h`, `controlbits.c`, `benes.c`, `transpose.c` |
| `Goppa` | keys, syndrome, Berlekamp-Massey, decryption | `sk_gen.c`, `pk_gen.c`, `encrypt.c`, `synd.c`, `bm.c`, `decrypt.c` |
| `McElieceKem` | the KEM: key generation with its failed rounds, encapsulation, decapsulation | `operations.c`, `gen_e` of `encrypt.c` |
| `Words`, `Fips197` | words as sets of bits; the standard's block cipher, which the three AES are compared with | |
| `Sha2` | SHA-256 with its context, fed in pieces and cloned | `common/sha2.c` |
| `VersatSha` | SHA-256 on the accelerator, clock by clock | `versat_crypto.c` 551-744, `xunitF.v`, `xunitM.v` |
| `Keccak` | the permutation, written out two rounds at a time | `common/fips202.c` |
| `Sponge` | SHA-3, SHAKE and cSHAKE around a symbolic permutation | `common/fips202.c`, `common/sp800-185.c` |
| `Aes` | tiny-AES and its modes | `crypto/aes.c` |
| `BitslicedAes` | four blocks at once, by gates | `common/aes.c` |
| `VersatAes` | AES on the accelerator, run by run | `versat_crypto.c` 198-627, `SBox.v`, `RSBox.v`, `versatSpec.txt` |
| `Drbg` | the generator and the seed expander | `common/nistkatrng.c`, `common/nistseedexpander.c` |
| `Software` | one of the eight programs above, from `Sha2` on, per execution | |
| `ShaProofs` | lemmas: SHA-256 in software and on the accelerator is the standard's; what proofs about recursive functions, division and sequences share | |
| `SoftwareProofs` | theorems: the digests and the sponges' output are the standards', the generators of random bytes repeat nothing | |
| `MC*` | constants for TLC | |

How they hang together: `VersatMemory` EXTENDS `VersatModule` and makes every
handler of it a step of a process; `VersatModule` is shown to implement
`PageGrants` (`GrantsSpec`).  `VersatMcEliece` EXTENDS `Systematic` and is
compared with it row by row.  `VersatSession` takes the buffers `VersatMemory`
provides as given.  `AxiInterconnect` and `AxiRam` are checked each against a
free partner; `OneBurst` of the first is the condition `~overlaps` under which
the second's `ReadData` holds for a single-port memory, and its `rready` to the
slave is the stall that `ReadData` excludes.  `Boot` stands alone: what it
loads is the program the other modules are about.  `McElieceKem` eliminates its
matrix with the operators of `Systematic`, as `VersatMcEliece` is compared with them, so
that the key generation on the accelerator and the reference's have one
definition, and one theorem about both (`AcceleratorMakesTheKey`).  `Software` holds programs that
share no state; it exists so that one configuration checks them all.

### VersatSession

A call of the client is one action; the loops over blocks take one action for
each run of the accelerator, with `pc` for the place in the library and `off`,
`end` for the loop.  `bufferState`, `interface`, `inside`, `lastType`,
`counter`, `lastByte` and `bytesProcessed` are the fields of `versat`.  `union0`
is the byte that `AES.type` and `SHA.initialStateValuesLoaded` share.  `ram` is
what the two physical buffers hold.  `stage`, `known` and `absorbed` are the SHA
unit: a run absorbs the block loaded by the run before and loads the next one,
so the first run of a session absorbs a stale block, and the digest is right
only because the initial values are written exactly after it (426-431).
`lastResult` and `lastValToAdd` are the registers of the AES unit.

Bytes carry where they come from (session and position, or which padding they
are), the cipher and the compression are free constructors, so that two values
are equal only if they were made from the same bytes in the same way.
`corrupt` says that index -1 was used: from there on nothing more is claimed.
The client is that of `crypto.c`: it loads at most what the buffer says it has room
for, calls Process until its file ends, and copies the output at the offset it
was given.

`AllocateBuffer` halves what it asks for until it gets memory and declares the size that
was asked for (174, 184), so `PageSize`, what is mapped, may be less than `MaxBlock`, what
is declared.  The library's loops stay in what is mapped; a client that trusts the
declared size may not, and then it is `lost` (`Overrun`) and nothing more is claimed.
A Begin inside a session is refused, but AES's has already changed the union by then
(`RefusedBegin`).  `versatCrypto.h` 19 forbids such a call.  `disturbed` marks the sessions in
which it changed the value; what is said of digests and blocks is said of the others,
those with refused Begins that left the value as it was included.  A decryption may end with
any byte, valid padding or not.

### VersatModule and VersatMemory

`module_mmap` is three actions, because other processes may run between them:
the allocation (79-97), the publication of `last_physical` (100-109), and the
remap with its failure (111-124).  `vm_private_data` holds address and order in
one number and `BlockOf` takes them apart again, as `module_vma_close` does.
`versat_init` may fail at each registration and unwinds through its labels.
A process may exit or be killed between any two system calls; the kernel then
closes its mappings one by one, between steps of others.

### VersatMcEliece

The CPU's loop is one action per row (`pc`, `row`, `k`); a run of the
accelerator reads its row and writes its row in two actions of its own, at any
time before the CPU waits for its end.  `acc` is the accelerator's row
memories, `cfg` the configuration the CPU writes while a run goes on,
`saved1` and `saved2` the static `savedMask` of the two loops.  A row is a set
of columns, so that XOR is the symmetric difference; a mask is a Boolean.

The key is copied row by row (`CopyRow`) without a wait for the end of the last run
(1448-1450), so the run's write may come before, while or after its row is copied.  A row
copied while it may be being written is in `early`, and what the copy has then is any mix
of the two versions of the row (`Mixes`).  `early` is at most the last row but one.

### AxiInterconnect and AxiRam

`Next` is one clock edge: the conjunction of one step of each register group,
with combinational wires as operators of the current state.  Masters and
slaves are nondeterministic, within AXI's rule that what is valid stays until it
is taken.  A beat of the interconnect is a token that says what it should be;
words of the RAM are real bytes in lanes, with strobes, narrow beats, FIXED and
INCR bursts and addresses that wrap at the end of the memory.  Not among the requests
are WRAP bursts, which `axi_ram.v` treats as INCR, and beats wider than a word, which it
clips (237, 340) and AXI forbids.  The interconnect passes a slave's answer on as it is (651);
the slaves of the model, as the RAM, answer OKAY.

### Boot

`main` is one action per call that changes memory or flash; the list of files is
parsed character by character (`Parsed` is what the loop of `compute_mem_load_txt` has
after each).  A flash
cell is erased, spoiled (programmed twice), or holds one byte of a stored size or
of a file; every byte of a file carries name and version, so that an old
file is never taken for a new one.  A power cut may come between any two
actions and in the middle of programming; it clears memory and keeps the flash.
After the store to the boot register the controller's two stages of `boot` and
its pulse are stepped clock by clock (`Tick`), with a pulse of 3 cycles for the
100 of the code.  A programming that was cut leaves the new sizes over unfinished
files, and `FLASH_TO_EXTMEM` starts what it finds; nothing in the repository says
otherwise, so `FilesLoaded` speaks of programmings that ended.

### McElieceKem

`crypto_kem_keypair` is one action per stage of a round of its loop (expansion,
polynomial, permutation, matrix, elimination row by row), each with its failure that
sends the loop back; encapsulation draws until the numbers are usable; a
ciphertext arrives as sent or is any other.  Field elements, rows, vectors and
control bits are sets of positions, so that addition is the symmetric difference.  The
arithmetic is the code's: the inversion's chain of squarings, the reduction
by the two polynomials, the Gaussian elimination of `genpoly_gen`, the merge of odd and
even halves of the sort, the passes of the control bits, Berlekamp-Massey with its
exchange of polynomials.  What the code computes with masks to take no branch on a
secret is a conditional here.

### Sha2, VersatSha, Keccak and Sponge

Words are sets of bit numbers and the arithmetic is the real one, on 32 and 64 bits: a
digest is compared with the standard's bit by bit.  `VersatSha` steps the units
clock by clock (`ClockUnits`): delays, the shift register of `xunitM`, the outputs
of `xunitF` that wait one clock.  `fetched` and `reading` are the halves of the read
unit.  Only in `Sponge` the permutation is symbolic: a state is known by what
was exclusive-ored into it before each permutation, and `Keccak` checks the real one.

### Aes, BitslicedAes and VersatAes

The three are compared with `Fips197`.  `Aes` keeps the stream that was given since
the vector was set; calls may end in the middle of a block, which is where the
counter mode gives up the rest.  `BitslicedAes` evaluates the gates of the code on
words of 64 bits.  `VersatAes` has `config` for what the CPU writes and `running` for
what `StartAccelerator` copied; the end of a run (`RunEnds`) is an action of its own
that may come before or after the CPU has configured the next one.  What the
accelerator does in a run is the graph of `versatSpec.txt`; that a register without
an input is cleared by it (`lastValToAdd`) is an assumption, without which the vectors
that `VersatAES` itself expects in counter mode could not come out.

### Drbg

The cipher is a function named by what it is asked, so that "encrypted twice" is an
equality.  Bytes of a counter have few values, so that carries run through it.

## 3. Runs

| run | instance | shows |
|---|---|---|
| `session` | 2 sessions of 5 and of 2 bytes, SHA block 2 (length 1), AES block 2, buffers declared 5 bytes and mapped 4, int limit 8, bytes up to 3 | types, room in the buffer, digest, AES padding, what one session leaves to the next, every call returns |
| `session_no_buffer` | 3 sessions of 2 bytes | finding: `BeginReturnsBuffer` |
| `session_counter` | 1 session of 4 bytes | finding: `CounterIncremented` |
| `session_stale` | 2 sessions of 4 bytes | finding: `ResultsExpected` |
| `memory` | 2 processes, 3 pages, buffers of one and of two pages | one holder per page, the module implements `PageGrants`, undisturbed buffers have the right address, allocation ends |
| `memory_concurrent` | 2 processes, 4 pages | finding: `ConcurrentAccess` |
| `mceliece` | 4 rows of 5 columns, every matrix made of 6 different rows, 2 tries | each row and the key as by the reference, no stale read, no race but that of the copy with the last run |
| `bus` | 2 masters, 2 slaves and unmapped addresses, bursts of 1 to 3 beats | whole, ordered, rightly addressed bursts, one at a time, none waits for ever |
| `ram` | 2 words of 2 lanes, 3 builds, masters that stall or overlap | order, data, landing and answers of bursts, offers that stay |
| `boot` | 3 boots, lists of 1 or 2 files of 0 to 5 bytes, subsectors of 4, `int`s of 2 bytes | list parsed as written, files found again in the flash, CPU restarted where it should |
| `kem` | a field of 16 elements, code length 12, 2 errors, 40 seeds, every ciphertext of 8 bits | both parties have one key, forgeries get another, the network restores the support, the seed regenerates the key |
| `software` | one program per execution, see below | each primitive against its standard, over calls of every small size |

Why the bounds are enough.

* *Sessions.*  The sizes are the smallest at which both paddings of `EndSHA`, a
  hidden rest, and several AES blocks in one buffer occur; 5 bytes are one more than a
  buffer has mapped, so that a client may leave the mapping, or call Process in between and
  come to an end.  The int limit lies just above these sizes: what is claimed of
  lengths and digests ends there.  One session can disturb the next only through the
  variables above, each of which one session can set to every value it takes;
  the third Begin of `session_no_buffer` is there because there are two buffers.
* *Memory.*  Two processes, because all that one sees of the others is the global
  and the free pages.  Three pages give a block of two and a single one: memory
  runs out, an allocation is halved and retried, a remap fails with pages lost.
* *McEliece.*  Three rows are in flight, so with four rows a pivot row has
  rows before and after it, all skips occur (first, middle, last) and the
  pipeline is full once; the second try covers what a failed one leaves.
* *Bus.*  Two masters are the real number; two slaves of different sizes, since
  the state machine only ever deals with the selected one and the one before it.
  Bursts of three beats fill output and skid register and leave one beat
  with the sender.  The third real region behaves as the second one.
* *RAM.*  Bursts of three beats pass both the output and the pipeline register
  with one beat behind; two words suffice to wrap the address.
* *Boot.*  Three boots: one to program, one to program something else or to be
  cut in it, one to read.  The sizes fill no subsector, part of one, exactly
  one, and more than one; one of the lists is the beginning of another, one
  loads its files from the higher address down.

* *KEM.*  The field of 16 elements is the smallest with two levels of the network; the
  seeds begin with ones that fail at the polynomial, the permutation and the
  elimination.  The bounds reach every error vector of weight 2 and every
  ciphertext, so that decoding is checked for all inputs of this code.  The
  inversion of the real field is checked on all elements of one or two bits by an
  assumption that TLC evaluates (`FieldOfTheCode`).
* *Software.*  Block, word and round sizes of SHA-2, AES and the permutation are the
  real ones; lengths are those around the edges of a block (0, 3, 55, 56 and 64 bytes
  after up to two whole blocks; 5 and 32 bytes; batches of 1, 4 and 7 blocks), the
  counter wraps in all its bytes, and the unused blocks of a batch hold zeros or ones.
  Two messages follow each other on the SHA unit; two programs of rounds run on the AES
  unit, one through all modes and key sizes, one with the vectors that `AES_ECB256`
  is given.  The sponge's rates are 2 to 6 bytes of 2-byte lanes, its calls 0, 1, 3 and 5 bytes,
  so that calls end on, before and behind the end of a block.  Two states go
  through the permutation, one of them all zeros.  Counters of the generators have
  2 digits of 3 values, requests are 0 to 7 bytes of 2-byte blocks.
  TLC evaluates a recursive function on its stack and a definition when it is first
  used, so loops of many steps (the 64 rounds of SHA-256, the 115 gates of the AES
  substitution, the tables of the field) are cut into parts that are listed in a
  tuple, halve their number of steps, or pass their result on as an argument.

### Fairness

* `VersatSession`: `WF_vars(Library)`, one thread runs the library to the end
  of a call.  The client may stop at any time.
* `VersatMemory`: `WF_vars(Allocation(p))` for each process: a process inside
  `InitVersat` is scheduled, and the kernel on its behalf.  Nobody has to
  start, exit or unload.
* `AxiInterconnect`: the clock runs (`clk` toggles for ever) and no partner stalls for
  ever; nothing is assumed of the arbiter or the state machine, which are
  deterministic.

## 4. What is proved

Each of these holds for every value of the constants that the module's assumptions
allow; the run of the same component checks the property on a small instance.  An
assumption is what the code asserts or its types give, and TLC evaluates each.

| theorem | property | of |
|---|---|---|
| `TypeCorrect`, `RoomLeft`, `BuffersAccounted` | `TypeOK`, `BufferRoom`, `BufferAccounting` | `VersatSessionProofs` |
| `DigestIsPadded`, `EncryptionReturnsAll`, `DecryptionReturnsAll`, `ModesRespected` | `DigestCorrect`, `EncryptionComplete`, `DecryptionComplete`, `BlocksFollowMode` | `VersatSessionProofs` |
| `TypeCorrect`, `PagesAlwaysAccounted`, `AddressesAlwaysRight`, `PageGrantsImplemented` | `TypeOK`, `PagesAccounted`, `AddressesRight`, `GrantsSpec` | `VersatMemoryProofs` |
| `SystematicForm` | of the reference elimination alone | `McElieceProofs` |
| `KeyGenerationTypes`, `NoStaleRead`, `NoRowRace`, `EliminationFollows`, `KeyAsReference`, `KeySystematic` | `TypeOK`, `FreshReads`, `NoRace`, `RowsReduced`, `KeyCorrect`, the form of the key | `McElieceProofs` |
| `SeedKept`, `AcceleratorMakesTheKey` | `SeedRegenerates`; one key from both programs | `McElieceProofs` |
| `OneBurstAtATime`, `ReadsComeWhole`, `WritesComeWhole`, `WritesAnswered`, `TypeCorrect` | `OneBurst`, `ReadsInOrder`, `WritesInOrder`, `WriteAnswered`, `TypeOK` | `AxiInterconnectProofs` |
| `ReadsComeInOrder`, `AnsweredOnce`, `BurstsLand`, `DataAsFetched`, `OffersStay` | `ReadOrder`, `WriteAnswers`, `WritesLand`, `ReadData`, `OutputsHeld` | `AxiRamProofs` |
| `RightFirmware`, `ListAsWritten`, `ProgramFindsFiles` | `StartsRight`, `ListRead`, `FilesLoaded` | `BootProofs` |
| `DigestsAreStandard`, `SpongesAreStandard`, `RandomIsFresh` | `DigestsUnaffected`, `StreamsAgree`, `RandomOnce` | `SoftwareProofs` |

### Sessions

For every number and size of buffers, every block size and every bound on sessions
and bytes, from `SizesAssumption` alone.

`TypeOK` says, among the types, that no access of the library leaves what is mapped.  It is
not inductive: nothing in it keeps the loops inside the buffer.  The
invariant is `IInv == TypeOK /\ Control`, where `Control` says that a session that
is not corrupt holds a reserved buffer (`SessionHasBuffer`), that the library
only runs within such a session (`CallInSession`), and, for each `pc`, how hidden
bytes, visible size, `off` and `end` relate to the sizes of buffer and blocks
(`LoopInBuffer`).  `SizesAssumption` has one line that the argument turns on:
`2 * ShaBlock <= PageSize`, since `EndSHA` may write two blocks of padding into a
buffer that may be declared as small as one block.  Nothing is assumed of `PageSize`
against `MaxBlock`, since a halved mapping is declared in full; `BufferRoom` says that a
client leaves the mapping only then.  `BuffersAccounted` adds that
invariant to itself and reasons on cardinalities of the set of reserved buffers.

The outcomes stand on that invariant and on `OutcomeInv`, which follows the message.
What lies at the front of the session's buffer are the bytes of the message that come
next (`MessageHeld`), however it was cut into calls.  The SHA unit is one block behind
the loop: it has absorbed the blocks of the padded message but the last one the loop has
passed, which is in its stage (`Absorbed`), and while `EndSHA` hashes, the buffer ends
like the padded message (`PaddingHeld`).  For AES there is one result for each block
behind the loop, the blocks of the last End among them (`ResultsCounted`), the registers that chain one block to the next hold
the vector or what came of the block before (`Chained`), and what earlier sessions may
have left in them depends on the modes seen so far (`RegistersKept`), which is where
the fourth finding comes from.  `ModesRespected` claims of each block what is added before and
after the cipher, and what goes into it; of counter mode the latter for the first block
only, since the code encrypts the same counter every time (the third finding).
Block sizes are any numbers, not only
powers of two.

### Kernel module and library

For every number of processes and pages and every list of buffer sizes, from
`PagesAssumption` and `MemoryAssumption`.  Sizes are powers of two up to `2^30`: the code
shifts an `int`, so that there are no others.

`ModuleInv` says that a call in progress and every mapping speak the truth about their
block (`CallsRight`, `MapsRight`: the private data packs the block's address and the
order that `numberToNextOrder` returns), that the blocks of a process are apart (`Apart`)
and that the allocated pages are divided among the processes and the lost ones
(`OneOwner`).  The lemma behind `MapsRight` is that address and order, packed into one
word, can be taken apart again.  `LibraryInv` says where each process is and that its
mappings are those of its buffers and, between `mmap` and `ioctl`, one more, of which
the global speaks unless another process's `mmap` came in between (`Known`).  `PageStep`
is what any step does to the pages; from it follow both the invariant and that every step
is a step of `PageGrants` or a stutter (`PageGrantsImplemented`).  `AddressesAlwaysRight`
is about processes that were not overtaken, the others being the fifth finding.

### McEliece

For every number of rows and columns, every matrix and every bound on attempts, from
`McElieceAssumption`.  The run checks matrices of four rows; the proof says the same of
the 768 that the parameters have.

`IInv` adds to the types where each loop is (`LoopRange`), which rows the run in
progress reads and writes (`RunRange`: none is written in the first loop; in the second,
the one written is two or more above the last one the CPU gave), and which copies in the
cache are current (`CacheRange`: all of them until the pivot row is left, then
those from `k - 1` on).  The last is the reason why one clearing of the cache per
pivot row is enough.

`KInv`, on top of it, says what the rows hold.  Between two pivot rows the memory, with
the run still in progress, is the reference's matrix (`BetweenRows`).  In the first loop
the accelerator is one row behind the CPU, which keeps the byte of the pivot row that
the next mask depends on (`Summing`).  In the second, of the last three rows the CPU gave
one is being read, one is computed and one is being written; those above are as the
reference leaves them and those below as it found them (`Clearing`).  The first
run of the second loop must not disturb the pivot row (`PivotKept`).  The reference is two
recursive functions, whose equations hold because there are functions of their form
(`SomeSums`, `SomeSteps`), by induction on the number of rows.  By the same induction the matrix they end with has the
identity matrix in front (`SystematicForm`), so that the key is of one that does (`KeySystematic`).

The copy of the key runs beside the last run, so these theorems make one exception, the
code's own: a row in `early`, which can only be the last but one, has columns of the row before and
after the last elimination step.  `KeyAsReference` says so of each row and
`NoRowRace` that no other access of the CPU meets a write.  `KeySystematic` and
`AcceleratorMakesTheKey` are about every row that was not copied early.

The KEM is in the same module, which extends both specifications; their names differ
but for the rows and columns, which they share.  The proofs use no assumption about
the field, the code or the expansion of a seed.  `KemInv`
says of each variable what it was made from as soon as this round has made it: the
secret polynomial (`PolynomialOfSeed`), the permutation (`PermutationOfSeed`), and
the matrix, which is the reference's after `eliminated` rows, the last of which has its pivot
(`RowsOfSeed`).  `SeedRegenerates` alone is not inductive: between the expansion of
a seed and the last pivot the secret key is a mixture of this round and of failed
ones, and which field is of which round is what `KemInv` says.  It joins the two programs
(`AcceleratorMakesTheKey`): the elimination of the KEM is the one that the accelerator
is proved to carry out, so that both make one key of one seed.

### Interconnect

For every number of masters and slaves, every set of requests and every address map
without overlaps.  `InterconnectAssumption` contains that powers of two are positive
numbers, which takes an induction over an operator of the library.  `RegionsApart` is
what the code checks before a simulation starts (`axi_interconnect.v` 240-271).
`DropsAreSingle` says that no longer burst is written to an address without a slave:
WRITE_DROP takes one beat, so that nothing holds for the others, and the slaves of this
SoC cover all addresses (`iob_soc_opencryptolinux.v` 125).

`IInv` says what is in the way of whom: a slave is busy only while the state is the one
that serves it (`BusyInState`), nothing is left in the data path outside of that state
(`NothingOutside`), the address goes out once (`AddressOnce`), the beat marked last is
the last one in the two registers of the data path (`LastIsLast`), and a slave offers
only what it was asked (`OffersHeld`).  `OneBurst` follows.

`OrderInv` needs it, and follows every beat.  The two registers of a data path hold the
next beats of one burst, oldest first, and while its ready wire is up the skid
register is free (`Holds`).  So the beats a slave has given are those the master has and
those in between (`ReadFlow`, `SlaveFlow`), and the beats a master has sent are those that
have landed and those in between (`WriteFlow`; its queue is the burst being served and
the one it offers for the next grant).  A grant is kept from the request to the end of
the answer (`Granting`), and a wire to a master is up only in the states that raise it
(`Wires`).  `MatchIsTarget` proves that the comparison of address bits in DECODE
finds the one region the address lies in, bases being multiples of the size.

### RAM

For every width, every set of requests, every build and every master, from
`RamAssumption`, which contains powers of two as above.

`IInv` says that the machine's counter and the burst's beat add up to its length
and that its address is the one the burst means (`At`, in `ReadProgress` and
`WriteProgress`; modulo the address space, which for an increment beat by beat is
as good as for all at once), that the beats due are those in the two output registers,
oldest first (`BeatsDue`), and that the answers owed are the one in the register and the
one in RESP (`AnswersOwed`).  From the addresses follows that the memory is what the
bursts meant to write.  `StreamInv` adds, for masters that do not stall, that both output
registers hold the data of their own beats (`DataDue`), which needs that no read is beside
a write in a memory with one port (`Alone`).

### Boot

For every layout, every set of lists and of file sizes, any number of boots and any
moment of a power cut, from `LayoutAssumption`, `ListsReadable` and `FilesFit`.  The last two
say what the code takes for granted and checks nowhere: the names of a list have no blank in
them, its numbers have at most eight digits, all of them hexadecimal; and the files fit into
the flash and, apart from each other and at addresses of whole words, into the memory.
(The code has room for four files with names of 49 characters.)  Without `FilesFit`
the property need not hold: a file that is loaded last may lie on another.

`RightFirmware` has an invariant of its own: the register chooses the boot firmware until it
has ended (`Chosen`), and from the second clock of the reset pulse on, `boot` is what was
chosen (`TakenOver`).  It needs a pulse of two clocks or more, which is what the mutant
`NoDuration` shows from the other side.

`ListAsWritten` follows the parser through the text.  In a name it has collected the
characters so far (`NameRead`); in a number, the entry it appended last has the value of the
digits so far (`DigitsRead`, from the sums of `Sums`: multiplying by 16 before each digit
gives what the digits mean by their places); at the end of a line it stands as at the
beginning, with one file more (`LineRead`).  What the parser does with a text does not
depend on what follows (`ParsedPrefix`) nor, in this sense, on what came before
(`WalkPart`), so that the lines can be taken one after the other (`OneMoreRead`,
`LinesRead`), and the newline at the end is one more character (`NewlineRead`).

`ProgramFindsFiles` has `LoadInv`.  It says of the flash that the files of the last programming
that ended lie where the sum of the subsectors before them puts them, whole, with their sizes in
front (`StoredInv`); of a programming in progress, how far it has come
(`ProgrammedInv`); of a load in progress, that the files before `i` are in memory and
that `next_subsector` is where the next one begins (`ReadInv`), if the list names the files
that are there; and of memory, what the console has sent (`GotInv`).  Three facts carry it.
An erase reaches whole subsectors and no cell below its own, since the files before end at or
before the boundary that the next begins at (`SubsectorsApart`, `Erase`, `RecsInOrder`).
Programming writes into erased cells, so none is spoiled (`Program`).  And `read_flash` stores
whole words, up to three bytes more than the file has, which reach no other file because
those begin at whole words (`WordTail`, `OthersKept`).  A programming sets `stored` to
none with its first erase, so nothing is claimed of what a cut in it leaves.

### SHA-256 and its accelerator

For messages of any number of bytes, fed in any number of calls, cloned at any moment, or
hashed one after the other by the accelerator, from `ShaAssumption` and
`VersatShaAssumption` alone, which say that the sizes are numbers.  Nothing is abstract
here: the words are 32 bits, the constants and initial values those of the code, and
`SHA256` beside them is the standard's definition for the message as a whole.  The
proof never evaluates a word: it shows that both sides apply the same functions of
words and the same constants to the same words.  What those functions compute is written
once, from the code.

The block function overwrites sixteen words in place, from the words 2, 7, 15 and 16
before each; after `q` expansions the sixteen are the words `16 * q + 1` to `16 * q + 16`
of the standard's schedule (`ExpandMoves`), so that four times sixteen rounds are the
standard's 64 (`CompressIs`).  `finalize` sees the rest of the message and the number of all
bytes, and hashes one block or two behind those already hashed; these are the blocks that
the padding of the whole message ends with (`FilledIs`, `FinalizedIs`).  The length is
written byte by byte with divisions, which both sides agree on for all lengths up to 64
bits and, both dropping what is above, beyond.  So the invariant of a context is that it
holds the hash of the blocks fed to it (`Holds`), and cloning copies it.

On the accelerator, rounds and schedule are spread over seven units that start one after
the other.  In clock `j + 1` of its own an `xunitF` has done `j` rounds of
its quarter (`FAt`), and an `xunitM` holds the sixteen schedule words before the one it makes
(`MAt`); the latency of each, counted down from its start, is the number of clocks that the
one before it takes to its first output (`Pipe`, kept by `ClockStep`).  At the end of a run
`State` has compressed the block that `VRead` sent out, which is the block of the run before.
Between two runs of `VersatSHA`, `j` blocks of the padded message have been read and
`j - 1` hashed (`Called`, by the place in the code: `Asks`, `During`, `Fetched`,
`Flushing`, `Flushed`); the first run hashes whatever the last message left, and
what it computes is replaced by the initial values before the second begins (`RunIsOver`).
That is why `UnitInv` claims nothing of the unit's words between calls but their
number.

### Sponges

For every rate, domain byte, digest, size of a lane and list of functions, and calls that
take or give any number of bytes, from `SpongeAssumption` alone: the rates are positive, the
domain byte is not 0 and below 128, so that it neither vanishes from the state nor is
taken for the bit that ends the padding, and a digest fits into a block.  Of the names of cSHAKE one is not empty: with both empty
SP 800-185 defines it as SHAKE, a case that the code (`sp800-185.c` 22-40) does not have, and
neither has the model.  That the rate
is a multiple of the lane is not needed.

The standard pads the message as a whole and cuts it into blocks (`BlockMarks`, `Output`);
the code never sees the whole.  What relates them is stated of one context.  While it
absorbs (`Absorbing`), it has permuted once for each block that the bytes so far
fill (`Absorption`), and holds the marks of the bytes behind them (`Blocked` has
their number below the rate).  Another call fills blocks up and keeps the rest: `FilledUp`
is a function over the rounds of the loop, and what it is after `k` of them is `Fed`, an
absorbing context of the message with the bytes that `k` rounds take.  cSHAKE's prefix is
five such calls and, unless they end with a block, the trick of `sp800-185.c` of moving
the position to the last byte and absorbing one zero (`PrefixAbsorbed`).  `finalize` puts the
domain byte behind the message and the last bit at the end of the block, which may be one and
the same byte: this is the standard's last block (`Stage`).

From there on nothing is absorbed.  A squeezing context (`Squeezing`) is so many permutations
further and has so many bytes of the last block left that what was given out and what is
left are whole blocks; `squeeze` gives out what is left and then round by round a
block or the part of it that is asked for (`Handed`), which are the next bytes of `Output`.
`Faithful` says this of a client's context in each phase, that what the client got is the
beginning of the output, and of the functions in one call that they did the same
at once; cloning and releasing copy a context.  `SpongeStarts`, `SpongeSteps` and
`SpongeFound` are its three facts.

### Random bytes

For counters of any number of bytes of any number of values, blocks of any size, requests
of any length, any lengths of expanders and any number of updates, from `DrbgAssumption`
alone.  That has the one fact which the claim needs: a request, with the update after it,
takes fewer blocks than there are counters.

A counter is a number written in digits (`Digits`), and `Increment`, which the code does byte
by byte with a carry, is adding one to that number, wrapping at the end (`IncrementAdds`).
So counters at two distances below their number are different (`CountersDiffer`).
`GeneratorInv` says that all queries so far were made under keys before the current one
(`UpToKey`); a key is never used after its update, so a request and its update
ask for a row of consecutive counters, starting wherever the last update left them.
Bytes given out name their query and the place in its block, and no query of an update is
one of the request before it, since both are in that row.

The expander's state is a function of the number of bytes it has given out (`XofAt`): the
counter is the number of blocks begun, the buffer the last of those, the position the
remainder, except that after a whole block the buffer is at its end rather than at
the beginning of the next.  `Round` takes the loop from there to a state of the same
kind, with fewer bytes wanted (`LoopInv`, `LoopStates`, `Wants`), so that after as many rounds as bytes and
one none is (what makes `Expand` the loop and not a part of it).

### Only model-checked

* Liveness under fairness (`CallReturns`, `AllocationEnds`, `RequestsTaken`,
  `RequestsAnswered`), which the proof system does not reach.
* Of `kem` all but `SeedRegenerates`, and of `software` `PrimitivesAgree` and `UnitAgrees`:
  what ciphers, the permutation, decoding and sorting compute (`Gf`, `ControlBits`,
  `Goppa`, `Keccak`, `Aes`, ...) is a matter of bits and tables, which TLC evaluates
  and the proof system cannot.  In the proofs about the KEM these operators stand for
  themselves: the theorems hold whatever they compute.

## 5. Findings

Each with what it contradicts quoted in `PROJECT.json`, and with a run: of 1 and 3 to 5 its
counterexample shows the finding, of 2 and 6 a property that passes states what the code
does instead.

1. `EndSHA` and the decrypting `EndAES` never free their buffer: the third
   session gets index -1 (`session_no_buffer`).
2. A decrypting `EndAES` that finds whole blocks does not add them to
   `*outputOffset`.  `DecryptionComplete` says exactly which blocks the client is given,
   and the run `session` and `DecryptionReturnsAll` show it.
3. Every CTR block of the library is encrypted with the same counter (1018, 1084, marked as
   a TODO there); the bare-metal rounds increment it (`session_counter`).
4. An ECB or CTR session after a CBC encryption in the same direction uses what is left in
   the accelerator's registers (`session_stale`).
5. Two processes between `mmap` and `ioctl` get each other's physical address
   (`memory_concurrent`).
6. The public key is copied without a wait for the accelerator's last run, which may still
   write the last row but one (1448).  `KeyCorrect` and `NoRace` have this row as their
   only exception, and fail without it; the run is `mceliece`.

Seen while modelling, without a run of their own:

* a failed mapping halves what is mapped, not what the buffer says it holds (`versatCrypto.c`
  174, 184): a client that fills the buffer then leaves the mapping (`Overrun`);
* a refused BeginAES changes `AES.type` and with it `initialStateValuesLoaded` of the
  session in progress (`RefusedBegin`, `disturbed`);
* `VersatMcEliece` takes a free session buffer without reserving it, and would use index
  -1 when both are taken (1279);
* a read beat of `axi_ram` that waits for `rready` can change its data (`ReadData` speaks
  of masters that do not stall; the interconnect lowers its `rready` only when a CPU
  bus does); a single-port `axi_ram` offers old data when a write shares the edge,
  which `OneBurst` excludes in this SoC;
* the interconnect's WRITE_DROP answers after the first beat (664), which an
  address map without holes never reaches (`DropsAreSingle` in `AxiInterconnect`);
* `module_vma_close` has no `open` beside it (`versat.c` 65): a mapping that a fork
  copies is closed twice;
* `read_flash` computes `% (read_total / 10)` for files of fewer than 40 bytes
  (`iob_soc_opencryptolinux_boot.c` 178); `boot.flow` is received into 20 bytes before its
  size is compared with 20 (229); the boot register resets the CPU alone, whatever
  burst its caches have in flight (`iob_soc_opencryptolinux_boot_ctr.v` 30);
* `seedexpander` refuses a request for exactly what remains (`nistseedexpander.c` 65,
  `>=`), so that the last byte of the declared length is never given;
* `PushBytes` prints "Arena overflow" and returns the pointer (`arena.c` 23).

## 6. What is not modelled

The table of components in `PROJECT.json` has a line for each.  In short:

* *sessions*: the values of ciphers and hashes, for which free constructors stand there (the
  values are checked in `Software` for the bare-metal programs); what a digest or a
  block is after a refused Begin has changed the union, or after index -1 or a write
  behind the mapping;
* *`crypto.c`*: options, files and printing; its calls of the library are the client of
  `VersatSession`;
* *McEliece on the accelerator*: how the matrix is made from the secret key, which is
  `Goppa`'s, in the code's own words a copy of `pk_gen.c`;
* *`versat_mceliece.c`*: the loops of the Linux library line by line, but for the address
  conversion; not mapped a second time;
* *test programs* (`versat_*tests.c`, the firmware's self test): they parse vectors, run
  both implementations, compare and print;
* *`common/sha2.c`*: SHA-224, SHA-384 and SHA-512 are behind `#if 0`, as is the body of
  `randombytes.c`; *`sha2_old.c`* is built by no makefile;
* *buses*: WRAP bursts, beats wider than a word, and slaves that answer with an error;
* *interconnect*: security bits and connection masks, which this SoC leaves at their
  defaults; *`iob2axil.v`* and *`Mux4.v`*: wires and one multiplexer;
* *`versatSpec.txt`*: sample circuits that are no part of `CryptoAlgos`;
* *`riscv-csr.h`, `versat_accel.h`*: 5400 lines of generated accessors and addresses
  with no behaviour of their own;
* *CLINT, PLIC, UART, flash and the drivers* of the DMA demo: not in this repository.

## 7. Plan

In this order:

1. Composition of `AxiInterconnect` with `AxiRam` in place of its free slave:
   what a CPU bus reads is what was last written, if it does not stall; and
   with the boot controller's reset beside a burst in flight.
2. `crypto.c`'s loop over a file as an abstract stream transducer that the
   session implements.
3. `clint.h`: the 64-bit time read in two halves beside a running counter, the
   compare register written in three steps without a spurious interrupt.
4. Proofs: the rounds of the AES unit, by the graphs that `VersatAes` has for them.
