---------------------------- MODULE VersatMemory ----------------------------
(***************************************************************************)
(* How the userspace library gets memory the accelerator can reach         *)
(* (software/src/linux/versatCrypto.c 30-188, and InitVersat): it maps     *)
(* /dev/versat, asks ioctl(0) for the physical address, and keeps both in  *)
(* a PhysicalBuffer.  AllocateBuffer tries a power of two and halves it    *)
(* until a mapping succeeds.  Every process runs the library on its own;   *)
(* they meet in the kernel module, whose handlers are the actions of       *)
(* VersatModule.  A process may exit or be killed between any two of its   *)
(* system calls, and be started again.                                     *)
(***************************************************************************)
EXTENDS VersatModule, Sequences

CONSTANTS
  NBuffers,       (* MAX_VERSAT_BUFFERS                                     *)
  MaxBlockSizes   (* the values of maxBlockSize that programs are run with  *)

ASSUME MemoryAssumption ==
  NBuffers \in Nat \ {0} /\ MaxBlockSizes \subseteq 1 .. Shift(30)

VARIABLES
  pc,        (* per process: "off", "asking" inside AllocateBuffer, "mmap"  *)
             (* in the system call, "mapped" after it, "ready" or "exiting" *)
  attempSize,
  val,       (* AllocateBuffer's size of the next attempt                   *)
  buffers,   (* versat.buffers                                              *)
  overtaken  (* history: another process's mmap came between a mmap and its *)
             (* ioctl                                                       *)

libraryvars == <<pc, attempSize, val, buffers, overtaken>>
vars == <<modulevars, libraryvars>>

States == {"off", "asking", "mmap", "mapped", "ready", "exiting"}

(* The first power of two the loop's test lets through.                     *)
GetNextPowerOf2(start) ==
  CHOOSE n \in PowersOfTwo :
    n >= start /\ \A k \in PowersOfTwo : k >= start => n <= k

FirstVal(size) == IF size < PageSize THEN PageSize ELSE GetNextPowerOf2(size)

(* The physical address the accelerator is given for `offset` bytes into    *)
(* the buffer's mapping; NULL, 0, outside of it.                            *)
ConvertVirtToPhys(buffer, offset) ==
  IF offset > buffer.size THEN 0 ELSE buffer.physicalAddressBase + offset
-----------------------------------------------------------------------------
Init ==
  /\ InitModule
  /\ pc = [p \in Proc |-> "off"]
  /\ attempSize = [p \in Proc |-> 0]
  /\ val = [p \in Proc |-> 0]
  /\ buffers = [p \in Proc |-> <<>>]
  /\ overtaken = [p \in Proc |-> FALSE]

Goto(p, from, to) == pc[p] = from /\ pc' = [pc EXCEPT ![p] = to]

Load   == versat_init /\ UNCHANGED libraryvars
Unload == versat_exit /\ UNCHANGED libraryvars

(* InitVersat up to its first AllocateBuffer.  When the device is not       *)
(* there, OpenPhysicalAllocator exits the process.                          *)
InitVersat(p) ==
  /\ Goto(p, "off", "asking")
  /\ module_open(p)
  /\ \E size \in MaxBlockSizes :
       /\ attempSize' = [attempSize EXCEPT ![p] = size]
       /\ val' = [val EXCEPT ![p] = FirstVal(size)]
  /\ UNCHANGED <<buffers, overtaken>>

NextValSame(p) == val[p]

NextVal(p) == val[p] \div 2

(* mmap returned MAP_FAILED: half the size, or InitVersat gives up, and     *)
(* main exits.                                                              *)
TryLess(p, from) ==
  /\ Goto(p, from, IF NextVal(p) < PageSize THEN "exiting" ELSE "asking")
  /\ val' = [val EXCEPT ![p] = NextVal(p)]
  /\ UNCHANGED <<attempSize, buffers, overtaken>>

Mmap(p) ==
  /\ Goto(p, "asking", "mmap")
  /\ AllocPages(p, val[p] \div PageSize)
  /\ UNCHANGED <<attempSize, val, buffers, overtaken>>

MmapNoPages(p) == TryLess(p, "asking") /\ NoPages(p, val[p] \div PageSize)

(* The kernel inside a process's mmap.                                      *)
MmapPublish(p) ==
  /\ Publish(p)
  /\ overtaken' = [q \in Proc |->
       overtaken[q] \/ (q # p /\ (pc[q] = "mapped" \/ call[q].step = "published"))]
  /\ UNCHANGED <<pc, attempSize, val, buffers>>

MmapReturns(p) ==
  /\ Goto(p, "mmap", "mapped")
  /\ RemapSucceeds(p)
  /\ UNCHANGED <<attempSize, val, buffers, overtaken>>

MmapRemapFails(p) == TryLess(p, "mmap") /\ RemapFails(p)

(* The ioctl, and the rest of AllocatePhysicalBuffer and AllocateBuffer:    *)
(* the buffer's size is the one asked for, whatever was mapped.             *)
MapOf(p) == CHOOSE v \in vmas[p] : \A i \in DOMAIN buffers[p] : buffers[p][i].map # v

Ioctl(p) ==
  LET last == Len(buffers[p]) + 1 = NBuffers IN
  /\ Goto(p, "mapped", IF last THEN "ready" ELSE "asking")
  /\ val' = [val EXCEPT ![p] = IF last THEN 0 ELSE FirstVal(attempSize[p])]
  /\ \E address \in Addresses :
       /\ module_ioctl(p, address)
       /\ buffers' = [buffers EXCEPT ![p] = Append(@,
            [map |-> MapOf(p), physicalAddressBase |-> address, size |-> attempSize[p]])]
  /\ UNCHANGED <<attempSize, overtaken>>

(* The process ends, by itself or by a signal, outside of a system call;    *)
(* the kernel removes its mappings one by one, then closes the device.      *)
Exit(p) ==
  /\ pc[p] \in {"asking", "mapped", "ready"}
  /\ pc' = [pc EXCEPT ![p] = "exiting"]
  /\ val' = [val EXCEPT ![p] = 0]
  /\ UNCHANGED <<modulevars, attempSize, buffers, overtaken>>

Unmap(p) ==
  /\ pc[p] = "exiting"
  /\ \E vma \in vmas[p] : module_vma_close(p, vma)
  /\ UNCHANGED libraryvars

(* What the process had in memory is gone with it.                          *)
Gone(p) ==
  /\ Goto(p, "exiting", "off")
  /\ module_release(p)
  /\ attempSize' = [attempSize EXCEPT ![p] = 0]
  /\ val' = [val EXCEPT ![p] = 0]
  /\ buffers' = [buffers EXCEPT ![p] = <<>>]
  /\ overtaken' = [overtaken EXCEPT ![p] = FALSE]

Allocation(p) ==
  \/ Mmap(p) \/ MmapNoPages(p) \/ MmapPublish(p)
  \/ MmapReturns(p) \/ MmapRemapFails(p) \/ Ioctl(p)

Next ==
  \/ Load \/ Unload
  \/ \E p \in Proc : InitVersat(p) \/ Allocation(p) \/ Exit(p) \/ Unmap(p) \/ Gone(p)

(* A process that is inside InitVersat keeps running, and so does the       *)
(* kernel on its behalf; nobody has to start or stop one.                   *)
Fairness == \A p \in Proc : WF_vars(Allocation(p))

Spec == Init /\ [][Next]_vars /\ Fairness
-----------------------------------------------------------------------------
TypeOK ==
  /\ ModuleTypeOK
  /\ \A p \in Proc :
       /\ pc[p] \in States
       /\ attempSize[p] \in MaxBlockSizes \cup {0}
       /\ val[p] \in PowersOfTwo \cup {0}
       /\ overtaken[p] \in BOOLEAN
       /\ pc[p] = "mmap" <=> call[p] # Idle
       /\ pc[p] = "off" <=> p \notin opened
       /\ pc[p] # "exiting" =>
            /\ {buffers[p][i].map : i \in DOMAIN buffers[p]} \subseteq vmas[p]
            /\ Cardinality(vmas[p]) =
                 Len(buffers[p]) + (IF pc[p] = "mapped" THEN 1 ELSE 0)

(* Bytes of the buffer that lie inside its mapping.                         *)
Inside(b) == {o \in {0, 1, PageSize - 1, PageSize, b.size - 1} :
                o < b.size /\ o < b.map.pages * PageSize}

(* The physical address of the byte the process sees at an offset.          *)
PhysOf(b, o) == (b.map.pageStart + o \div PageSize) * PageSize + (o % PageSize)

(* When no other process's mmap came in between, the accelerator is given   *)
(* the physical address of the very byte the process wrote: the order of    *)
(* module_mmap (69), the ioctl (78) and ConvertVirtToPhys (87), with        *)
(* retries and failed mappings before it.                                   *)
AddressesRight ==
  \A p \in Proc : ~overtaken[p] /\ pc[p] # "exiting" =>
    \A i \in DOMAIN buffers[p] : \A o \in Inside(buffers[p][i]) :
      ConvertVirtToPhys(buffers[p][i], o) = PhysOf(buffers[p][i], o)

(* InitVersat does not hang: every AllocateBuffer it starts ends, with both *)
(* buffers or with the process giving up (170-177).                         *)
AllocationEnds ==
  \A p \in Proc : pc[p] = "asking" ~> pc[p] \in {"ready", "exiting"}

(* The comment on line 18 of versat.c: concurrent access is believed to be  *)
(* supported, so every buffer has the address of its own pages.             *)
ConcurrentAccess ==
  \A p \in Proc : pc[p] = "ready" =>
    \A i \in DOMAIN buffers[p] :
      ConvertVirtToPhys(buffers[p][i], 0) = PhysOf(buffers[p][i], 0)
=============================================================================
