---------------------------- MODULE VersatModule ----------------------------
(***************************************************************************)
(* The kernel module behind /dev/versat (software/versat/module/versat.c). *)
(* Each mmap of the device takes one block of physical pages from the      *)
(* kernel, remembers its physical address in the one global last_physical, *)
(* and packs address and order of the block into the mapping, for          *)
(* module_vma_close to give it back.  ioctl(0) reads the global.  System   *)
(* calls of several processes interleave between any two lines that touch  *)
(* something they share.                                                   *)
(*                                                                         *)
(* External, as this file uses it: alloc_pages returns a free, naturally   *)
(* aligned block or none; free_pages gives a block back; the kernel keeps  *)
(* the module loaded while a file of it is open (.owner), and a file open  *)
(* while it is mapped; a mapping's length is a whole number of pages, so   *)
(* the test on line 85 never fails.                                        *)
(***************************************************************************)
EXTENDS Integers, FiniteSets

CONSTANTS
  Proc,       (* processes that use the device                              *)
  PageCount,  (* physical pages there are to allocate                             *)
  PageSize,   (* 1 << PAGE_SHIFT                                            *)
  PageOffset  (* difference of a page's kernel and physical address         *)

(* 1 << k, and what it reaches in an int.                                   *)
Shift(k)    == 2 ^ k
Orders      == 0 .. 30
PowersOfTwo == {Shift(k) : k \in Orders}

ASSUME PagesAssumption ==
  /\ PageCount \in Nat \ {0} /\ PageSize \in PowersOfTwo /\ PageCount < PageSize
  /\ PageOffset \in Nat /\ PageOffset % PageSize = 0

VARIABLES
  registered,      (* what versat_init has registered with the kernel       *)
  last_physical,   (* the global                                            *)
  allocated,       (* pages that are not free                               *)
  lost,            (* pages of a mapping that failed: nobody frees them     *)
  opened,          (* processes that have the device open                   *)
  vmas,            (* per process, its mappings of the device               *)
  call             (* per process, how far its module_mmap is               *)

pagevars   == <<allocated, lost>>
modulevars == <<registered, last_physical, pagevars, opened, vmas, call>>

Resources == {"chrdev", "class", "device"}
Pages     == PageCount .. 2 * PageCount - 1
Addresses == 0 .. PageOffset + 2 * PageCount * PageSize

Block(first, order) == first .. first + Shift(order) - 1

page_address(page) == PageOffset + page * PageSize

virt_to_phys(virt) == virt - PageOffset

(* The first order the loop's test lets through.                            *)
numberToNextOrder(val) ==
  CHOOSE order \in Orders :
    /\ Shift(order) >= val
    /\ \A k \in 0 .. order - 1 : Shift(k) < val

PrivateWithoutOrder(virt, order) == virt

(* vm_private_data: the block's address with its order in the low bits, and *)
(* the two parts module_vma_close takes out of it.                          *)
PrivateData(virt, order) == virt + order

BlockOfNextOrder(data) ==
  Block((data - PageOffset) \div PageSize, (data % PageSize) + 1)

BlockOf(data) ==
  Block((data - PageOffset) \div PageSize, data % PageSize)

Idle == [step |-> "none", first |-> 0, pages |-> 0]
-----------------------------------------------------------------------------
InitModule ==
  /\ registered = {}
  /\ last_physical = 0
  /\ allocated = {} /\ lost = {}
  /\ opened = {}
  /\ vmas = [p \in Proc |-> {}]
  /\ call = [p \in Proc |-> Idle]

(* What the labels after a failed registration undo, each falling through   *)
(* to the next.                                                             *)
Unwound(failed) ==
  CASE failed = "device" -> {"class", "chrdev"}
    [] failed = "class"  -> {"chrdev"}
    [] OTHER             -> {}

(* Loading: the three registrations in order; the first that fails jumps to *)
(* its label.  The global starts as zero.                                   *)
versat_init ==
  /\ registered = {}
  /\ last_physical' = 0
  /\ \/ registered' = Resources
     \/ registered' = {} \ Unwound("chrdev")
     \/ registered' = {"chrdev"} \ Unwound("class")
     \/ registered' = {"chrdev", "class"} \ Unwound("device")
  /\ UNCHANGED <<pagevars, opened, vmas, call>>

versat_exit ==
  /\ registered = Resources
  /\ opened = {}
  /\ registered' = {}
  /\ UNCHANGED <<last_physical, pagevars, opened, vmas, call>>

module_open(p) ==
  /\ registered = Resources
  /\ p \notin opened
  /\ opened' = opened \cup {p}
  /\ UNCHANGED <<registered, last_physical, pagevars, vmas, call>>

(* The last reference to the file goes.                                     *)
module_release(p) ==
  /\ p \in opened
  /\ vmas[p] = {} /\ call[p] = Idle
  /\ opened' = opened \ {p}
  /\ UNCHANGED <<registered, last_physical, pagevars, vmas, call>>

FreeBlocks(order) ==
  {first \in Pages : /\ first % Shift(order) = 0
                     /\ Block(first, order) \subseteq Pages \ allocated}

(* module_mmap up to alloc_pages, for a mapping of `pages` pages.           *)
AllocPages(p, pages) ==
  /\ p \in opened
  /\ call[p] = Idle
  /\ \E first \in FreeBlocks(numberToNextOrder(pages)) :
       /\ allocated' = allocated \cup Block(first, numberToNextOrder(pages))
       /\ call' = [call EXCEPT ![p] =
                     [step |-> "allocated", first |-> first, pages |-> pages]]
  /\ UNCHANGED <<registered, last_physical, lost, opened, vmas>>

NoPages(p, pages) ==
  /\ p \in opened
  /\ call[p] = Idle
  /\ FreeBlocks(numberToNextOrder(pages)) = {}
  /\ UNCHANGED modulevars

PublishedOnce(page) ==
  IF last_physical = 0 THEN virt_to_phys(page_address(page)) ELSE last_physical

(* Line 103.                                                                *)
Published(page) == virt_to_phys(page_address(page))

Publish(p) ==
  /\ call[p].step = "allocated"
  /\ last_physical' = Published(call[p].first)
  /\ call' = [call EXCEPT ![p].step = "published"]
  /\ UNCHANGED <<registered, pagevars, opened, vmas>>

RemapSucceeds(p) ==
  LET c == call[p]  order == numberToNextOrder(c.pages) IN
  /\ c.step = "published"
  /\ vmas' = [vmas EXCEPT ![p] = @ \cup
                {[pageStart |-> c.first, pages |-> c.pages,
                  vm_private_data |-> PrivateData(page_address(c.first), order)]}]
  /\ call' = [call EXCEPT ![p] = Idle]
  /\ UNCHANGED <<registered, last_physical, pagevars, opened>>

(* -EIO, without the pages being freed.                                     *)
RemapFails(p) ==
  LET c == call[p] IN
  /\ c.step = "published"
  /\ lost' = lost \cup Block(c.first, numberToNextOrder(c.pages))
  /\ call' = [call EXCEPT ![p] = Idle]
  /\ UNCHANGED <<registered, last_physical, allocated, opened, vmas>>

(* The address ioctl(0) copies to the caller.                               *)
module_ioctl(p, address) ==
  /\ p \in opened
  /\ call[p] = Idle
  /\ address = last_physical
  /\ UNCHANGED modulevars

(* The kernel removes one mapping and calls its close operation.            *)
module_vma_close(p, vma) ==
  /\ vma \in vmas[p]
  /\ call[p] = Idle
  /\ vmas' = [vmas EXCEPT ![p] = @ \ {vma}]
  /\ allocated' = allocated \ BlockOf(vma.vm_private_data)
  /\ UNCHANGED <<registered, last_physical, lost, opened, call>>
-----------------------------------------------------------------------------
Vma == [pageStart : Pages, pages : 1 .. PageCount, vm_private_data : Nat]

(* Types; versat_init (150) registers everything or nothing, and nobody has *)
(* the device open when it is not there.                                    *)
ModuleTypeOK ==
  /\ registered \in {{}, Resources}
  /\ last_physical \in Addresses
  /\ allocated \subseteq Pages /\ lost \subseteq allocated
  /\ opened \subseteq Proc
  /\ \A p \in Proc :
       /\ vmas[p] \subseteq Vma
       /\ call[p].step \in {"none", "allocated", "published"}
       /\ p \notin opened => vmas[p] = {} /\ call[p] = Idle
  /\ opened # {} => registered = Resources

(* Who is responsible for a page: an mmap in progress, a mapping, or, after *)
(* a failed remap, nobody any more.                                         *)
Holders(page) ==
  {<<"call", p>> : p \in {q \in Proc :
       /\ call[q].step # "none"
       /\ page \in Block(call[q].first, numberToNextOrder(call[q].pages))}}
  \cup (UNION {{<<"vma", p, v>> : v \in {w \in vmas[p] :
       page \in Block(w.pageStart, numberToNextOrder(w.pages))}} : p \in Proc})
  \cup {<<"lost">> : k \in {page} \cap lost}

(* Every page that is not free has exactly one holder, and a free page has  *)
(* none: what module_vma_close (50) takes out of vm_private_data is the     *)
(* block module_mmap (69) allocated, so no close frees pages of another     *)
(* mapping, none are forgotten, and only a failed remap (116) loses any.    *)
(* The block covers the whole length that is mapped (93, 114), so that no   *)
(* process sees a page that is free or that another mapping shows.          *)
Shown(v) == v.pageStart .. v.pageStart + v.pages - 1
PagesAccounted ==
  /\ \A page \in Pages :
       Cardinality(Holders(page)) = IF page \in allocated THEN 1 ELSE 0
  /\ \A p, q \in Proc : \A v \in vmas[p], w \in vmas[q] :
       /\ Shown(v) \subseteq allocated
       /\ <<p, v>> # <<q, w>> => Shown(v) \cap Shown(w) = {}

(* What the module promises: page blocks granted to mappings (PageGrants).  *)
Granted(p) == UNION {Block(v.pageStart, numberToNextOrder(v.pages)) : v \in vmas[p]}
InFlight(p) ==
  IF call[p].step = "none" THEN {}
  ELSE Block(call[p].first, numberToNextOrder(call[p].pages))

AlignedBlocks ==
  {b \in {Block(n * Shift(order), order) : n \in 0 .. 2 * PageCount, order \in 0 .. PageCount} :
     b \subseteq Pages}

Grants == INSTANCE PageGrants WITH
  Blocks <- AlignedBlocks,
  owned <- [p \in Proc |-> Granted(p) \cup InFlight(p)], gone <- lost

(* Every step of the module takes free pages for one process, gives back    *)
(* pages that were that process's own, or loses them (116-119).             *)
GrantsSpec == Grants!Spec
=============================================================================
