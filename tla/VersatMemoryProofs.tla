------------------------- MODULE VersatMemoryProofs -------------------------
(* Theorems about VersatMemory and VersatModule, for every number of        *)
(* processes, of pages and of buffers: every page has one holder, the       *)
(* kernel module implements PageGrants, and an address that no other        *)
(* process's mmap came before is the right one.                             *)
EXTENDS VersatMemory, FiniteSetTheorems, WellFoundedInduction, TLAPS

-----------------------------------------------------------------------------
(* Powers of two, and numbers in pages.                                     *)
LEMMA Powers ==
  /\ \A k \in Orders : Shift(k) \in Nat \ {0} /\ k < Shift(k) /\ Shift(k) <= Shift(30)
  /\ \A k \in 1 .. 30 : Shift(k) \div 2 = Shift(k - 1)
  /\ Shift(0) \div 2 = 0
<1> DEFINE P(k) == 2 ^ k
<1>1. /\ P(0) = 1 /\ P(1) = 2 /\ P(2) = 4 /\ P(3) = 8 /\ P(4) = 16 /\ P(5) = 32
      /\ P(6) = 64 /\ P(7) = 128 /\ P(8) = 256 /\ P(9) = 512 /\ P(10) = 1024
      /\ P(11) = 2048 /\ P(12) = 4096 /\ P(13) = 8192 /\ P(14) = 16384
      /\ P(15) = 32768 /\ P(16) = 65536 /\ P(17) = 131072 /\ P(18) = 262144
      /\ P(19) = 524288 /\ P(20) = 1048576 /\ P(21) = 2097152 /\ P(22) = 4194304
      /\ P(23) = 8388608 /\ P(24) = 16777216 /\ P(25) = 33554432
      /\ P(26) = 67108864 /\ P(27) = 134217728 /\ P(28) = 268435456
      /\ P(29) = 536870912 /\ P(30) = 1073741824
  OBVIOUS
<1> HIDE DEF P
<1>2. \A k \in 0 .. 30 : P(k) \in Nat \ {0} /\ k < P(k) /\ P(k) <= P(30)
  BY <1>1
<1>3. (\A k \in 1 .. 30 : P(k) \div 2 = P(k - 1)) /\ P(0) \div 2 = 0
  BY <1>1
<1>4. QED
  BY <1>2, <1>3 DEF P, Orders, Shift

LEMMA LeastNumber ==
  ASSUME NEW T, T \subseteq Nat, T # {}
  PROVE  \E x \in T : \A y \in T : x <= y
<1> DEFINE R == {ss \in Nat \X Nat : ss[1] < ss[2]}
<1>1. IsWellFoundedOn(R, Nat)
  BY NatLessThanWellFounded DEF OpToRel
<1>2. \A x, y \in Nat : <<y, x>> \notin R => x <= y
  OBVIOUS
<1> HIDE DEF R
<1>3. \E x \in T : \A y \in T : <<y, x>> \notin R
  BY <1>1, WFMin
<1>4. QED
  BY <1>2, <1>3

LEMMA Sizes ==
  /\ PageSize \in Nat /\ PageSize > 0 /\ PageSize <= Shift(30) /\ PageCount < PageSize
  /\ Shift(30) \in Nat
<1>1. PICK k \in Orders : PageSize = Shift(k)
  BY PagesAssumption DEF PowersOfTwo
<1>2. Shift(k) \in Nat /\ Shift(k) <= Shift(30)
  BY Powers
<1>3. Shift(30) \in Nat
  BY Powers DEF Orders
<1>4. QED
  BY <1>1, <1>2, <1>3, PagesAssumption

LEMMA OrderOf ==
  ASSUME NEW pages \in 1 .. Shift(30)
  PROVE  /\ numberToNextOrder(pages) \in Orders
         /\ pages <= Shift(numberToNextOrder(pages))
<1> DEFINE T == {order \in Orders : Shift(order) >= pages}
           Q(order) == Shift(order) >= pages /\ \A k \in 0 .. order - 1 : Shift(k) < pages
<1>1. T \subseteq Nat /\ 30 \in T
  BY DEF Orders
<1>2. PICK x \in T : \A y \in T : x <= y
  BY <1>1, LeastNumber
<1>3. x \in Orders /\ x \in Nat /\ x <= 30 /\ Shift(x) >= pages
  BY <1>2 DEF Orders
<1>4. ASSUME NEW k \in 0 .. x - 1 PROVE Shift(k) < pages
  <2>1. k \in Orders /\ ~(x <= k)
    BY <1>3 DEF Orders
  <2>2. k \notin T
    BY <1>2, <2>1
  <2>3. ~(Shift(k) >= pages) /\ Shift(k) \in Nat
    BY <2>1, <2>2, Powers
  <2>4. QED
    BY <2>3
<1>5. \E order \in Orders : Q(order)
  BY <1>3, <1>4
<1>6. numberToNextOrder(pages) = CHOOSE order \in Orders : Q(order)
  BY DEF numberToNextOrder
<1> HIDE DEF Q
<1>7. numberToNextOrder(pages) \in Orders /\ Q(numberToNextOrder(pages))
  BY <1>5, <1>6
<1>8. Shift(numberToNextOrder(pages)) \in Nat
  BY <1>7, Powers
<1>9. QED
  BY <1>7, <1>8 DEF Q

LEMMA Division ==
  ASSUME NEW d \in Nat \ {0}, NEW a \in Nat
  PROVE  /\ a \div d \in Nat /\ a % d \in 0 .. d - 1
         /\ a = (a \div d) * d + (a % d)
  OBVIOUS

LEMMA Multiple ==
  ASSUME NEW d \in Nat \ {0}, NEW a \in Nat, a % d = 0
  PROVE  a \div d \in Nat /\ a = (a \div d) * d
<1> DEFINE q == a \div d
           m == a % d
<1>1. q \in Nat /\ a = q * d + m /\ m = 0
  BY Division
<1> HIDE DEF q, m
<1>2. q * d \in Nat
  BY <1>1
<1>3. QED
  BY <1>1, <1>2 DEF q

LEMMA Quotient ==
  ASSUME NEW d \in Nat \ {0}, NEW q \in Int, NEW r \in 0 .. d - 1
  PROVE  (q * d + r) \div d = q /\ (q * d + r) % d = r
  OBVIOUS
-----------------------------------------------------------------------------
(* What is known of a block that was allocated for so many pages.           *)
BlockFor(first, pages) == Block(first, numberToNextOrder(pages))

Suits(first, pages) ==
  /\ first \in Pages /\ pages \in 1 .. Shift(30)
  /\ first % Shift(numberToNextOrder(pages)) = 0
  /\ BlockFor(first, pages) \subseteq Pages

LEMMA SmallOrder ==
  ASSUME NEW first, NEW pages, Suits(first, pages)
  PROVE  LET order == numberToNextOrder(pages) IN
         /\ order \in Orders /\ order < PageSize /\ order \in 0 .. PageCount
         /\ pages <= Shift(order) /\ Shift(order) \in Nat \ {0}
         /\ first \in BlockFor(first, pages)
<1> DEFINE order == numberToNextOrder(pages)
           last  == first + Shift(order) - 1
<1>1. order \in Orders /\ pages <= Shift(order)
  BY OrderOf DEF Suits
<1>2. Shift(order) \in Nat \ {0} /\ order < Shift(order)
  BY <1>1, Powers
<1>3. PageCount \in Nat /\ first \in PageCount .. 2 * PageCount - 1
  BY PagesAssumption DEF Suits, Pages
<1>4. first .. last \subseteq PageCount .. 2 * PageCount - 1
  BY DEF Suits, BlockFor, Block, Pages
<1> HIDE DEF order
<1>5. last \in first .. last /\ first \in first .. last
  BY <1>2, <1>3
<1>6. last <= 2 * PageCount - 1
  BY <1>4, <1>5
<1>7. order \in Nat /\ order < PageCount /\ order < PageSize
  BY <1>1, <1>2, <1>3, <1>6, Sizes DEF Orders
<1>8. first \in BlockFor(first, pages)
  BY <1>5 DEF BlockFor, Block, order
<1>9. QED
  BY <1>1, <1>2, <1>3, <1>7, <1>8 DEF order

(* The close operation takes the block out of vm_private_data that mmap put *)
(* there.                                                                   *)
LEMMA Unpacked ==
  ASSUME NEW first, NEW pages, Suits(first, pages)
  PROVE  BlockOf(PrivateData(page_address(first), numberToNextOrder(pages)))
           = BlockFor(first, pages)
<1> DEFINE order == numberToNextOrder(pages)
           data  == PrivateData(page_address(first), order)
           n     == PageOffset \div PageSize
<1>1. order \in 0 .. PageSize - 1
  BY SmallOrder, Sizes DEF Orders
<1>2. first \in Nat /\ PageSize \in Nat \ {0} /\ PageOffset \in Nat
  BY PagesAssumption, Sizes DEF Suits, Pages
<1>3. n \in Nat /\ PageOffset = n * PageSize
  BY <1>2, Multiple, PagesAssumption
<1> HIDE DEF order, n
<1>4. data = PageOffset + first * PageSize + order
  BY DEF PrivateData, page_address
<1> HIDE DEF data
<1>5. data - PageOffset = first * PageSize + order
  BY <1>1, <1>2, <1>4
<1>6. data = (n + first) * PageSize + order
  BY <1>1, <1>2, <1>3, <1>4
<1>7. (data - PageOffset) \div PageSize = first /\ data % PageSize = order
  BY <1>1, <1>2, <1>3, <1>5, <1>6, Quotient
<1>8. BlockOf(data) = Block(first, order)
  BY <1>7 DEF BlockOf
<1>9. QED
  BY <1>8 DEF data, order, BlockFor

LEMMA BlockAligned ==
  ASSUME NEW first, NEW pages, Suits(first, pages)
  PROVE  BlockFor(first, pages) \in AlignedBlocks
<1> DEFINE order == numberToNextOrder(pages)
           n     == first \div Shift(order)
<1>1. order \in 0 .. PageCount /\ Shift(order) \in Nat \ {0}
  BY SmallOrder
<1>2. first \in Nat /\ first <= 2 * PageCount /\ PageCount \in Nat
  BY PagesAssumption DEF Suits, Pages
<1>3. first % Shift(order) = 0
  BY DEF Suits
<1> HIDE DEF order
<1>4. n \in Nat /\ first = n * Shift(order)
  BY <1>1, <1>2, <1>3, Multiple
<1> HIDE DEF n
<1>5. n <= first
  BY <1>1, <1>4
<1>6. n \in 0 .. 2 * PageCount /\ BlockFor(first, pages) = Block(n * Shift(order), order)
  BY <1>2, <1>4, <1>5 DEF BlockFor, order
<1>7. QED
  BY <1>1, <1>6 DEF AlignedBlocks, Suits
-----------------------------------------------------------------------------
(* The pages a process holds, and what a step does to the pages.            *)
owned == [p \in Proc |-> Granted(p) \cup InFlight(p)]

Kept == owned' = owned /\ lost' = lost /\ allocated' = allocated

Took(p, b) ==
  /\ b \cap allocated = {} /\ allocated' = allocated \cup b
  /\ owned' = [owned EXCEPT ![p] = @ \cup b] /\ lost' = lost

Returned(p, b) ==
  /\ b \subseteq owned[p] /\ allocated' = allocated \ b
  /\ owned' = [owned EXCEPT ![p] = @ \ b] /\ lost' = lost

Dropped(p, b) ==
  /\ b \subseteq owned[p] /\ allocated' = allocated
  /\ owned' = [owned EXCEPT ![p] = @ \ b] /\ lost' = lost \cup b

PageStep ==
  Kept \/ \E p \in Proc, b \in AlignedBlocks : Took(p, b) \/ Returned(p, b) \/ Dropped(p, b)

(* No page has two owners, or is both owned and lost; the others are free.  *)
OneOwner ==
  /\ \A p, q \in Proc : p # q => owned[p] \cap owned[q] = {}
  /\ \A p \in Proc : owned[p] \cap lost = {}
  /\ allocated = lost \cup UNION {owned[p] : p \in Proc}
  /\ allocated \subseteq Pages

LEMMA OneOwnerStep ==
  ASSUME OneOwner, PageStep
  PROVE  OneOwner'
<1>0. DOMAIN owned = Proc /\ owned = [p \in Proc |-> owned[p]]
  BY DEF owned
<1> DEFINE o == owned
           n == owned'
<1>1. CASE Kept
  BY <1>1 DEF Kept, OneOwner, Pages
<1>2. ASSUME NEW p \in Proc, NEW b \in AlignedBlocks, Took(p, b) PROVE OneOwner'
  <2>1. \A q \in Proc : n[q] = IF q = p THEN o[q] \cup b ELSE o[q]
    BY <1>0, <1>2 DEF Took
  <2> HIDE DEF n, o
  <2>2. \A q \in Proc : o[q] \subseteq allocated
    BY DEF OneOwner, o
  <2>3. \A q, s \in Proc : q # s => n[q] \cap n[s] = {}
    BY <1>2, <2>1, <2>2 DEF OneOwner, o, Took
  <2>4. \A q \in Proc : n[q] \cap lost' = {}
    BY <1>2, <2>1, <2>2 DEF OneOwner, o, Took
  <2>5. allocated' = lost' \cup UNION {n[q] : q \in Proc}
    <3>1. UNION {n[q] : q \in Proc} = b \cup UNION {o[q] : q \in Proc}
      BY <2>1
    <3>2. QED
      BY <1>2, <3>1 DEF OneOwner, o, Took
  <2>6. allocated' \subseteq Pages
    BY <1>2 DEF OneOwner, Took, AlignedBlocks
  <2>7. QED
    BY <2>3, <2>4, <2>5, <2>6 DEF OneOwner, n, Pages
<1>3. ASSUME NEW p \in Proc, NEW b, Returned(p, b) \/ Dropped(p, b) PROVE OneOwner'
  <2>1. /\ \A q \in Proc : n[q] = IF q = p THEN o[q] \ b ELSE o[q]
        /\ b \subseteq o[p]
    BY <1>0, <1>3 DEF Returned, Dropped
  <2> HIDE DEF n, o
  <2>2. /\ \A q, s \in Proc : q # s => o[q] \cap o[s] = {}
        /\ \A q \in Proc : o[q] \cap lost = {}
        /\ allocated = lost \cup UNION {o[q] : q \in Proc}
        /\ allocated \subseteq Pages
    BY DEF OneOwner, o
  <2>3. \A q, s \in Proc : q # s => n[q] \cap n[s] = {}
    BY <2>1, <2>2
  <2>4. UNION {n[q] : q \in Proc} = (UNION {o[q] : q \in Proc}) \ b
    <3>1. ASSUME NEW q \in Proc, NEW x \in o[q], x \notin b
          PROVE  x \in n[q]
      BY <2>1, <3>1
    <3>2. ASSUME NEW q \in Proc, NEW x \in n[q]
          PROVE  x \in o[q] /\ x \notin b
      BY <2>1, <2>2
    <3>3. QED
      BY <3>1, <3>2
  <2>5. CASE Returned(p, b)
    <3>1. lost' = lost /\ allocated' = allocated \ b
      BY <2>5 DEF Returned
    <3>2. b \cap lost = {}
      BY <2>1, <2>2
    <3>3. \A q \in Proc : n[q] \cap lost' = {}
      BY <2>1, <2>2, <3>1
    <3>4. allocated' = lost' \cup UNION {n[q] : q \in Proc}
      BY <2>2, <2>4, <3>1, <3>2
    <3>5. QED
      BY <2>2, <2>3, <3>1, <3>3, <3>4 DEF OneOwner, n, Pages
  <2>6. CASE Dropped(p, b)
    <3>1. lost' = lost \cup b /\ allocated' = allocated
      BY <2>6 DEF Dropped
    <3>2. \A q \in Proc : n[q] \cap lost' = {}
      BY <2>1, <2>2, <3>1
    <3>3. b \subseteq UNION {o[q] : q \in Proc}
      BY <2>1
    <3>4. allocated' = lost' \cup UNION {n[q] : q \in Proc}
      BY <2>2, <2>4, <3>1, <3>3
    <3>5. QED
      BY <2>2, <2>3, <3>1, <3>2, <3>4 DEF OneOwner, n, Pages
  <2>7. QED
    BY <1>3, <2>5, <2>6
<1>4. QED
  BY <1>1, <1>2, <1>3 DEF PageStep
-----------------------------------------------------------------------------
(* Calls in progress and mappings say the truth about their blocks.         *)
VmaBlock(v) == BlockFor(v.pageStart, v.pages)

CallsRight ==
  /\ call = [p \in Proc |-> call[p]]
  /\ \A p \in Proc :
       /\ call[p] = [step |-> call[p].step, first |-> call[p].first, pages |-> call[p].pages]
       /\ call[p].step \in {"none", "allocated", "published"}
       /\ call[p].step = "none" => call[p] = Idle
       /\ call[p].step # "none" => Suits(call[p].first, call[p].pages)

MapsRight ==
  /\ vmas = [p \in Proc |-> vmas[p]]
  /\ \A p \in Proc : \A v \in vmas[p] :
       /\ Suits(v.pageStart, v.pages)
       /\ v.vm_private_data
            = PrivateData(page_address(v.pageStart), numberToNextOrder(v.pages))

Apart ==
  \A p \in Proc :
    /\ InFlight(p) \cap Granted(p) = {}
    /\ \A v, w \in vmas[p] : v # w => VmaBlock(v) \cap VmaBlock(w) = {}

ModuleInv == CallsRight /\ MapsRight /\ Apart /\ OneOwner

LEMMA IdleHasNone == Idle.step = "none" /\ Idle = [step |-> "none", first |-> 0, pages |-> 0]
  BY DEF Idle

LEMMA InFlightIs ==
  \A p : InFlight(p) = IF call[p].step = "none" THEN {}
                       ELSE BlockFor(call[p].first, call[p].pages)
  BY DEF InFlight, BlockFor

LEMMA GrantedIs == \A p : Granted(p) = UNION {VmaBlock(v) : v \in vmas[p]}
  BY DEF Granted, VmaBlock, BlockFor

LEMMA AllocStep ==
  ASSUME ModuleInv, NEW p \in Proc, NEW pages \in 1 .. Shift(30), AllocPages(p, pages)
  PROVE  ModuleInv' /\ PageStep
<1>1. PICK first \in FreeBlocks(numberToNextOrder(pages)) :
        /\ allocated' = allocated \cup BlockFor(first, pages)
        /\ call' = [call EXCEPT ![p] = [step |-> "allocated", first |-> first,
                                        pages |-> pages]]
  BY DEF AllocPages, BlockFor
<1>2. call[p] = Idle /\ lost' = lost /\ vmas' = vmas
  BY DEF AllocPages
<1> DEFINE b == BlockFor(first, pages)
<1>3. Suits(first, pages) /\ b \cap allocated = {}
  BY <1>1 DEF FreeBlocks, Suits, BlockFor
<1>4. b \in AlignedBlocks
  BY <1>3, BlockAligned
<1> HIDE DEF b
<1>5. \A q \in Proc : /\ Granted(q)' = Granted(q)
                      /\ InFlight(q)' = IF q = p THEN b ELSE InFlight(q)
                      /\ InFlight(p) = {}
  BY <1>1, <1>2, IdleHasNone DEF ModuleInv, CallsRight, InFlight, Granted, b, BlockFor
<1>6. Took(p, b)
  <2>1. owned' = [q \in Proc |-> Granted(q) \cup IF q = p THEN b ELSE InFlight(q)]
    BY <1>5 DEF owned
  <2>2. owned' = [owned EXCEPT ![p] = @ \cup b]
    BY <1>5, <2>1 DEF owned
  <2>3. QED
    BY <1>1, <1>2, <1>3, <2>2 DEF Took, b
<1>7. PageStep
  BY <1>4, <1>6 DEF PageStep
<1>8. CallsRight'
  BY <1>1, <1>3 DEF ModuleInv, CallsRight, Suits
<1>9. MapsRight'
  BY <1>2 DEF ModuleInv, MapsRight, Suits
<1>10. Apart'
  <2>1. Granted(p) \subseteq allocated
    BY DEF ModuleInv, OneOwner, owned
  <2>2. \A q \in Proc : InFlight(q)' \cap Granted(q)' = {}
    BY <1>3, <1>5, <2>1 DEF ModuleInv, Apart, b
  <2>3. QED
    BY <1>2, <2>2 DEF ModuleInv, Apart, VmaBlock
<1>11. QED
  BY <1>7, <1>8, <1>9, <1>10, OneOwnerStep DEF ModuleInv

LEMMA PublishStep ==
  ASSUME ModuleInv, NEW p \in Proc, Publish(p)
  PROVE  ModuleInv' /\ PageStep
<1> DEFINE c == [step |-> "published", first |-> call[p].first, pages |-> call[p].pages]
<1>0. [call[p] EXCEPT !.step = "published"] = c
  <2>1. call[p] = [step |-> call[p].step, first |-> call[p].first, pages |-> call[p].pages]
    BY DEF ModuleInv, CallsRight
  <2> DEFINE s == call[p].step
             f == call[p].first
             n == call[p].pages
  <2> HIDE DEF s, f, n
  <2>2. [[step |-> s, first |-> f, pages |-> n] EXCEPT !.step = "published"]
          = [step |-> "published", first |-> f, pages |-> n]
    OBVIOUS
  <2>3. QED
    BY <2>1, <2>2 DEF s, f, n
<1>1. /\ call[p].step = "allocated"
      /\ call' = [call EXCEPT ![p] = c]
      /\ allocated' = allocated /\ lost' = lost /\ vmas' = vmas
  BY <1>0 DEF Publish, pagevars
<1>2. \A q \in Proc : Granted(q)' = Granted(q) /\ InFlight(q)' = InFlight(q)
  BY <1>1 DEF ModuleInv, CallsRight, InFlight, Granted
<1>3. Kept
  BY <1>1, <1>2 DEF Kept, owned
<1>4. PageStep
  BY <1>3 DEF PageStep
<1>5. CallsRight'
  BY <1>1 DEF ModuleInv, CallsRight, Suits
<1>6. MapsRight' /\ Apart'
  BY <1>1, <1>2 DEF ModuleInv, MapsRight, Apart, Suits, VmaBlock
<1>7. QED
  BY <1>4, <1>5, <1>6, OneOwnerStep DEF ModuleInv

LEMMA RemapSucceedsStep ==
  ASSUME ModuleInv, NEW p \in Proc, RemapSucceeds(p)
  PROVE  ModuleInv' /\ PageStep
<1> DEFINE v == [pageStart |-> call[p].first, pages |-> call[p].pages,
                 vm_private_data |-> PrivateData(page_address(call[p].first),
                                                 numberToNextOrder(call[p].pages))]
<1>1. /\ call[p].step = "published"
      /\ vmas' = [vmas EXCEPT ![p] = @ \cup {v}]
      /\ call' = [call EXCEPT ![p] = Idle]
      /\ allocated' = allocated /\ lost' = lost
  BY DEF RemapSucceeds, pagevars
<1>2. /\ v.pageStart = call[p].first /\ v.pages = call[p].pages
      /\ v.vm_private_data = PrivateData(page_address(v.pageStart), numberToNextOrder(v.pages))
      /\ Suits(v.pageStart, v.pages)
  BY <1>1 DEF ModuleInv, CallsRight
<1>3. VmaBlock(v) = InFlight(p)
  BY <1>1, <1>2, InFlightIs DEF VmaBlock
<1> HIDE DEF v
<1>4. \A q \in Proc : vmas[q]' = IF q = p THEN vmas[q] \cup {v} ELSE vmas[q]
  BY <1>1 DEF ModuleInv, MapsRight
<1>5. \A q \in Proc : /\ InFlight(q)' = IF q = p THEN {} ELSE InFlight(q)
                      /\ Granted(q)' = IF q = p THEN Granted(q) \cup InFlight(q)
                                       ELSE Granted(q)
  <2>1. \A q \in Proc : InFlight(q)' = IF q = p THEN {} ELSE InFlight(q)
    BY <1>1, IdleHasNone DEF InFlight, ModuleInv, CallsRight
  <2>2. Granted(p)' = Granted(p) \cup VmaBlock(v)
    BY <1>4 DEF Granted, VmaBlock, BlockFor
  <2>3. \A q \in Proc : q # p => Granted(q)' = Granted(q)
    BY <1>4 DEF Granted
  <2>4. QED
    BY <1>3, <2>1, <2>2, <2>3
<1>6. Kept
  BY <1>1, <1>5 DEF Kept, owned
<1>7. PageStep
  BY <1>6 DEF PageStep
<1>8. CallsRight'
  BY <1>1, IdleHasNone DEF ModuleInv, CallsRight, Suits
<1>9. MapsRight'
  <2>1. \A q \in Proc : \A u \in vmas[q]' :
          /\ Suits(u.pageStart, u.pages)
          /\ u.vm_private_data
               = PrivateData(page_address(u.pageStart), numberToNextOrder(u.pages))
    BY <1>2, <1>4 DEF ModuleInv, MapsRight
  <2>2. vmas' = [q \in Proc |-> vmas[q]']
    BY <1>1 DEF ModuleInv, MapsRight
  <2>3. QED
    BY <2>1, <2>2 DEF MapsRight, Suits
<1>10. Apart'
  <2>1. \A w \in vmas[p] : VmaBlock(w) \cap VmaBlock(v) = {}
    BY <1>3, GrantedIs DEF ModuleInv, Apart
  <2>2. \A q \in Proc : \A u, w \in vmas[q]' : u # w => VmaBlock(u) \cap VmaBlock(w) = {}
    BY <1>4, <2>1 DEF ModuleInv, Apart
  <2>3. \A q \in Proc : InFlight(q)' \cap Granted(q)' = {}
    BY <1>5 DEF ModuleInv, Apart
  <2>4. QED
    BY <2>2, <2>3 DEF Apart, VmaBlock
<1>11. QED
  BY <1>7, <1>8, <1>9, <1>10, OneOwnerStep DEF ModuleInv

LEMMA RemapFailsStep ==
  ASSUME ModuleInv, NEW p \in Proc, RemapFails(p)
  PROVE  ModuleInv' /\ PageStep
<1> DEFINE b == BlockFor(call[p].first, call[p].pages)
<1>1. /\ call[p].step = "published"
      /\ lost' = lost \cup b
      /\ call' = [call EXCEPT ![p] = Idle]
      /\ allocated' = allocated /\ vmas' = vmas
  BY DEF RemapFails, BlockFor
<1>2. b \in AlignedBlocks /\ InFlight(p) = b
  BY <1>1, BlockAligned, InFlightIs DEF ModuleInv, CallsRight
<1> HIDE DEF b
<1>3. \A q \in Proc : /\ InFlight(q)' = IF q = p THEN {} ELSE InFlight(q)
                      /\ Granted(q)' = Granted(q)
  BY <1>1, IdleHasNone DEF InFlight, Granted, ModuleInv, CallsRight
<1>4. Dropped(p, b)
  <2>1. owned' = [q \in Proc |-> Granted(q) \cup IF q = p THEN {} ELSE InFlight(q)]
    BY <1>3 DEF owned
  <2>2. Granted(p) = (Granted(p) \cup b) \ b
    BY <1>2 DEF ModuleInv, Apart
  <2>3. owned' = [owned EXCEPT ![p] = @ \ b]
    BY <1>2, <2>1, <2>2 DEF owned
  <2>4. b \subseteq owned[p]
    BY <1>2 DEF owned
  <2>5. QED
    BY <1>1, <2>3, <2>4 DEF Dropped
<1>5. PageStep
  BY <1>2, <1>4 DEF PageStep
<1>6. CallsRight'
  BY <1>1, IdleHasNone DEF ModuleInv, CallsRight, Suits
<1>7. MapsRight' /\ Apart'
  BY <1>1, <1>3 DEF ModuleInv, MapsRight, Apart, Suits, VmaBlock
<1>8. QED
  BY <1>5, <1>6, <1>7, OneOwnerStep DEF ModuleInv

LEMMA CloseStep ==
  ASSUME ModuleInv, NEW p \in Proc, NEW v, module_vma_close(p, v)
  PROVE  ModuleInv' /\ PageStep
<1> DEFINE b == VmaBlock(v)
<1>1. /\ v \in vmas[p] /\ call[p] = Idle /\ call' = call /\ lost' = lost
      /\ vmas' = [vmas EXCEPT ![p] = @ \ {v}]
      /\ allocated' = allocated \ BlockOf(v.vm_private_data)
  BY DEF module_vma_close
<1>2. BlockOf(v.vm_private_data) = b /\ b \in AlignedBlocks
  BY <1>1, Unpacked, BlockAligned DEF ModuleInv, MapsRight, VmaBlock
<1> HIDE DEF b
<1>3. \A q \in Proc : vmas[q]' = IF q = p THEN vmas[q] \ {v} ELSE vmas[q]
  BY <1>1 DEF ModuleInv, MapsRight
<1>4. /\ \A q \in Proc : InFlight(q)' = InFlight(q)
      /\ InFlight(p) = {}
      /\ \A q \in Proc : Granted(q)' = IF q = p THEN Granted(q) \ b ELSE Granted(q)
  <2>1. (\A q \in Proc : InFlight(q)' = InFlight(q)) /\ InFlight(p) = {}
    BY <1>1, IdleHasNone DEF InFlight
  <2>2. \A q \in Proc : q # p => Granted(q)' = Granted(q)
    BY <1>3 DEF Granted
  <2>3. Granted(p)' = UNION {VmaBlock(w) : w \in vmas[p] \ {v}}
    BY <1>3 DEF Granted, VmaBlock, BlockFor
  <2>4. Granted(p) = UNION {VmaBlock(w) : w \in vmas[p]}
    BY GrantedIs
  <2>5. \A w \in vmas[p] \ {v} : VmaBlock(w) \cap b = {}
    BY <1>1 DEF ModuleInv, Apart, b
  <2>6. Granted(p)' = Granted(p) \ b
    <3>1. \A x : x \in Granted(p)' <=> \E w \in vmas[p] \ {v} : x \in VmaBlock(w)
      BY <2>3
    <3>2. \A x : x \in Granted(p) \ b <=> x \notin b /\ \E w \in vmas[p] : x \in VmaBlock(w)
      BY <2>4
    <3>3. \A x : x \in Granted(p)' <=> x \in Granted(p) \ b
      BY <2>5, <3>1, <3>2 DEF b
    <3>4. QED
      BY <3>3
  <2>7. QED
    BY <2>1, <2>2, <2>6
<1>5. Returned(p, b)
  <2>1. owned' = [q \in Proc |-> (IF q = p THEN Granted(q) \ b ELSE Granted(q)) \cup InFlight(q)]
    BY <1>4 DEF owned
  <2>2. owned' = [owned EXCEPT ![p] = @ \ b]
    BY <1>4, <2>1 DEF owned
  <2>3. b \subseteq owned[p]
    BY <1>1, GrantedIs DEF owned, b
  <2>4. QED
    BY <1>1, <1>2, <2>2, <2>3 DEF Returned
<1>6. PageStep
  BY <1>2, <1>5 DEF PageStep
<1>7. CallsRight'
  BY <1>1 DEF ModuleInv, CallsRight, Suits
<1>8. MapsRight'
  <2>1. \A q \in Proc : \A u \in vmas[q]' :
          /\ Suits(u.pageStart, u.pages)
          /\ u.vm_private_data
               = PrivateData(page_address(u.pageStart), numberToNextOrder(u.pages))
    BY <1>3 DEF ModuleInv, MapsRight
  <2>2. vmas' = [q \in Proc |-> vmas[q]']
    BY <1>1 DEF ModuleInv, MapsRight
  <2>3. QED
    BY <2>1, <2>2 DEF MapsRight, Suits
<1>9. Apart'
  <2>1. \A q \in Proc : \A u, w \in vmas[q]' : u # w => VmaBlock(u) \cap VmaBlock(w) = {}
    BY <1>3 DEF ModuleInv, Apart
  <2>2. \A q \in Proc : InFlight(q)' \cap Granted(q)' = {}
    BY <1>4 DEF ModuleInv, Apart
  <2>3. QED
    BY <2>1, <2>2 DEF Apart, VmaBlock
<1>10. QED
  BY <1>6, <1>7, <1>8, <1>9, OneOwnerStep DEF ModuleInv

(* What leaves pages, mappings and calls alone.                             *)
LEMMA OtherStep ==
  ASSUME ModuleInv, UNCHANGED <<allocated, lost, vmas, call>>
  PROVE  ModuleInv' /\ PageStep
<1>1. \A q \in Proc : Granted(q)' = Granted(q) /\ InFlight(q)' = InFlight(q)
  BY DEF InFlight, Granted
<1>2. Kept
  BY <1>1 DEF Kept, owned
<1>3. PageStep
  BY <1>2 DEF PageStep
<1>4. CallsRight' /\ MapsRight' /\ Apart'
  BY <1>1 DEF ModuleInv, CallsRight, MapsRight, Apart, Suits, VmaBlock
<1>5. QED
  BY <1>3, <1>4, OneOwnerStep DEF ModuleInv
-----------------------------------------------------------------------------
(* Sizes that AllocateBuffer asks for.                                      *)
LEMMA Halves ==
  ASSUME NEW n \in PowersOfTwo
  PROVE  n \div 2 \in PowersOfTwo \cup {0} /\ n \in Nat \ {0} /\ n <= Shift(30)
<1>1. PICK k \in Orders : n = Shift(k)
  BY DEF PowersOfTwo
<1>2. n \div 2 \in PowersOfTwo \cup {0}
  <2>1. CASE k = 0
    BY <1>1, <2>1, Powers
  <2>2. CASE k # 0
    <3>1. k \in 1 .. 30 /\ k - 1 \in Orders
      BY <1>1, <2>2 DEF Orders
    <3>2. Shift(k - 1) \in PowersOfTwo
      BY <3>1 DEF PowersOfTwo
    <3>3. QED
      BY <1>1, <3>1, <3>2, Powers
  <2>3. QED
    BY <2>1, <2>2
<1>3. QED
  BY <1>1, <1>2, Powers

LEMMA NextPower ==
  ASSUME NEW start \in 1 .. Shift(30)
  PROVE  GetNextPowerOf2(start) \in PowersOfTwo /\ GetNextPowerOf2(start) >= start
<1> DEFINE T == {n \in PowersOfTwo : n >= start}
           Q(n) == n >= start /\ \A k \in PowersOfTwo : k >= start => n <= k
<1>1. T \subseteq Nat /\ Shift(30) \in T
  BY Halves, Powers DEF PowersOfTwo, Orders
<1>2. PICK x \in T : \A y \in T : x <= y
  BY <1>1, LeastNumber
<1>3. \E n \in PowersOfTwo : Q(n)
  BY <1>2
<1>4. GetNextPowerOf2(start) = CHOOSE n \in PowersOfTwo : Q(n)
  BY DEF GetNextPowerOf2
<1> HIDE DEF Q
<1>5. GetNextPowerOf2(start) \in PowersOfTwo /\ Q(GetNextPowerOf2(start))
  BY <1>3, <1>4
<1>6. QED
  BY <1>5 DEF Q

LEMMA Asked ==
  ASSUME NEW size \in MaxBlockSizes
  PROVE  FirstVal(size) \in PowersOfTwo /\ FirstVal(size) >= PageSize
<1>1. size \in 1 .. Shift(30) /\ PageSize \in PowersOfTwo
  BY MemoryAssumption, PagesAssumption
<1>2. /\ GetNextPowerOf2(size) \in PowersOfTwo /\ GetNextPowerOf2(size) >= size
      /\ GetNextPowerOf2(size) \in Nat
  BY <1>1, NextPower, Halves
<1>3. QED
  BY <1>1, <1>2, Sizes DEF FirstVal

LEMMA AskedPages ==
  ASSUME NEW n \in PowersOfTwo, n >= PageSize
  PROVE  n \div PageSize \in 1 .. Shift(30)
<1>1. n \in Nat /\ n <= Shift(30) /\ PageSize \in Nat \ {0} /\ Shift(30) \in Nat
  BY Halves, Sizes
<1> DEFINE q == n \div PageSize
           m == n % PageSize
           d == PageSize
<1>2. q \in Nat /\ m \in 0 .. d - 1 /\ n = q * d + m
  BY <1>1, Division
<1> HIDE DEF q, m, d
<1>3. d \in Nat \ {0} /\ n >= d
  BY <1>1 DEF d
<1>4. q # 0
  BY <1>1, <1>2, <1>3
<1>5. q <= q * d
  BY <1>2, <1>3
<1>6. q <= n
  BY <1>1, <1>2, <1>3, <1>5
<1>7. QED
  BY <1>1, <1>2, <1>4, <1>6 DEF q
-----------------------------------------------------------------------------
(* What the library knows: where each process is, the size it asks for, and *)
(* that its mappings are those of its buffers and, between mmap and ioctl,  *)
(* one more, which the global speaks of unless somebody came in between.    *)
Buffer    == [map : Vma, physicalAddressBase : Addresses, size : MaxBlockSizes]
MapsOf(p) == {buffers[p][i].map : i \in DOMAIN buffers[p]}

Shapes ==
  /\ pc = [p \in Proc |-> pc[p]] /\ attempSize = [p \in Proc |-> attempSize[p]]
  /\ val = [p \in Proc |-> val[p]] /\ buffers = [p \in Proc |-> buffers[p]]
  /\ overtaken = [p \in Proc |-> overtaken[p]]

Shared ==
  /\ registered \in {{}, Resources} /\ last_physical \in Addresses
  /\ opened \subseteq Proc /\ (opened # {} => registered = Resources)

Placed(p) ==
  /\ pc[p] \in States /\ overtaken[p] \in BOOLEAN
  /\ pc[p] = "off" <=> p \notin opened
  /\ pc[p] = "mmap" <=> call[p].step # "none"
  /\ pc[p] = "off" => vmas[p] = {}
  /\ vmas[p] \subseteq Vma

Attempting(p) ==
  /\ attempSize[p] \in MaxBlockSizes \cup {0}
  /\ pc[p] # "off" => attempSize[p] \in MaxBlockSizes
  /\ val[p] \in PowersOfTwo \cup {0}
  /\ pc[p] \in {"asking", "mmap"} => val[p] \in PowersOfTwo /\ val[p] >= PageSize

Buffered(p) ==
  /\ buffers[p] \in Seq(Buffer)
  /\ IsFiniteSet(MapsOf(p)) /\ Cardinality(MapsOf(p)) = Len(buffers[p])
  /\ ~overtaken[p] => \A i \in DOMAIN buffers[p] :
       buffers[p][i].physicalAddressBase = buffers[p][i].map.pageStart * PageSize

Known(p) ==
  /\ pc[p] \notin {"mapped", "exiting"} => vmas[p] = MapsOf(p)
  /\ pc[p] = "mapped" =>
       \E v \in vmas[p] : /\ v \notin MapsOf(p) /\ vmas[p] = MapsOf(p) \cup {v}
                          /\ ~overtaken[p] => last_physical = v.pageStart * PageSize
  /\ call[p].step = "published" /\ ~overtaken[p] =>
       last_physical = call[p].first * PageSize

Local(p)   == Placed(p) /\ Attempting(p) /\ Buffered(p) /\ Known(p)
LibraryInv == Shapes /\ Shared /\ \A p \in Proc : Local(p)

IInv == ModuleInv /\ LibraryInv

(* What another process does, unless it changes the global.                 *)
Untouched(q) ==
  /\ pc[q]' = pc[q] /\ attempSize[q]' = attempSize[q] /\ val[q]' = val[q]
  /\ buffers[q]' = buffers[q] /\ vmas[q]' = vmas[q] /\ call[q]' = call[q]
  /\ q \in opened' <=> q \in opened
  /\ overtaken[q]' \in BOOLEAN /\ (overtaken[q] => overtaken[q]')
  /\ \/ last_physical' = last_physical
     \/ overtaken[q]'
     \/ pc[q] # "mapped" /\ call[q].step # "published"

LEMMA Bystander ==
  ASSUME NEW q, Local(q), Untouched(q)
  PROVE  Local(q)'
<1>1. MapsOf(q)' = MapsOf(q)
  BY DEF MapsOf, Untouched
<1>2. Placed(q)' /\ Attempting(q)'
  BY DEF Local, Placed, Attempting, Untouched, Vma
<1>3. Buffered(q)'
  <2>1. \A i \in DOMAIN buffers[q] : buffers[q][i]' = buffers[q][i]
    BY DEF Untouched
  <2>2. QED
    BY <1>1, <2>1 DEF Local, Buffered, Untouched, Buffer, Vma, Addresses
<1>4. Known(q)'
  BY <1>1 DEF Local, Known, Untouched
<1>5. QED
  BY <1>2, <1>3, <1>4 DEF Local
LEMMA EveryoneElse ==
  ASSUME LibraryInv, Shapes', Shared', NEW p \in Proc, Local(p)',
         \A q \in Proc : q # p => Untouched(q)
  PROVE  LibraryInv'
<1>1. ASSUME NEW q \in Proc, q # p PROVE Local(q)'
  BY <1>1, Bystander DEF LibraryInv
<1>2. QED
  BY <1>1 DEF LibraryInv

LEMMA InitVersatKnows ==
  ASSUME IInv, NEW p \in Proc, InitVersat(p)
  PROVE  LibraryInv'
<1>1. PICK size \in MaxBlockSizes :
        /\ pc[p] = "off" /\ pc' = [pc EXCEPT ![p] = "asking"]
        /\ attempSize' = [attempSize EXCEPT ![p] = size]
        /\ val' = [val EXCEPT ![p] = FirstVal(size)]
  BY DEF InitVersat, Goto
<1>2. /\ buffers' = buffers /\ overtaken' = overtaken
      /\ registered = Resources /\ opened' = opened \cup {p}
      /\ registered' = registered /\ last_physical' = last_physical
      /\ vmas' = vmas /\ call' = call
  BY DEF InitVersat, module_open
<1>3. Shapes' /\ Shared'
  BY <1>1, <1>2 DEF IInv, LibraryInv, Shapes, Shared, Addresses
<1>4. \A q \in Proc : q # p => Untouched(q)
  BY <1>1, <1>2 DEF IInv, LibraryInv, Shapes, Untouched, Local, Placed
<1>5. /\ pc[p]' = "asking" /\ attempSize[p]' = size /\ val[p]' = FirstVal(size)
      /\ p \in opened' /\ MapsOf(p)' = MapsOf(p)
  BY <1>1, <1>2 DEF IInv, LibraryInv, Shapes, MapsOf
<1>6. Local(p)
  BY DEF IInv, LibraryInv
<1>7. Placed(p)'
  BY <1>1, <1>2, <1>5, <1>6 DEF Local, Placed, States, Vma
<1>8. Attempting(p)'
  BY <1>5, Asked DEF Attempting
<1>9. Buffered(p)'
  BY <1>2, <1>5, <1>6 DEF Local, Buffered, Buffer, Vma, Addresses
<1>10. Known(p)'
  BY <1>1, <1>2, <1>5, <1>6 DEF Local, Known, Placed
<1>11. QED
  BY <1>3, <1>4, <1>7, <1>8, <1>9, <1>10, EveryoneElse DEF IInv, Local

LEMMA TryLessAttempts ==
  ASSUME IInv, NEW p \in Proc, NEW from \in {"asking", "mmap"}, TryLess(p, from)
  PROVE  /\ pc[p] = from /\ pc[p]' \in {"asking", "exiting"} /\ Attempting(p)'
         /\ \A q \in Proc : q # p => /\ pc[q]' = pc[q] /\ val[q]' = val[q]
         /\ attempSize' = attempSize /\ buffers' = buffers /\ overtaken' = overtaken
         /\ Shapes'
<1>1. /\ pc[p] = from
      /\ pc' = [pc EXCEPT ![p] = IF NextVal(p) < PageSize THEN "exiting" ELSE "asking"]
      /\ val' = [val EXCEPT ![p] = NextVal(p)]
      /\ attempSize' = attempSize /\ buffers' = buffers /\ overtaken' = overtaken
  BY DEF TryLess, Goto
<1>2. NextVal(p) \in PowersOfTwo \cup {0}
  BY <1>1, Halves DEF NextVal, IInv, LibraryInv, Local, Attempting
<1>3. Shapes'
  BY <1>1 DEF IInv, LibraryInv, Shapes
<1>4. /\ pc[p]' = IF NextVal(p) < PageSize THEN "exiting" ELSE "asking"
      /\ val[p]' = NextVal(p) /\ attempSize[p]' = attempSize[p]
      /\ \A q \in Proc : q # p => /\ pc[q]' = pc[q] /\ val[q]' = val[q]
  BY <1>1 DEF IInv, LibraryInv, Shapes
<1>5. attempSize[p] \in MaxBlockSizes
  BY <1>1 DEF IInv, LibraryInv, Local, Attempting
<1>6. Attempting(p)'
  BY <1>2, <1>4, <1>5, Halves, Sizes DEF Attempting
<1>7. QED
  BY <1>1, <1>3, <1>4, <1>6

LEMMA MmapKnows ==
  ASSUME IInv, NEW p \in Proc, Mmap(p)
  PROVE  LibraryInv'
<1>1. /\ pc[p] = "asking" /\ pc' = [pc EXCEPT ![p] = "mmap"]
      /\ attempSize' = attempSize /\ val' = val
      /\ buffers' = buffers /\ overtaken' = overtaken
      /\ registered' = registered /\ last_physical' = last_physical
      /\ opened' = opened /\ vmas' = vmas
  BY DEF Mmap, Goto, AllocPages
<1>2. \E first : call' = [call EXCEPT ![p] = [step |-> "allocated", first |-> first,
                                             pages |-> val[p] \div PageSize]]
  BY DEF Mmap, AllocPages
<1>3. call[p]'.step = "allocated" /\ \A q \in Proc : q # p => call[q]' = call[q]
  BY <1>2 DEF IInv, ModuleInv, CallsRight
<1>4. Shapes' /\ Shared'
  BY <1>1 DEF IInv, LibraryInv, Shapes, Shared, Addresses
<1>5. \A q \in Proc : q # p => Untouched(q)
  BY <1>1, <1>3 DEF IInv, LibraryInv, Shapes, Untouched, Local, Placed
<1>6. Local(p) /\ pc[p]' = "mmap" /\ MapsOf(p)' = MapsOf(p)
  BY <1>1 DEF IInv, LibraryInv, Shapes, MapsOf
<1>7. Placed(p)'
  BY <1>1, <1>3, <1>6 DEF Local, Placed, States, Vma
<1>8. Attempting(p)'
  BY <1>1, <1>6 DEF Local, Attempting
<1>9. Buffered(p)'
  BY <1>1, <1>6 DEF Local, Buffered, Buffer, Vma, Addresses
<1>10. Known(p)'
  BY <1>1, <1>3, <1>6 DEF Local, Known
<1>11. QED
  BY <1>4, <1>5, <1>7, <1>8, <1>9, <1>10, EveryoneElse DEF IInv, Local

LEMMA MmapNoPagesKnows ==
  ASSUME IInv, NEW p \in Proc, MmapNoPages(p)
  PROVE  LibraryInv'
<1>1. /\ pc[p] = "asking" /\ pc[p]' \in {"asking", "exiting"} /\ Attempting(p)'
      /\ \A q \in Proc : q # p => /\ pc[q]' = pc[q] /\ val[q]' = val[q]
      /\ attempSize' = attempSize /\ buffers' = buffers /\ overtaken' = overtaken
      /\ Shapes'
  BY TryLessAttempts DEF MmapNoPages
<1>2. /\ registered' = registered /\ last_physical' = last_physical
      /\ opened' = opened /\ vmas' = vmas /\ call' = call
  BY DEF MmapNoPages, NoPages, modulevars
<1>3. Shared'
  BY <1>2 DEF IInv, LibraryInv, Shared, Addresses
<1>4. \A q \in Proc : q # p => Untouched(q)
  BY <1>1, <1>2 DEF IInv, LibraryInv, Untouched, Local, Placed
<1>5. Local(p) /\ MapsOf(p)' = MapsOf(p)
  BY <1>1 DEF IInv, LibraryInv, MapsOf
<1>6. Placed(p)'
  BY <1>1, <1>2, <1>5 DEF Local, Placed, States, Vma
<1>7. Buffered(p)'
  BY <1>1, <1>5 DEF Local, Buffered, Buffer, Vma, Addresses
<1>8. Known(p)'
  BY <1>1, <1>2, <1>5 DEF Local, Known, Placed
<1>9. QED
  BY <1>1, <1>3, <1>4, <1>6, <1>7, <1>8, EveryoneElse DEF IInv, Local
LEMMA PhysicalAddress ==
  ASSUME NEW page \in Pages
  PROVE  Published(page) = page * PageSize /\ Published(page) \in Addresses
<1> DEFINE a == page * PageSize
           b == 2 * PageCount * PageSize
<1>1. /\ page \in Nat /\ page <= 2 * PageCount /\ PageSize \in Nat /\ PageOffset \in Nat
      /\ PageCount \in Nat
  BY PagesAssumption, Sizes DEF Pages
<1>2. a \in Nat /\ b \in Nat /\ a <= b
  BY <1>1
<1>3. Published(page) = (PageOffset + a) - PageOffset
  BY Zenon DEF Published, virt_to_phys, page_address
<1>4. Addresses = 0 .. PageOffset + b
  BY DEF Addresses
<1> HIDE DEF a, b
<1>5. QED
  BY <1>1, <1>2, <1>3, <1>4 DEF a

LEMMA ZeroAddress == 0 \in Addresses
<1> DEFINE b == 2 * PageCount * PageSize
<1>1. b \in Nat /\ PageOffset \in Nat
  BY PagesAssumption, Sizes
<1>2. Addresses = 0 .. PageOffset + b
  BY DEF Addresses
<1> HIDE DEF b
<1>3. QED
  BY <1>1, <1>2

LEMMA MmapPublishKnows ==
  ASSUME IInv, NEW p \in Proc, MmapPublish(p)
  PROVE  LibraryInv'
<1>1. /\ call[p].step = "allocated"
      /\ last_physical' = Published(call[p].first)
      /\ registered' = registered /\ opened' = opened /\ vmas' = vmas
      /\ pc' = pc /\ attempSize' = attempSize /\ val' = val /\ buffers' = buffers
      /\ overtaken' = [q \in Proc |->
           overtaken[q] \/ (q # p /\ (pc[q] = "mapped" \/ call[q].step = "published"))]
  BY DEF MmapPublish, Publish
<1>2. /\ call[p]'.step = "published" /\ call[p]'.first = call[p].first
      /\ \A q \in Proc : q # p => call[q]' = call[q]
  <2>1. call' = [call EXCEPT ![p].step = "published"]
    BY DEF MmapPublish, Publish
  <2>2. call[p]' = [call[p] EXCEPT !.step = "published"]
    BY <2>1 DEF IInv, ModuleInv, CallsRight
  <2>3. call[p] = [step |-> call[p].step, first |-> call[p].first, pages |-> call[p].pages]
    BY DEF IInv, ModuleInv, CallsRight
  <2>4. \A q \in Proc : q # p => call[q]' = call[q]
    BY <2>1 DEF IInv, ModuleInv, CallsRight
  <2>5. QED
    BY <2>2, <2>3, <2>4
<1>3. last_physical' = call[p].first * PageSize /\ last_physical' \in Addresses
  BY <1>1, PhysicalAddress DEF IInv, ModuleInv, CallsRight, Suits
<1>4. Shapes' /\ Shared'
  BY <1>1, <1>3 DEF IInv, LibraryInv, Shapes, Shared, Addresses
<1>5. ASSUME NEW q \in Proc, q # p PROVE Untouched(q)
  <2>1. overtaken[q]' <=> overtaken[q] \/ pc[q] = "mapped" \/ call[q].step = "published"
    BY <1>1, <1>5
  <2>2. overtaken[q]' \in BOOLEAN /\ overtaken[q] \in BOOLEAN
    BY <1>1 DEF IInv, LibraryInv, Local, Placed
  <2>3. QED
    BY <1>1, <1>2, <1>5, <2>1, <2>2 DEF Untouched
<1>6. /\ Local(p) /\ MapsOf(p)' = MapsOf(p) /\ (overtaken[p]' <=> overtaken[p])
      /\ overtaken[p]' \in BOOLEAN /\ pc[p] = "mmap"
  BY <1>1 DEF IInv, LibraryInv, MapsOf, Local, Placed
<1>7. Placed(p)'
  BY <1>1, <1>2, <1>6 DEF Local, Placed, States, Vma
<1>8. Attempting(p)'
  BY <1>1, <1>6 DEF Local, Attempting
<1>9. Buffered(p)'
  BY <1>1, <1>6 DEF Local, Buffered, Buffer, Vma, Addresses
<1>10. Known(p)'
  BY <1>1, <1>2, <1>3, <1>6 DEF Local, Known
<1>11. QED
  BY <1>4, <1>5, <1>7, <1>8, <1>9, <1>10, EveryoneElse DEF IInv, Local

(* The mapping of a block that suits its length is one of Vma.              *)
LEMMA SuitableVma ==
  ASSUME NEW first, NEW pages, Suits(first, pages)
  PROVE  [pageStart |-> first, pages |-> pages,
          vm_private_data |-> PrivateData(page_address(first), numberToNextOrder(pages))] \in Vma
<1> DEFINE order == numberToNextOrder(pages)
           last  == first + Shift(order) - 1
           a     == first * PageSize
<1>1. /\ order \in Nat /\ pages <= Shift(order) /\ Shift(order) \in Nat \ {0}
      /\ pages \in Nat \ {0}
  BY SmallOrder, Powers DEF Suits, Orders
<1>2. /\ first \in Pages /\ first \in PageCount .. 2 * PageCount - 1
      /\ first .. last \subseteq PageCount .. 2 * PageCount - 1
  BY DEF Suits, BlockFor, Block, Pages
<1>3. PageCount \in Nat /\ PageOffset \in Nat /\ PageSize \in Nat /\ first \in Nat
  BY <1>2, PagesAssumption, Sizes
<1>4. a \in Nat
  BY <1>3
<1> HIDE DEF order, a
<1>5. last \in first .. last
  BY <1>1, <1>3
<1>6. last <= 2 * PageCount - 1 /\ first >= PageCount
  BY <1>2, <1>5
<1>7. pages \in 1 .. PageCount
  BY <1>1, <1>2, <1>3, <1>6
<1>8. PrivateData(page_address(first), order) \in Nat
  BY <1>1, <1>3, <1>4 DEF PrivateData, page_address, a
<1>9. QED
  BY <1>2, <1>7, <1>8 DEF Vma, order

LEMMA MmapReturnsKnows ==
  ASSUME IInv, NEW p \in Proc, MmapReturns(p)
  PROVE  LibraryInv'
<1> DEFINE v == [pageStart |-> call[p].first, pages |-> call[p].pages,
                 vm_private_data |-> PrivateData(page_address(call[p].first),
                                                 numberToNextOrder(call[p].pages))]
<1>1. /\ pc[p] = "mmap" /\ pc' = [pc EXCEPT ![p] = "mapped"]
      /\ attempSize' = attempSize /\ val' = val
      /\ buffers' = buffers /\ overtaken' = overtaken
      /\ registered' = registered /\ last_physical' = last_physical
      /\ opened' = opened
      /\ call[p].step = "published" /\ call' = [call EXCEPT ![p] = Idle]
      /\ vmas' = [vmas EXCEPT ![p] = @ \cup {v}]
  BY DEF MmapReturns, Goto, RemapSucceeds
<1>2. v.pageStart = call[p].first /\ v.pages = call[p].pages
  OBVIOUS
<1>3. Suits(call[p].first, call[p].pages)
  BY <1>1 DEF IInv, ModuleInv, CallsRight
<1>4. v \in Vma
  BY <1>3, SuitableVma
<1>5. v \notin vmas[p]
  <2>1. call[p].first \in InFlight(p)
    BY <1>1, <1>3, SmallOrder, InFlightIs
  <2>2. call[p].first \in VmaBlock(v)
    BY <1>2, <1>3, SmallOrder DEF VmaBlock
  <2>3. InFlight(p) \cap Granted(p) = {}
    BY DEF IInv, ModuleInv, Apart
  <2> HIDE DEF v
  <2>4. QED
    BY <2>1, <2>2, <2>3, GrantedIs
<1> HIDE DEF v
<1>6. /\ call[p]'.step = "none" /\ \A q \in Proc : q # p => call[q]' = call[q]
      /\ vmas[p]' = vmas[p] \cup {v} /\ \A q \in Proc : q # p => vmas[q]' = vmas[q]
  BY <1>1, IdleHasNone DEF IInv, ModuleInv, CallsRight, MapsRight
<1>7. Shapes' /\ Shared'
  BY <1>1 DEF IInv, LibraryInv, Shapes, Shared, Addresses
<1>8. \A q \in Proc : q # p => Untouched(q)
  BY <1>1, <1>6 DEF IInv, LibraryInv, Shapes, Untouched, Local, Placed
<1>9. Local(p) /\ pc[p]' = "mapped" /\ MapsOf(p)' = MapsOf(p)
  BY <1>1 DEF IInv, LibraryInv, Shapes, MapsOf
<1>10. Placed(p)'
  BY <1>1, <1>4, <1>6, <1>9 DEF Local, Placed, States, Vma
<1>11. Attempting(p)'
  BY <1>1, <1>9 DEF Local, Attempting
<1>12. Buffered(p)'
  BY <1>1, <1>9 DEF Local, Buffered, Buffer, Vma, Addresses
<1>13. Known(p)'
  BY <1>1, <1>2, <1>5, <1>6, <1>9 DEF Local, Known
<1>14. QED
  BY <1>7, <1>8, <1>10, <1>11, <1>12, <1>13, EveryoneElse DEF IInv, Local

LEMMA MmapRemapFailsKnows ==
  ASSUME IInv, NEW p \in Proc, MmapRemapFails(p)
  PROVE  LibraryInv'
<1>1. /\ pc[p] = "mmap" /\ pc[p]' \in {"asking", "exiting"} /\ Attempting(p)'
      /\ \A q \in Proc : q # p => /\ pc[q]' = pc[q] /\ val[q]' = val[q]
      /\ attempSize' = attempSize /\ buffers' = buffers /\ overtaken' = overtaken
      /\ Shapes'
  BY TryLessAttempts DEF MmapRemapFails
<1>2. /\ registered' = registered /\ last_physical' = last_physical
      /\ opened' = opened /\ vmas' = vmas /\ call' = [call EXCEPT ![p] = Idle]
  BY DEF MmapRemapFails, RemapFails
<1>3. call[p]'.step = "none" /\ \A q \in Proc : q # p => call[q]' = call[q]
  BY <1>2, IdleHasNone DEF IInv, ModuleInv, CallsRight
<1>4. Shared'
  BY <1>2 DEF IInv, LibraryInv, Shared, Addresses
<1>5. \A q \in Proc : q # p => Untouched(q)
  BY <1>1, <1>2, <1>3 DEF IInv, LibraryInv, Untouched, Local, Placed
<1>6. Local(p) /\ MapsOf(p)' = MapsOf(p)
  BY <1>1 DEF IInv, LibraryInv, MapsOf
<1>7. Placed(p)'
  BY <1>1, <1>2, <1>3, <1>6 DEF Local, Placed, States, Vma
<1>8. Buffered(p)'
  BY <1>1, <1>6 DEF Local, Buffered, Buffer, Vma, Addresses
<1>9. Known(p)'
  BY <1>1, <1>2, <1>3, <1>6 DEF Local, Known, Placed
<1>10. QED
  BY <1>1, <1>4, <1>5, <1>7, <1>8, <1>9, EveryoneElse DEF IInv, Local

LEMMA IoctlKnows ==
  ASSUME IInv, NEW p \in Proc, Ioctl(p)
  PROVE  LibraryInv'
<1> DEFINE last == Len(buffers[p]) + 1 = NBuffers
           b    == [map |-> MapOf(p), physicalAddressBase |-> last_physical,
                    size |-> attempSize[p]]
<1>1. /\ pc[p] = "mapped"
      /\ pc' = [pc EXCEPT ![p] = IF last THEN "ready" ELSE "asking"]
      /\ val' = [val EXCEPT ![p] = IF last THEN 0 ELSE FirstVal(attempSize[p])]
      /\ buffers' = [buffers EXCEPT ![p] = Append(@, b)]
      /\ attempSize' = attempSize /\ overtaken' = overtaken
  BY DEF Ioctl, Goto, module_ioctl
<1>2. /\ registered' = registered /\ last_physical' = last_physical
      /\ opened' = opened /\ vmas' = vmas /\ call' = call
  BY DEF Ioctl, module_ioctl, modulevars
<1>3. Local(p)
  BY DEF IInv, LibraryInv
<1>4. PICK v \in vmas[p] : /\ v \notin MapsOf(p) /\ vmas[p] = MapsOf(p) \cup {v}
                           /\ ~overtaken[p] => last_physical = v.pageStart * PageSize
  BY <1>1, <1>3 DEF Local, Known
<1>5. MapOf(p) = v
  <2>1. MapOf(p) = CHOOSE w \in vmas[p] : w \notin MapsOf(p)
    <3>1. \A w : (\A i \in DOMAIN buffers[p] : buffers[p][i].map # w) <=> w \notin MapsOf(p)
      BY DEF MapsOf
    <3>2. QED
      BY <3>1 DEF MapOf
  <2>2. \A w \in vmas[p] : w \notin MapsOf(p) => w = v
    BY <1>4
  <2>3. QED
    BY <1>4, <2>1, <2>2
<1>6. /\ v \in Vma /\ last_physical \in Addresses /\ attempSize[p] \in MaxBlockSizes
      /\ buffers[p] \in Seq(Buffer)
  BY <1>1, <1>3, <1>4 DEF IInv, LibraryInv, Shared, Local, Placed, Attempting, Buffered
<1>7. b \in Buffer /\ b.map = v /\ b.physicalAddressBase = last_physical
  BY <1>5, <1>6 DEF Buffer
<1> HIDE DEF b, last
<1>8. /\ pc[p]' = (IF last THEN "ready" ELSE "asking")
      /\ val[p]' = (IF last THEN 0 ELSE FirstVal(attempSize[p]))
      /\ buffers[p]' = Append(buffers[p], b)
      /\ \A q \in Proc : q # p =>
           pc[q]' = pc[q] /\ val[q]' = val[q] /\ buffers[q]' = buffers[q]
  BY <1>1 DEF IInv, LibraryInv, Shapes
<1>9. Shapes' /\ Shared'
  BY <1>1, <1>2 DEF IInv, LibraryInv, Shapes, Shared, Addresses
<1>10. \A q \in Proc : q # p => Untouched(q)
  BY <1>1, <1>2, <1>8 DEF IInv, LibraryInv, Untouched, Local, Placed
<1>11. Placed(p)'
  BY <1>1, <1>2, <1>3, <1>8 DEF Local, Placed, States, Vma
<1>12. Attempting(p)'
  BY <1>1, <1>6, <1>8, Asked DEF Attempting
<1>13. /\ DOMAIN buffers[p]' = 1 .. Len(buffers[p]) + 1
       /\ DOMAIN buffers[p] = 1 .. Len(buffers[p]) /\ Len(buffers[p]) \in Nat
       /\ \A i \in 1 .. Len(buffers[p]) : buffers[p]'[i] = buffers[p][i]
       /\ buffers[p]'[Len(buffers[p]) + 1] = b
       /\ buffers[p]' \in Seq(Buffer) /\ Len(buffers[p]') = Len(buffers[p]) + 1
  BY <1>6, <1>7, <1>8
<1>14. MapsOf(p)' = MapsOf(p) \cup {v}
  <2>1. \A x \in MapsOf(p)' : x \in MapsOf(p) \cup {v}
    BY <1>7, <1>13 DEF MapsOf
  <2>2. \A x \in MapsOf(p) : x \in MapsOf(p)'
    BY <1>13 DEF MapsOf
  <2>3. v \in MapsOf(p)'
    <3>1. Len(buffers[p]) + 1 \in DOMAIN buffers[p]'
      BY <1>13
    <3>2. QED
      BY <1>7, <1>13, <3>1 DEF MapsOf
  <2>4. QED
    BY <2>1, <2>2, <2>3
<1>15. Buffered(p)'
  <2>1. IsFiniteSet(MapsOf(p)') /\ Cardinality(MapsOf(p)') = Len(buffers[p]')
    <3>1. IsFiniteSet(MapsOf(p)) /\ Cardinality(MapsOf(p)) = Len(buffers[p])
      BY <1>3 DEF Local, Buffered
    <3>2. /\ IsFiniteSet(MapsOf(p) \cup {v})
          /\ Cardinality(MapsOf(p) \cup {v}) = Cardinality(MapsOf(p)) + 1
      BY <1>4, <3>1, FS_AddElement
    <3>3. QED
      BY <1>13, <1>14, <3>1, <3>2
  <2>2. ASSUME ~overtaken[p]', NEW i \in DOMAIN buffers[p]'
        PROVE  buffers[p]'[i].physicalAddressBase = buffers[p]'[i].map.pageStart * PageSize
    <3>1. ~overtaken[p]
      BY <1>1, <2>2
    <3>2. CASE i \in 1 .. Len(buffers[p])
      BY <1>3, <1>13, <3>1, <3>2 DEF Local, Buffered
    <3>3. CASE i = Len(buffers[p]) + 1
      BY <1>4, <1>7, <1>13, <3>1, <3>3
    <3>4. QED
      BY <1>13, <3>2, <3>3
  <2>3. QED
    BY <1>13, <2>1, <2>2 DEF Buffered, Buffer, Vma, Addresses, MapsOf
<1>16. Known(p)'
  BY <1>1, <1>2, <1>3, <1>4, <1>8, <1>14 DEF Local, Known
<1>17. QED
  BY <1>9, <1>10, <1>11, <1>12, <1>15, <1>16, EveryoneElse DEF IInv, Local

LEMMA ExitKnows ==
  ASSUME IInv, NEW p \in Proc, Exit(p)
  PROVE  LibraryInv'
<1>1. /\ pc[p] \in {"asking", "mapped", "ready"} /\ pc' = [pc EXCEPT ![p] = "exiting"]
      /\ val' = [val EXCEPT ![p] = 0]
      /\ attempSize' = attempSize /\ buffers' = buffers /\ overtaken' = overtaken
      /\ registered' = registered /\ last_physical' = last_physical
      /\ opened' = opened /\ vmas' = vmas /\ call' = call
  BY DEF Exit, modulevars
<1>2. Shapes' /\ Shared'
  BY <1>1 DEF IInv, LibraryInv, Shapes, Shared, Addresses
<1>3. \A q \in Proc : q # p => Untouched(q)
  BY <1>1 DEF IInv, LibraryInv, Shapes, Untouched, Local, Placed
<1>4. Local(p) /\ pc[p]' = "exiting" /\ val[p]' = 0 /\ MapsOf(p)' = MapsOf(p)
  BY <1>1 DEF IInv, LibraryInv, Shapes, MapsOf
<1>5. Placed(p)' /\ Attempting(p)'
  BY <1>1, <1>4 DEF Local, Placed, Attempting, States, Vma
<1>6. Buffered(p)'
  BY <1>1, <1>4 DEF Local, Buffered, Buffer, Vma, Addresses
<1>7. Known(p)'
  BY <1>1, <1>4 DEF Local, Known, Placed
<1>8. QED
  BY <1>2, <1>3, <1>5, <1>6, <1>7, EveryoneElse DEF IInv, Local

LEMMA UnmapKnows ==
  ASSUME IInv, NEW p \in Proc, Unmap(p)
  PROVE  LibraryInv'
<1>1. PICK v \in vmas[p] : vmas' = [vmas EXCEPT ![p] = @ \ {v}]
  BY DEF Unmap, module_vma_close
<1>2. /\ pc[p] = "exiting" /\ pc' = pc /\ val' = val
      /\ attempSize' = attempSize /\ buffers' = buffers /\ overtaken' = overtaken
      /\ registered' = registered /\ last_physical' = last_physical
      /\ opened' = opened /\ call' = call
  BY DEF Unmap, module_vma_close, libraryvars
<1>3. /\ vmas[p]' = vmas[p] \ {v}
      /\ \A q \in Proc : q # p => vmas[q]' = vmas[q]
  BY <1>1 DEF IInv, ModuleInv, MapsRight
<1>4. Shapes' /\ Shared'
  BY <1>2 DEF IInv, LibraryInv, Shapes, Shared, Addresses
<1>5. \A q \in Proc : q # p => Untouched(q)
  BY <1>2, <1>3 DEF IInv, LibraryInv, Untouched, Local, Placed
<1>6. Local(p) /\ MapsOf(p)' = MapsOf(p)
  BY <1>2 DEF IInv, LibraryInv, MapsOf
<1>7. Placed(p)' /\ Attempting(p)'
  BY <1>2, <1>3, <1>6 DEF Local, Placed, Attempting, States, Vma
<1>8. Buffered(p)'
  BY <1>2, <1>6 DEF Local, Buffered, Buffer, Vma, Addresses
<1>9. Known(p)'
  BY <1>2, <1>6 DEF Local, Known, Placed
<1>10. QED
  BY <1>4, <1>5, <1>7, <1>8, <1>9, EveryoneElse DEF IInv, Local

LEMMA GoneKnows ==
  ASSUME IInv, NEW p \in Proc, Gone(p)
  PROVE  LibraryInv'
<1>1. /\ pc[p] = "exiting" /\ pc' = [pc EXCEPT ![p] = "off"]
      /\ val' = [val EXCEPT ![p] = 0] /\ attempSize' = [attempSize EXCEPT ![p] = 0]
      /\ buffers' = [buffers EXCEPT ![p] = <<>>]
      /\ overtaken' = [overtaken EXCEPT ![p] = FALSE]
  BY DEF Gone, Goto
<1>2. /\ registered' = registered /\ last_physical' = last_physical
      /\ opened' = opened \ {p} /\ call' = call /\ vmas' = vmas
      /\ vmas[p] = {} /\ call[p] = Idle
  BY DEF Gone, module_release
<1>3. /\ pc[p]' = "off" /\ val[p]' = 0 /\ attempSize[p]' = 0 /\ buffers[p]' = <<>>
      /\ overtaken[p]' = FALSE
      /\ \A q \in Proc : q # p =>
           /\ pc[q]' = pc[q] /\ val[q]' = val[q] /\ attempSize[q]' = attempSize[q]
           /\ buffers[q]' = buffers[q] /\ overtaken[q]' = overtaken[q]
  BY <1>1 DEF IInv, LibraryInv, Shapes
<1>4. Shapes' /\ Shared'
  BY <1>1, <1>2 DEF IInv, LibraryInv, Shapes, Shared, Addresses
<1>5. \A q \in Proc : q # p => Untouched(q)
  BY <1>2, <1>3 DEF IInv, LibraryInv, Untouched, Local, Placed
<1>6. MapsOf(p)' = {}
  BY <1>3 DEF MapsOf
<1>7. Placed(p)' /\ Attempting(p)'
  BY <1>2, <1>3, IdleHasNone DEF Placed, Attempting, States
<1>8. Buffered(p)'
  BY <1>3, <1>6, FS_EmptySet DEF Buffered
<1>9. Known(p)'
  BY <1>2, <1>3, <1>6, IdleHasNone DEF Known
<1>10. QED
  BY <1>4, <1>5, <1>7, <1>8, <1>9, EveryoneElse DEF IInv, Local

(* Loading and unloading the module: nobody has it open.                    *)
LEMMA LoadKnows ==
  ASSUME IInv, Load \/ Unload
  PROVE  LibraryInv'
<1>1. /\ opened = {} /\ opened' = opened /\ vmas' = vmas /\ call' = call
      /\ registered' \in {{}, Resources}
      /\ last_physical' = 0 \/ last_physical' = last_physical
  <2>1. CASE Load
    <3>1. /\ registered = {} /\ last_physical' = 0
          /\ opened' = opened /\ vmas' = vmas /\ call' = call
          /\ registered' \in {Resources, {} \ Unwound("chrdev"), {"chrdev"} \ Unwound("class"),
                              {"chrdev", "class"} \ Unwound("device")}
      BY <2>1 DEF Load, versat_init
    <3>2. opened = {}
      BY <3>1 DEF IInv, LibraryInv, Shared, Resources
    <3>3. /\ {"chrdev"} \ Unwound("class") = {}
          /\ {"chrdev", "class"} \ Unwound("device") = {}
      BY DEF Unwound
    <3>4. QED
      BY <3>1, <3>2, <3>3
  <2>2. CASE Unload
    BY <2>2 DEF Unload, versat_exit
  <2>3. QED
    BY <2>1, <2>2
<1>2. /\ pc' = pc /\ val' = val /\ attempSize' = attempSize /\ buffers' = buffers
      /\ overtaken' = overtaken
  BY DEF Load, Unload, libraryvars
<1>3. 0 \in Addresses
  BY ZeroAddress
<1>4. Shapes' /\ Shared'
  BY <1>1, <1>2, <1>3 DEF IInv, LibraryInv, Shapes, Shared, Addresses
<1>5. \A q \in Proc : Untouched(q)
  BY <1>1, <1>2 DEF IInv, LibraryInv, Untouched, Local, Placed
<1>6. \A q \in Proc : Local(q)'
  BY <1>5, Bystander DEF IInv, LibraryInv
<1>7. QED
  BY <1>4, <1>6 DEF LibraryInv
-----------------------------------------------------------------------------
LEMMA InitInv == Init => IInv
<1> SUFFICES ASSUME Init PROVE IInv
  OBVIOUS
<1>1. /\ registered = {} /\ last_physical = 0 /\ allocated = {} /\ lost = {} /\ opened = {}
      /\ \A p \in Proc : /\ vmas[p] = {} /\ call[p] = Idle /\ pc[p] = "off"
                         /\ attempSize[p] = 0 /\ val[p] = 0 /\ buffers[p] = <<>>
                         /\ overtaken[p] = FALSE
      /\ vmas = [p \in Proc |-> vmas[p]] /\ call = [p \in Proc |-> call[p]]
  BY DEF Init, InitModule
<1>2. \A p \in Proc : Granted(p) = {} /\ InFlight(p) = {} /\ owned[p] = {} /\ MapsOf(p) = {}
  BY <1>1, IdleHasNone DEF Granted, InFlight, owned, MapsOf
<1>3. CallsRight /\ MapsRight /\ Apart
  BY <1>1, <1>2, IdleHasNone DEF CallsRight, MapsRight, Apart
<1>4. OneOwner
  BY <1>1, <1>2 DEF OneOwner
<1>5. 0 \in Addresses
  BY ZeroAddress
<1>6. Shapes /\ Shared
  BY <1>1, <1>5 DEF Init, Shapes, Shared
<1>7. ASSUME NEW p \in Proc PROVE Local(p)
  <2>1. Placed(p) /\ Attempting(p)
    <3>1. /\ pc[p] = "off" /\ overtaken[p] = FALSE /\ attempSize[p] = 0 /\ val[p] = 0
          /\ vmas[p] = {} /\ call[p].step = "none" /\ p \notin opened
      BY <1>1, IdleHasNone
    <3>2. QED
      BY <3>1 DEF Placed, Attempting, States
  <2>2. Buffered(p)
    <3>1. buffers[p] = <<>> /\ MapsOf(p) = {}
      BY <1>1, <1>2
    <3>2. buffers[p] \in Seq(Buffer) /\ Len(buffers[p]) = 0 /\ DOMAIN buffers[p] = {}
      BY <3>1
    <3>3. IsFiniteSet({}) /\ Cardinality({}) = 0
      BY FS_EmptySet
    <3>4. QED
      BY <3>1, <3>2, <3>3 DEF Buffered
  <2>3. Known(p)
    BY <1>1, <1>2, IdleHasNone DEF Known
  <2>4. QED
    BY <2>1, <2>2, <2>3 DEF Local
<1>8. QED
  BY <1>3, <1>4, <1>6, <1>7 DEF IInv, ModuleInv, LibraryInv

LEMMA NextInv == IInv /\ [Next]_vars => IInv' /\ PageStep
<1> SUFFICES ASSUME IInv, [Next]_vars PROVE IInv' /\ PageStep
  OBVIOUS
<1> USE DEF IInv
<1>1. CASE Load \/ Unload
  <2>1. UNCHANGED <<allocated, lost, vmas, call>>
    BY <1>1 DEF Load, Unload, versat_init, versat_exit, pagevars
  <2>2. QED
    BY <1>1, <2>1, OtherStep, LoadKnows
<1>2. ASSUME NEW p \in Proc, InitVersat(p) PROVE IInv' /\ PageStep
  <2>1. UNCHANGED <<allocated, lost, vmas, call>>
    BY <1>2 DEF InitVersat, module_open, pagevars
  <2>2. QED
    BY <1>2, <2>1, OtherStep, InitVersatKnows
<1>3. ASSUME NEW p \in Proc, Mmap(p) PROVE IInv' /\ PageStep
  <2>1. pc[p] = "asking" /\ AllocPages(p, val[p] \div PageSize)
    BY <1>3 DEF Mmap, Goto
  <2>2. val[p] \in PowersOfTwo /\ val[p] >= PageSize
    BY <2>1 DEF LibraryInv, Local, Attempting
  <2>3. val[p] \div PageSize \in 1 .. Shift(30)
    BY <2>2, AskedPages
  <2>4. QED
    BY <1>3, <2>1, <2>3, AllocStep, MmapKnows
<1>4. ASSUME NEW p \in Proc, MmapNoPages(p) PROVE IInv' /\ PageStep
  <2>1. UNCHANGED <<allocated, lost, vmas, call>>
    BY <1>4 DEF MmapNoPages, NoPages, modulevars, pagevars
  <2>2. QED
    BY <1>4, <2>1, OtherStep, MmapNoPagesKnows
<1>5. ASSUME NEW p \in Proc, MmapPublish(p) PROVE IInv' /\ PageStep
  <2>1. Publish(p)
    BY <1>5 DEF MmapPublish
  <2>2. QED
    BY <1>5, <2>1, PublishStep, MmapPublishKnows
<1>6. ASSUME NEW p \in Proc, MmapReturns(p) PROVE IInv' /\ PageStep
  <2>1. RemapSucceeds(p)
    BY <1>6 DEF MmapReturns
  <2>2. QED
    BY <1>6, <2>1, RemapSucceedsStep, MmapReturnsKnows
<1>7. ASSUME NEW p \in Proc, MmapRemapFails(p) PROVE IInv' /\ PageStep
  <2>1. RemapFails(p)
    BY <1>7 DEF MmapRemapFails
  <2>2. QED
    BY <1>7, <2>1, RemapFailsStep, MmapRemapFailsKnows
<1>8. ASSUME NEW p \in Proc, Ioctl(p) PROVE IInv' /\ PageStep
  <2>1. UNCHANGED <<allocated, lost, vmas, call>>
    BY <1>8 DEF Ioctl, module_ioctl, modulevars, pagevars
  <2>2. QED
    BY <1>8, <2>1, OtherStep, IoctlKnows
<1>9. ASSUME NEW p \in Proc, Exit(p) PROVE IInv' /\ PageStep
  <2>1. UNCHANGED <<allocated, lost, vmas, call>>
    BY <1>9 DEF Exit, modulevars, pagevars
  <2>2. QED
    BY <1>9, <2>1, OtherStep, ExitKnows
<1>10. ASSUME NEW p \in Proc, Unmap(p) PROVE IInv' /\ PageStep
  <2>1. PICK v : module_vma_close(p, v)
    BY <1>10 DEF Unmap
  <2>2. QED
    BY <1>10, <2>1, CloseStep, UnmapKnows
<1>11. ASSUME NEW p \in Proc, Gone(p) PROVE IInv' /\ PageStep
  <2>1. UNCHANGED <<allocated, lost, vmas, call>>
    BY <1>11 DEF Gone, module_release, pagevars
  <2>2. QED
    BY <1>11, <2>1, OtherStep, GoneKnows
<1>12. CASE UNCHANGED vars
  <2>1. /\ UNCHANGED <<allocated, lost, vmas, call>>
        /\ UNCHANGED <<registered, last_physical, opened, pc, val, attempSize, buffers, overtaken>>
    BY <1>12 DEF vars, modulevars, libraryvars, pagevars
  <2>2. Shapes' /\ Shared'
    BY <2>1 DEF LibraryInv, Shapes, Shared, Addresses
  <2>3. \A q \in Proc : Untouched(q)
    BY <2>1 DEF LibraryInv, Untouched, Local, Placed
  <2>4. \A q \in Proc : Local(q)'
    BY <2>3, Bystander DEF LibraryInv
  <2>5. LibraryInv'
    BY <2>2, <2>4 DEF LibraryInv
  <2>6. QED
    BY <2>1, <2>5, OtherStep
<1>13. QED
  BY <1>1, <1>2, <1>3, <1>4, <1>5, <1>6, <1>7, <1>8, <1>9, <1>10, <1>11, <1>12
     DEF Next, Allocation

(* IInv is the inductive invariant of the kernel module and the library.    *)
THEOREM Invariance == Spec => []IInv
<1>1. Init => IInv
  BY InitInv
<1>2. IInv /\ [Next]_vars => IInv'
  BY NextInv
<1>3. QED
  BY <1>1, <1>2, PTL DEF Spec
-----------------------------------------------------------------------------
(* The types of TypeOK: nobody has the device open when it is not           *)
(* registered (versat_init, 150), a process is inside mmap exactly while    *)
(* its module_mmap (69) is, and its mappings are those of its buffers and   *)
(* at most one more (AllocateBuffer, versatCrypto.c 160).                   *)
THEOREM TypeCorrect == Spec => []TypeOK
<1>1. IInv => TypeOK
  <2> SUFFICES ASSUME IInv PROVE TypeOK
    OBVIOUS
  <2>1. /\ LibraryInv /\ CallsRight /\ OneOwner /\ Shared
        /\ \A p \in Proc : Local(p)
    BY DEF IInv, ModuleInv, LibraryInv
  <2>2. \A p \in Proc : call[p] # Idle <=> call[p].step # "none"
    BY <2>1, IdleHasNone DEF CallsRight
  <2>3. ModuleTypeOK
    BY <2>1, <2>2 DEF ModuleTypeOK, Shared, OneOwner, CallsRight, Local, Placed
  <2>4. ASSUME NEW p \in Proc, pc[p] # "exiting"
        PROVE  /\ MapsOf(p) \subseteq vmas[p]
               /\ Cardinality(vmas[p]) =
                    Len(buffers[p]) + (IF pc[p] = "mapped" THEN 1 ELSE 0)
    <3>1. /\ IsFiniteSet(MapsOf(p)) /\ Cardinality(MapsOf(p)) = Len(buffers[p])
          /\ Len(buffers[p]) \in Nat
      BY <2>1 DEF Local, Buffered
    <3>2. CASE pc[p] # "mapped"
      <4>1. vmas[p] = MapsOf(p)
        BY <2>1, <2>4, <3>2 DEF Local, Known
      <4>2. QED
        BY <3>1, <3>2, <4>1
    <3>3. CASE pc[p] = "mapped"
      <4>1. PICK v : v \notin MapsOf(p) /\ vmas[p] = MapsOf(p) \cup {v}
        BY <2>1, <3>3 DEF Local, Known
      <4>2. Cardinality(MapsOf(p) \cup {v}) = Cardinality(MapsOf(p)) + 1
        BY <3>1, <4>1, FS_AddElement
      <4>3. QED
        BY <3>1, <3>3, <4>1, <4>2
    <3>4. QED
      BY <3>2, <3>3
  <2>5. ASSUME NEW p \in Proc
        PROVE  /\ pc[p] \in States /\ attempSize[p] \in MaxBlockSizes \cup {0}
               /\ val[p] \in PowersOfTwo \cup {0} /\ overtaken[p] \in BOOLEAN
               /\ pc[p] = "mmap" <=> call[p] # Idle
               /\ pc[p] = "off" <=> p \notin opened
    BY <2>1, <2>2 DEF Local, Placed, Attempting
  <2>6. QED
    BY <2>3, <2>4, <2>5 DEF TypeOK, MapsOf
<1>2. QED
  BY <1>1, Invariance, PTL

(* Who holds a page, told by the blocks in flight and granted.              *)
HasCall(q, page)    == page \in InFlight(q)
CallHolders(page)   == {<<"call", p>> : p \in {q \in Proc : HasCall(q, page)}}
MapHolders(page)    ==
  UNION {{<<"vma", p, v>> : v \in {w \in vmas[p] : page \in VmaBlock(w)}} : p \in Proc}

LEMMA HoldersAre ==
  ASSUME NEW page
  PROVE  Holders(page) = CallHolders(page) \cup MapHolders(page)
                           \cup {<<"lost">> : k \in {page} \cap lost}
<1>1. CallHolders(page) =
        {<<"call", p>> : p \in {q \in Proc :
           /\ call[q].step # "none"
           /\ page \in Block(call[q].first, numberToNextOrder(call[q].pages))}}
  <2>1. \A q : HasCall(q, page) <=>
          /\ call[q].step # "none"
          /\ page \in Block(call[q].first, numberToNextOrder(call[q].pages))
    BY DEF InFlight, HasCall
  <2>2. QED
    BY <2>1 DEF CallHolders
<1>2. MapHolders(page) =
        UNION {{<<"vma", p, v>> : v \in {w \in vmas[p] :
                 page \in Block(w.pageStart, numberToNextOrder(w.pages))}} : p \in Proc}
  BY Zenon DEF MapHolders, VmaBlock, BlockFor
<1>3. QED
  BY <1>1, <1>2, Zenon DEF Holders

LEMMA OneHolder ==
  ASSUME ModuleInv, NEW page \in allocated
  PROVE  \E h : Holders(page) = {h}
<1>1. /\ \A q, s \in Proc : q # s => owned[q] \cap owned[s] = {}
      /\ \A q \in Proc : owned[q] \cap lost = {} /\ InFlight(q) \cap Granted(q) = {}
      /\ \A q \in Proc : owned[q] = Granted(q) \cup InFlight(q)
      /\ \A q \in Proc : \A v \in vmas[q] : VmaBlock(v) \subseteq Granted(q)
      /\ page \in lost \/ \E q \in Proc : page \in owned[q]
  BY GrantedIs DEF ModuleInv, OneOwner, Apart, owned
<1>2. CASE page \in lost
  <2>1. \A q \in Proc : page \notin InFlight(q) /\ \A v \in vmas[q] : page \notin VmaBlock(v)
    BY <1>1, <1>2
  <2>2. CallHolders(page) = {} /\ MapHolders(page) = {}
    BY <2>1 DEF CallHolders, MapHolders, HasCall
  <2>3. {<<"lost">> : k \in {page} \cap lost} = {<<"lost">>}
    BY <1>2
  <2>4. Holders(page) = {<<"lost">>}
    BY <2>2, <2>3, HoldersAre
  <2>5. QED
    BY <2>4
<1>3. ASSUME NEW p \in Proc, page \in InFlight(p) PROVE \E h : Holders(page) = {h}
  <2>1. /\ page \notin lost
        /\ \A q \in Proc : (page \in InFlight(q) <=> q = p)
        /\ \A q \in Proc : \A v \in vmas[q] : page \notin VmaBlock(v)
    BY <1>1, <1>3
  <2>2. CallHolders(page) = {<<"call", p>>}
    <3>1. {q \in Proc : HasCall(q, page)} = {p}
      BY <2>1 DEF HasCall
    <3>2. QED
      BY <3>1 DEF CallHolders
  <2>3. MapHolders(page) = {} /\ {<<"lost">> : k \in {page} \cap lost} = {}
    BY <2>1 DEF MapHolders
  <2>4. Holders(page) = {<<"call", p>>}
    BY <2>2, <2>3, HoldersAre
  <2>5. QED
    BY <2>4
<1>4. ASSUME NEW p \in Proc, page \in Granted(p) PROVE \E h : Holders(page) = {h}
  <2>1. PICK v \in vmas[p] : page \in VmaBlock(v)
    BY <1>4, GrantedIs
  <2>2. \A w \in vmas[p] : page \in VmaBlock(w) <=> w = v
    BY <2>1 DEF ModuleInv, Apart
  <2>3. /\ page \notin lost
        /\ \A q \in Proc : page \notin InFlight(q)
        /\ \A q \in Proc : \A w \in vmas[q] : page \in VmaBlock(w) => q = p
    BY <1>1, <1>4
  <2>4. MapHolders(page) = {<<"vma", p, v>>}
    <3>1. {w \in vmas[p] : page \in VmaBlock(w)} = {v}
      BY <2>1, <2>2
    <3>2. \A q \in Proc : q # p => {w \in vmas[q] : page \in VmaBlock(w)} = {}
      BY <2>3
    <3> DEFINE M(q) == {<<"vma", q, u>> : u \in {w \in vmas[q] : page \in VmaBlock(w)}}
    <3>3. M(p) = {<<"vma", p, v>>}
      BY <3>1
    <3>4. \A q \in Proc : q # p => M(q) = {}
      BY <3>2
    <3>5. MapHolders(page) = UNION {M(q) : q \in Proc}
      BY Zenon DEF MapHolders
    <3> HIDE DEF M
    <3>6. QED
      BY <3>3, <3>4, <3>5
  <2>5. CallHolders(page) = {} /\ {<<"lost">> : k \in {page} \cap lost} = {}
    BY <2>3 DEF CallHolders, HasCall
  <2>6. Holders(page) = {<<"vma", p, v>>}
    BY <2>4, <2>5, HoldersAre
  <2>7. QED
    BY <2>6
<1>5. QED
  BY <1>1, <1>2, <1>3, <1>4

(* No page is freed while somebody uses it, none is forgotten, and no       *)
(* process is shown a page that is free or another mapping's (the blocks of *)
(* module_mmap, 93, and module_vma_close, 50): PagesAccounted, for every    *)
(* number of processes and pages.                                           *)
THEOREM PagesAlwaysAccounted == Spec => []PagesAccounted
<1>1. IInv => PagesAccounted
  <2> SUFFICES ASSUME IInv PROVE PagesAccounted
    OBVIOUS
  <2>1. /\ \A q, s \in Proc : q # s => owned[q] \cap owned[s] = {}
        /\ \A q \in Proc : owned[q] = Granted(q) \cup InFlight(q)
        /\ allocated = lost \cup UNION {owned[q] : q \in Proc}
        /\ \A q \in Proc : \A v \in vmas[q] : VmaBlock(v) \subseteq owned[q]
    BY GrantedIs DEF IInv, ModuleInv, OneOwner, owned
  <2>2. ASSUME NEW page \in Pages
        PROVE  Cardinality(Holders(page)) = IF page \in allocated THEN 1 ELSE 0
    <3>1. CASE page \in allocated
      BY <3>1, OneHolder, FS_Singleton DEF IInv
    <3>2. CASE page \notin allocated
      <4>1. /\ page \notin lost
            /\ \A q \in Proc : page \notin InFlight(q) /\ \A v \in vmas[q] : page \notin VmaBlock(v)
        BY <2>1, <3>2
      <4>2. Holders(page) = {}
        <5>1. CallHolders(page) = {} /\ MapHolders(page) = {}
          BY <4>1 DEF CallHolders, MapHolders, HasCall
        <5>2. {<<"lost">> : k \in {page} \cap lost} = {}
          BY <4>1
        <5>3. QED
          BY <5>1, <5>2, HoldersAre
      <4>3. QED
        BY <3>2, <4>2, FS_EmptySet
    <3>3. QED
      BY <3>1, <3>2
  <2>3. ASSUME NEW p \in Proc, NEW v \in vmas[p] PROVE Shown(v) \subseteq VmaBlock(v)
    <3>1. Suits(v.pageStart, v.pages)
      BY DEF IInv, ModuleInv, MapsRight
    <3> DEFINE n == Shift(numberToNextOrder(v.pages))
               f == v.pageStart
               k == v.pages
    <3>2. n \in Nat /\ k <= n /\ f \in Nat /\ k \in Nat
      BY <3>1, SmallOrder, PagesAssumption DEF Suits, Pages
    <3>3. Shown(v) = f .. f + k - 1 /\ VmaBlock(v) = f .. f + n - 1
      BY DEF Shown, VmaBlock, BlockFor, Block
    <3> HIDE DEF n, f, k
    <3>4. QED
      BY <3>2, <3>3
  <2>4. ASSUME NEW p \in Proc, NEW q \in Proc, NEW v \in vmas[p], NEW w \in vmas[q]
        PROVE  /\ Shown(v) \subseteq allocated
               /\ <<p, v>> # <<q, w>> => Shown(v) \cap Shown(w) = {}
    <3>1. Shown(v) \subseteq VmaBlock(v) /\ Shown(w) \subseteq VmaBlock(w)
      BY <2>3
    <3>2. Shown(v) \subseteq allocated
      BY <2>1, <3>1
    <3>3. CASE p # q
      BY <2>1, <3>1, <3>2, <3>3
    <3>4. CASE p = q
      BY <3>1, <3>2, <3>4 DEF IInv, ModuleInv, Apart
    <3>5. QED
      BY <3>3, <3>4
  <2>5. QED
    BY <2>2, <2>4 DEF PagesAccounted
<1>2. QED
  BY <1>1, Invariance, PTL

(* VersatModule implements PageGrants: each step of the module and of the   *)
(* library takes one free, aligned block for one process (module_mmap, 93), *)
(* gives a block of its own back (module_vma_close, 50), loses one (a       *)
(* failed remap, 116), or leaves the pages alone.                           *)
THEOREM PageGrantsImplemented == Spec => GrantsSpec
<1>1. Init => Grants!Init
  <2> SUFFICES ASSUME Init PROVE Grants!Init
    OBVIOUS
  <2>1. \A p \in Proc : Granted(p) = {} /\ InFlight(p) = {}
    BY IdleHasNone DEF Init, InitModule, Granted, InFlight
  <2>2. lost = {}
    BY DEF Init, InitModule
  <2>3. QED
    BY <2>1, <2>2 DEF Grants!Init
<1>2. IInv /\ [Next]_vars => [Grants!Next]_<<owned, lost>>
  <2> SUFFICES ASSUME IInv, PageStep PROVE [Grants!Next]_<<owned, lost>>
    BY NextInv
  <2>1. CASE Kept
    BY <2>1 DEF Kept
  <2>2. ASSUME NEW p \in Proc, NEW b \in AlignedBlocks, Took(p, b)
        PROVE  Grants!Next
    <3>1. Grants!Taken = allocated
      BY Zenon DEF IInv, ModuleInv, OneOwner, Grants!Taken, owned
    <3>2. Grants!Acquire(p, b)
      BY <2>2, <3>1 DEF Took, Grants!Acquire, owned
    <3>3. QED
      BY <3>2 DEF Grants!Next
  <2>3. ASSUME NEW p \in Proc, NEW b \in AlignedBlocks, Returned(p, b)
        PROVE  Grants!Next
    <3>1. Grants!GiveBack(p, b)
      BY <2>3 DEF Returned, Grants!GiveBack, owned
    <3>2. QED
      BY <3>1 DEF Grants!Next
  <2>4. ASSUME NEW p \in Proc, NEW b \in AlignedBlocks, Dropped(p, b)
        PROVE  Grants!Next
    <3>1. Grants!Lose(p, b)
      BY <2>4 DEF Dropped, Grants!Lose, owned
    <3>2. QED
      BY <3>1 DEF Grants!Next
  <2>5. QED
    BY <2>1, <2>2, <2>3, <2>4 DEF PageStep
<1>3. QED
  BY <1>1, <1>2, Invariance, PTL DEF Spec, GrantsSpec, Grants!Spec, owned

(* The address that the ioctl (78) reads is the one of the mapping that the *)
(* same process has just made, unless another process's mmap came in        *)
(* between, whatever was retried or failed before: AddressesRight, for      *)
(* every offset at which the accelerator may be pointed (ConvertVirtToPhys, *)
(* versatCrypto.c 87).                                                      *)
THEOREM AddressesAlwaysRight == Spec => []AddressesRight
<1>1. IInv => AddressesRight
  <2> SUFFICES ASSUME IInv, NEW p \in Proc, ~overtaken[p], pc[p] # "exiting",
                      NEW i \in DOMAIN buffers[p], NEW o \in Inside(buffers[p][i])
               PROVE  ConvertVirtToPhys(buffers[p][i], o) = PhysOf(buffers[p][i], o)
    BY DEF AddressesRight
  <2> DEFINE b == buffers[p][i]
             f == b.map.pageStart
  <2>1. Local(p)
    BY DEF IInv, LibraryInv
  <2>2. b \in Buffer /\ b.physicalAddressBase = f * PageSize
    BY <2>1 DEF Local, Buffered
  <2>3. f \in Nat /\ b.size \in Nat \ {0}
    BY <2>2, MemoryAssumption, PagesAssumption DEF Buffer, Vma, Pages
  <2>4. o \in Nat /\ o <= b.size /\ PageSize \in Nat \ {0}
    BY <2>3, Sizes DEF Inside
  <2> DEFINE q == o \div PageSize
             r == o % PageSize
  <2>5. q \in Nat /\ r \in Nat /\ o = q * PageSize + r
    <3>1. q \in Nat /\ r \in 0 .. PageSize - 1 /\ o = (o \div PageSize) * PageSize + (o % PageSize)
      BY <2>4, Division
    <3>2. QED
      BY <2>4, <3>1
  <2>6. ConvertVirtToPhys(b, o) = f * PageSize + o
    BY <2>2, <2>3, <2>4 DEF ConvertVirtToPhys
  <2>7. PhysOf(b, o) = (f + q) * PageSize + r
    BY DEF PhysOf
  <2> HIDE DEF b, f, q, r
  <2>8. f * PageSize + o = (f + q) * PageSize + r
    BY <2>3, <2>4, <2>5
  <2>9. QED
    BY <2>6, <2>7, <2>8 DEF b
<1>2. QED
  BY <1>1, Invariance, PTL
=============================================================================
