-------------------------------- MODULE Boot --------------------------------
(***************************************************************************)
(* The boot firmware (software/src/iob_soc_opencryptolinux_boot.c and .S), *)
(* the layout it gives the SPI flash, and the boot controller that then    *)
(* restarts the CPU (hardware/src/iob_soc_opencryptolinux_boot_ctr.v).     *)
(* The flash outlives a power cut, the external memory does not; the host  *)
(* may send other files and another list of files on every boot.           *)
(*                                                                         *)
(* External: UART and Ethernet deliver what the console sends; an erase    *)
(* clears every subsector its range touches, programming a byte that is    *)
(* not erased spoils it; a power cut may interrupt it after any byte.  The *)
(* console's handshake, wording and progress are left out, and so is a     *)
(* boot.flow that its buffer of 20 bytes does not hold (227-233).          *)
(***************************************************************************)
EXTENDS Integers, Sequences

CONSTANTS
  SUBSECTOR_SIZE,
  FLASH_FIRMWARE_OFFSET,
  INT,            (* bytes of an int                                        *)
  FlashSize,
  MemSize,
  Lists,          (* lists of [name, digits] that _mem.config may hold      *)
  HostSizes,      (* sizes the files may have on the host, by name          *)
  MaxBoots        (* bound: times the boot firmware is started              *)

ASSUME LayoutAssumption ==
  /\ {SUBSECTOR_SIZE, INT, FlashSize, MemSize, MaxBoots} \subseteq Nat \ {0}
  /\ SUBSECTOR_SIZE % INT = 0
  /\ FLASH_FIRMWARE_OFFSET \in Nat \ {0} /\ FLASH_FIRMWARE_OFFSET % SUBSECTOR_SIZE = 0
  /\ \A list \in Lists : list # <<>> /\ INT * Len(list) <= FLASH_FIRMWARE_OFFSET

VARIABLES
  flash, mem,            (* cells by address; mem begins at EXT_MEM         *)
  boot_nxt, boot, pulse, (* the boot controller, and what is left of its    *)
                         (* reset pulse                                     *)
  pc,                    (* "off", "reset", a place in main, or "running"   *)
  flow,                  (* boot.flow                                       *)
  files,                 (* file_name_array and file_address_array          *)
  file_sizes,
  i, next_subsector,
  boots,
  (* For the properties:                                                    *)
  host,                  (* list, sizes and version of the console's files  *)
  stored,                (* files of the last programming that was not cut, *)
                         (* or none                                         *)
  ended                  (* the boot firmware came to its end               *)

software == <<flow, files, file_sizes, i, next_subsector, host>>
hardware == <<boot_nxt, boot, pulse>>
vars == <<flash, mem, hardware, pc, software, boots, stored, ended>>

Flows == {"CONSOLE_TO_FLASH", "FLASH_TO_EXTMEM", "CONSOLE_TO_EXTMEM"}

Erased  == [erased |-> TRUE]
Spoiled == [spoiled |-> TRUE]
Junk    == [junk |-> TRUE]
Data(file, k) == [name |-> file.name, version |-> file.version, at |-> k]
-----------------------------------------------------------------------------
(* compute_mem_load_txt, one character at a time.                           *)
Lower == <<"0", "1", "2", "3", "4", "5", "6", "7", "8", "9", "a", "b", "c", "d", "e", "f">>
Upper == <<"0", "1", "2", "3", "4", "5", "6", "7", "8", "9", "A", "B", "C", "D", "E", "F">>
ValuesOf(c) == {n \in 0 .. 15 : c \in {Lower[n + 1], Upper[n + 1]}}
Digit(c)    == CHOOSE n \in ValuesOf(c) : TRUE

WithDecimalDigit(address, hex) == address * 10 + hex

WithDigit(address, hex) == address * 16 + hex

InName(p, c) ==
  IF c = " "
  THEN [p EXCEPT !.state = 1, !.name = <<>>,
                 !.files = Append(@, [name |-> p.name, address |-> 0])]
  ELSE [p EXCEPT !.name = Append(@, c)]

(* A character that is no digit counts as the last one that was.            *)
InAddress(p, c) ==
  IF c = "\n" THEN [p EXCEPT !.state = 0]
  ELSE LET hex == IF ValuesOf(c) = {} THEN p.hex ELSE Digit(c)
       IN  [p EXCEPT !.hex = hex,
                     !.files[Len(p.files)].address = WithDigit(@, hex)]

Character(p, c) == IF p.state = 0 THEN InName(p, c) ELSE InAddress(p, c)

NothingRead == [state |-> 0, name |-> <<>>, hex |-> 0, files |-> <<>>]

(* After each character.                                                    *)
Parsed(text) ==
  LET parse[n \in 0 .. Len(text)] ==
        IF n = 0 THEN NothingRead ELSE Character(parse[n - 1], text[n])
  IN  parse

compute_mem_load_txt(text) == Parsed(text)[Len(text)].files

(* The number that a line's digits write in base 16.                        *)
Number(digits) ==
  LET sum[k \in 0 .. Len(digits)] ==
        IF k = 0 THEN 0 ELSE sum[k - 1] + Digit(digits[k]) * 16 ^ (Len(digits) - k)
  IN  sum[Len(digits)]

(* The lines of a list are a name and the hexadecimal digits of a long int. *)
ASSUME ListsReadable ==
  \A list \in Lists :
    /\ list \in Seq([name : Seq(STRING), digits : Seq(STRING)])
    /\ \A k \in DOMAIN list :
         /\ \A n \in DOMAIN list[k].name : list[k].name[n] # " "
         /\ Len(list[k].digits) <= 8
         /\ \A n \in DOMAIN list[k].digits : ValuesOf(list[k].digits[n]) # {}
-----------------------------------------------------------------------------
(* What main kept in its variables is gone.                                 *)
NoHost == [list |-> <<>>, sizes |-> <<>>, version |-> 0]
Forgotten ==
  /\ flow' = "CONSOLE_TO_EXTMEM" /\ files' = <<>> /\ file_sizes' = <<>>
  /\ i' = 1 /\ next_subsector' = 0 /\ host' = NoHost

(* The boot controller.                                                     *)
NoDuration == 1

Duration == 3

(* A store to the boot register: bit 0 is the next boot, bit 1 was set.     *)
RestartCPU(next) == boot_nxt' = next /\ pulse' = Duration /\ boot' = boot /\ pc' = "reset"

PowerOn ==
  /\ pc = "off" /\ boots < MaxBoots
  /\ boot_nxt' = TRUE /\ boot' = TRUE /\ pulse' = Duration
  /\ pc' = "reset" /\ boots' = boots + 1 /\ ended' = FALSE
  /\ UNCHANGED <<flash, mem, software, stored>>

(* The CPU leaves its reset and fetches from where boot points.             *)
Tick ==
  /\ pc = "reset"
  /\ boot' = boot_nxt /\ pulse' = pulse - 1
  /\ pc' = IF pulse > 1 THEN "reset" ELSE IF boot THEN "connect" ELSE "running"
  /\ UNCHANGED <<flash, mem, boot_nxt, software, boots, stored, ended>>

Restart ==
  /\ pc = "restart"
  /\ RestartCPU(FALSE) /\ ended' = TRUE
  /\ UNCHANGED <<flash, mem, software, boots, stored>>

(* The end of the firmware that was loaded.                                 *)
Reboot ==
  /\ pc = "running" /\ boots < MaxBoots
  /\ RestartCPU(TRUE) /\ ended' = FALSE /\ boots' = boots + 1
  /\ Forgotten
  /\ UNCHANGED <<flash, mem, stored>>
-----------------------------------------------------------------------------
(* The flash.                                                               *)
WholeSubsectors(size) == size \div SUBSECTOR_SIZE

Subsectors(size) == (size + SUBSECTOR_SIZE - 1) \div SUBSECTOR_SIZE

(* Files of these sizes begin at these subsectors.                          *)
Starts(sizes) ==
  LET start[k \in 0 .. Len(sizes)] ==
        IF k = 0 THEN 0 ELSE start[k - 1] + Subsectors(sizes[k])
  IN  start

SizesOf(list, sizes) == [k \in DOMAIN list |-> sizes[list[k].name]]

(* What the console offers fits: into the flash and, at addresses of whole  *)
(* words (read_flash stores words, 169-175) and apart, into the memory.     *)
(* The code checks none of it.                                              *)
ASSUME FilesFit ==
  \A list \in Lists, sizes \in HostSizes :
    LET size == SizesOf(list, sizes)
        address == [k \in DOMAIN list |-> Number(list[k].digits)]
    IN  /\ \A k \in DOMAIN list :
             /\ size[k] \in Nat /\ address[k] % INT = 0
             /\ address[k] + size[k] <= MemSize
        /\ \A j, k \in DOMAIN list :
             j # k => \/ address[j] + size[j] <= address[k]
                     \/ address[k] + size[k] <= address[j]
        /\ FLASH_FIRMWARE_OFFSET + SUBSECTOR_SIZE * Starts(size)[Len(list)] <= FlashSize

Subsector(a) == a \div SUBSECTOR_SIZE

erase_address_range(a, n) ==
  flash' = [c \in DOMAIN flash |->
              IF \E b \in a .. a + n - 1 : Subsector(b) = Subsector(c) THEN Erased ELSE flash[c]]

Programmed(cells, a) ==
  [c \in DOMAIN flash |->
     IF c - a \notin DOMAIN cells THEN flash[c]
     ELSE IF flash[c] = Erased THEN cells[c - a] ELSE Spoiled]

SizeCells ==
  [c \in 0 .. INT * Len(files) - 1 |->
     [size |-> file_sizes[(c \div INT) + 1], at |-> c % INT]]

(* An erased word is -1.                                                    *)
SizeAt(k) ==
  LET c == flash[INT * (k - 1)] IN IF "size" \in DOMAIN c THEN c.size ELSE -1

FlashAddress == FLASH_FIRMWARE_OFFSET + next_subsector * SUBSECTOR_SIZE

FileCells == [c \in 0 .. file_sizes[i] - 1 |-> mem[files[i].address + c]]
-----------------------------------------------------------------------------
(* main.                                                                    *)
IsLast == i = Len(files)

NextFile(this, next) ==
  /\ pc = this
  /\ pc' = IF IsLast THEN next ELSE this
  /\ i' = IF IsLast THEN 1 ELSE i + 1

(* The text of a list: its lines with newlines between them, and perhaps    *)
(* one at the end.                                                          *)
Line(entry)  == entry.name \o <<" ">> \o entry.digits
Newline      == <<"\n">>
Separator(k) == IF k = 1 THEN <<>> ELSE Newline
Texts(list) ==
  LET text[k \in 0 .. Len(list)] ==
        IF k = 0 THEN <<>> ELSE (text[k - 1] \o Separator(k)) \o Line(list[k])
  IN  text

Text(list, newline) == Texts(list)[Len(list)] \o newline

(* boot.flow and the list arrive; the list is received where the files will *)
(* be loaded.                                                               *)
ReceiveList ==
  /\ pc = "connect"
  /\ \E f \in Flows, list \in Lists, sizes \in HostSizes, newline \in {<<>>, Newline} :
       LET text == Text(list, newline) IN
       /\ f = "FLASH_TO_EXTMEM" => sizes = CHOOSE s \in HostSizes : TRUE
       /\ flow' = f
       /\ files' = compute_mem_load_txt(text)
       /\ host' = [list |-> list, sizes |-> sizes, version |-> boots]
       /\ mem' = [a \in DOMAIN mem |-> IF a < Len(text) THEN Junk ELSE mem[a]]
       /\ file_sizes' = [k \in DOMAIN list |-> 0]
       /\ pc' = IF f = "FLASH_TO_EXTMEM" THEN "readsizes" ELSE "get"
  /\ i' = 1 /\ next_subsector' = 0
  /\ UNCHANGED <<flash, hardware, boots, stored, ended>>

HostFile(name) == [name |-> name, version |-> host.version, size |-> host.sizes[name]]

console_get_files ==
  LET file == HostFile(files[i].name)  to == files[i].address IN
  /\ NextFile("get", IF flow = "CONSOLE_TO_FLASH" THEN "erasesizes" ELSE "restart")
  /\ file_sizes' = [file_sizes EXCEPT ![i] = file.size]
  /\ mem' = [a \in DOMAIN mem |-> IF a - to \in 0 .. file.size - 1 THEN Data(file, a - to)
                                  ELSE mem[a]]
  /\ UNCHANGED <<flash, hardware, flow, files, next_subsector, host, boots, stored, ended>>

(* program_flash: first the sizes ...                                       *)
EraseSizes ==
  /\ pc = "erasesizes"
  /\ erase_address_range(0, INT * Len(files))
  /\ pc' = "storesizes" /\ stored' = <<>>
  /\ UNCHANGED <<mem, hardware, software, boots, ended>>

StoreSizes ==
  /\ pc = "storesizes"
  /\ flash' = Programmed(SizeCells, 0)
  /\ pc' = "erase"
  /\ UNCHANGED <<mem, hardware, software, boots, stored, ended>>

(* ... then each file, from memory.                                         *)
EraseFile ==
  /\ pc = "erase"
  /\ erase_address_range(FlashAddress, file_sizes[i])
  /\ pc' = "program"
  /\ UNCHANGED <<mem, hardware, software, boots, stored, ended>>

ProgramFile ==
  /\ pc = "program"
  /\ flash' = Programmed(FileCells, FlashAddress)
  /\ next_subsector' = next_subsector + Subsectors(file_sizes[i])
  /\ IF IsLast
     THEN /\ pc' = "restart" /\ i' = 1
          /\ stored' = [k \in DOMAIN files |-> HostFile(files[k].name)]
     ELSE pc' = "erase" /\ i' = i + 1 /\ stored' = stored
  /\ UNCHANGED <<mem, hardware, flow, files, file_sizes, host, boots, ended>>

read_flash_sizes ==
  /\ pc = "readsizes"
  /\ file_sizes' = [k \in DOMAIN files |-> SizeAt(k)]
  /\ pc' = "read"
  /\ UNCHANGED <<flash, mem, hardware, flow, files, i, next_subsector, host, boots, stored, ended>>

(* Whole words are read, so the last one may bring bytes behind the file.   *)
WordsRead(size) == {n \in 0 .. size + INT : n - (n % INT) < size}

read_flash ==
  LET to == files[i].address IN
  /\ NextFile("read", "restart")
  /\ mem' = [a \in DOMAIN mem |-> IF a - to \in WordsRead(file_sizes[i])
                                  THEN flash[FlashAddress + a - to] ELSE mem[a]]
  /\ next_subsector' = next_subsector + Subsectors(file_sizes[i])
  /\ UNCHANGED <<flash, hardware, flow, files, file_sizes, host, boots, stored, ended>>

(* The power goes away at any time, also while a file is programmed.        *)
PowerCut ==
  /\ pc \notin {"off", "reset"}
  /\ pc' = "off"
  /\ mem' = [a \in DOMAIN mem |-> Junk]
  /\ Forgotten
  /\ \/ flash' = flash
     \/ /\ pc = "program"
        /\ \E n \in DOMAIN FileCells :
             flash' = Programmed([c \in 0 .. n |-> FileCells[c]], FlashAddress)
  /\ UNCHANGED <<hardware, boots, stored, ended>>
-----------------------------------------------------------------------------
Init ==
  /\ flash = [a \in 0 .. FlashSize - 1 |-> Erased]
  /\ mem = [a \in 0 .. MemSize - 1 |-> Junk]
  /\ boot_nxt = TRUE /\ boot = TRUE /\ pulse = 0
  /\ pc = "off" /\ flow = "CONSOLE_TO_EXTMEM" /\ files = <<>> /\ file_sizes = <<>>
  /\ i = 1 /\ next_subsector = 0 /\ boots = 0
  /\ host = NoHost
  /\ stored = <<>> /\ ended = FALSE

Next ==
  \/ PowerOn \/ Tick \/ Restart \/ Reboot \/ PowerCut
  \/ ReceiveList \/ console_get_files
  \/ EraseSizes \/ StoreSizes \/ EraseFile \/ ProgramFile
  \/ read_flash_sizes \/ read_flash

Spec == Init /\ [][Next]_vars
-----------------------------------------------------------------------------
InFile == pc \in {"get", "erase", "program", "read"}

TypeOK ==
  /\ pc \in {"off", "reset", "connect", "get", "erasesizes", "storesizes", "erase", "program",
             "readsizes", "read", "restart", "running"}
  /\ {boot_nxt, boot, ended} \subseteq BOOLEAN /\ pulse \in 0 .. Duration
  /\ flow \in Flows
  /\ Len(file_sizes) = Len(files)
  /\ InFile => /\ i \in DOMAIN files
               /\ FlashAddress + file_sizes[i] <= FlashSize
               /\ files[i].address + file_sizes[i] <= MemSize
  /\ boots \in 0 .. MaxBoots

(* Names and addresses are those of the list's lines, whatever was left of  *)
(* the line before and however the text ends (compute_mem_load_txt, 65).    *)
ListRead ==
  pc = "get" => files = [k \in DOMAIN host.list |->
    [name |-> host.list[k].name, address |-> Number(host.list[k].digits)]]

(* What the program will find in memory: the console's files, or those of   *)
(* the last programming that ended, when the list names the same ones.      *)
Promised ==
  IF flow # "FLASH_TO_EXTMEM" THEN [k \in DOMAIN files |-> HostFile(files[k].name)]
  ELSE IF \A k \in DOMAIN files : k \in DOMAIN stored /\ stored[k].name = files[k].name
  THEN SubSeq(stored, 1, Len(files)) ELSE <<>>

(* When the program starts, each file is at its address, byte for byte: no  *)
(* erase reaches a file that was programmed, program_flash and read_flash   *)
(* find the same subsectors, and no boot that was cut before is in the way  *)
(* (124-185).                                                               *)
FilesLoaded ==
  pc = "running" =>
    \A k \in DOMAIN Promised : \A n \in 0 .. Promised[k].size - 1 :
      mem[files[k].address + n] = Data(Promised[k], n)

(* The program starts only after the boot firmware ended, and not the boot  *)
(* firmware again: boot has its new value when the reset is over            *)
(* (boot_ctr.v 37-74).                                                      *)
StartsRight ==
  /\ pc = "running" => ended
  /\ pc = "connect" => ~ended
=============================================================================
