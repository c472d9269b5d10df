------------------------------ MODULE Startup -------------------------------
(***************************************************************************)
(* The way from the boot sector to the kernel monitor: src/bootloader/     *)
(* boot.S, kload (BootLoader), src/kernel/entry.S and init.c; with the     *)
(* functions meant to run there that init does not call yet.  A step is a  *)
(* stretch of code with no access to a device between its accesses to      *)
(* memory; an access the processor cannot make is a fault, and as no       *)
(* interrupt table exists, a fault resets the machine.  The physical       *)
(* memory is that of BootLoader.                                           *)
(***************************************************************************)
EXTENDS BootLoader

CONSTANTS
  High,      \* KERNEL_BASE_ADDRESS: a linked address is High + a physical one
  EntrySize, \* 4 MB, what entry_pgdir maps             (entrypgdir.c:8)
  GdtAt,     \* where the boot sector has its gdt
  VideoAt,   \* 0xB8000, CGA_BUFF_ADDR
  Zero,      \* a byte memset cleared
  Used       \* a byte the kernel has in use, its value not followed

(* The gdt is in the boot sector; what is linked, and the screen, is within *)
(* the 4 MB that entry_pgdir maps, at low addresses and at high ones; the   *)
(* stack is part of the file.                                               *)
ASSUME StartupAssumption ==
  /\ {High, EntrySize, GdtAt, VideoAt} \subseteq Nat
  /\ BootAt <= GdtAt /\ GdtAt + 2 < BootAt + SECTSIZE
  /\ VideoAt < EntrySize /\ EntrySize <= High
  /\ \A im \in Images : \A s \in DOMAIN im : /\ im[s].pa < EntrySize
                                             /\ im[s].pa + im[s].memsz <= EntrySize
  /\ \A im \in Images : im[Len(im)].filesz > 0

VARIABLES
  kbc,   \* the 8042: [input: the byte written last, or "none";
         \*   output_port: the next byte on port 0x60 goes to its output port]
  gdtr,  \* the table segments are loaded from: "bios", "boot" or "proc"
  space, \* "physical", or the page directory in cr3
  who    \* the uncalled function that was called, or "init"

cpuVars == <<kbc, gdtr, space, who>>
vars == <<loaderVars, cpuVars>>

Init == /\ LoaderInit
        /\ a20 \in BOOLEAN   \* left by the BIOS
        /\ kbc \in {[input |-> i, output_port |-> FALSE] : i \in {"none", "other"}}
        /\ pc = "enableA20.1" /\ gdtr = "bios" /\ space = "physical" /\ who = "init"

(* What a page directory maps.  The low window of entry_pgdir has no PTE_W, *)
(* and entry sets CR0_WP.                                                   *)
Readable(directory, va) ==
  CASE directory = "physical"    -> TRUE
    [] directory = "entry_pgdir" -> va % High < EntrySize
    [] OTHER                     -> va >= High
Writable(directory, va) ==
  Readable(directory, va) /\ (directory # "physical" => va >= High)

(* The descriptors, 8 bytes each, one byte here: the boot sector's (the     *)
(* limit in gdtdesc is one byte beyond them), and global_descriptor_table,  *)
(* which has the text descriptor at GD_KERNEL_TEXT = 8 for GD_KT_INDEX = 1. *)
BootGdt == [i \in 0 .. 2 |-> <<"null", "code", "data">>[i + 1]]
ProcGdt == [i \in 0 .. 8 |-> CASE i = 8 -> "code"   [] i = 2 -> "data"
                               [] i = 3 -> "ucode"  [] i = 4 -> "udata"
                               [] OTHER -> "null"]

(* Loading a segment register reads the descriptor from memory.             *)
Loads(table, selector, kind) ==
  LET i == selector \div 8
  IN \/ /\ table = "boot"
        /\ Readable(space, GdtAt + i) /\ mem[GdtAt + i] = BootSector[GdtAt + i]
        /\ i \in DOMAIN BootGdt /\ BootGdt[i] = kind
     \/ table = "proc" /\ i \in DOMAIN ProcGdt /\ ProcGdt[i] = kind

GoOn(works, next) == pc' = IF works THEN next ELSE "fault"

-----------------------------------------------------------------------------
(* A byte written while the 8042 has not taken the one before may be lost,  *)
(* or lose it.                                                              *)
Written(byte) == \E b \in {byte} \cup ({kbc.input} \ {"none"}) :
                   kbc' = [kbc EXCEPT !.input = b]

(* A slip: the second byte is sent without waiting for the 8042.            *)
enableA20_2_NoWait ==
  /\ pc = "enableA20.2"
  /\ Written("0xdf") /\ pc' = "lgdt"
  /\ UNCHANGED <<image, magic, a20, mem, ph, readVars, disk, gdtr, space, who>>

enableA20_1 == /\ pc = "enableA20.1" /\ kbc.input = "none"
               /\ Written("0xd1") /\ pc' = "enableA20.2"
               /\ UNCHANGED <<image, magic, a20, mem, ph, readVars, disk, gdtr, space, who>>

enableA20_2 == /\ pc = "enableA20.2" /\ kbc.input = "none"
               /\ Written("0xdf") /\ pc' = "lgdt"
               /\ UNCHANGED <<image, magic, a20, mem, ph, readVars, disk, gdtr, space, who>>

(* The 8042 takes a byte, in its own time.  Bit 1 of the output port is A20.*)
KbcTakes == /\ kbc.input # "none"
            /\ kbc' = [input |-> "none", output_port |-> kbc.input = "0xd1"]
            /\ a20' = (a20 \/ (kbc.input = "0xdf" /\ kbc.output_port))
            /\ UNCHANGED <<image, magic, mem, pc, ph, readVars, disk, gdtr, space, who>>

(* lgdt, CR0.PE, the jump to protcseg and the data segments; kload's first  *)
(* readseg is set up from the start.                                        *)
protcseg == /\ pc = "lgdt"
            /\ gdtr' = "boot"
            /\ GoOn(Loads("boot", 8, "code") /\ Loads("boot", 16, "data"), "loop")
            /\ UNCHANGED <<image, magic, a20, mem, ph, readVars, disk, kbc, space, who>>

Loader == kload /\ UNCHANGED cpuVars

(* boot.S does not wait until its last byte is taken: the drive is assumed  *)
(* to need longer for the header page, which line 20 does not move.         *)
Drive == (ph = 0 \/ kbc.input = "none") /\ DiskDone /\ UNCHANGED cpuVars

-----------------------------------------------------------------------------
Text == image[1].pa                 \* entry, at the start of the text
Data == image[Len(image)]           \* the data section, with the bss
Stack == Data.pa                    \* a byte of the stack, below edata
Bss == Data.pa + Data.filesz .. Data.pa + Data.memsz - 1 \* edata .. end_bss - 1

(* Paging goes on while the processor still runs at low addresses.          *)
entry == /\ pc = "entry"
         /\ space' = "entry_pgdir"
         /\ GoOn(Readable("entry_pgdir", Text), "relocated")
         /\ UNCHANGED <<image, magic, a20, mem, ph, readVars, disk, kbc, gdtr, who>>

(* The call of init is the first use of the stack.                          *)
relocated == /\ pc = "relocated"
             /\ mem' = [mem EXCEPT ![Stack] = Used]
             /\ GoOn(Readable(space, High + Text) /\ Writable(space, High + Stack), "init_bss")
             /\ UNCHANGED <<image, magic, a20, ph, readVars, disk, cpuVars>>

(* A slip: the section is taken as loaded.                                  *)
init_bss_Left == /\ pc = "init_bss"
                 /\ pc' = "console_init"
                 /\ UNCHANGED <<image, magic, a20, mem, ph, readVars, disk, cpuVars>>

init_bss == /\ pc = "init_bss"
            /\ mem' = [a \in DOMAIN mem |-> IF a \in Bss THEN Zero ELSE mem[a]]
            /\ GoOn(\A a \in Bss : Writable(space, High + a), "console_init")
            /\ UNCHANGED <<image, magic, a20, ph, readVars, disk, cpuVars>>

(* console_init and say_hi: the characters go to High + VideoAt, and the    *)
(* console's variables are set.                                             *)
console_init ==
  /\ pc = "console_init"
  /\ mem' = [a \in DOMAIN mem |-> IF Data.pa <= a /\ a < Data.pa + Data.memsz
                                  THEN Used ELSE mem[a]]
  /\ GoOn(Writable(space, High + VideoAt), "initialize_memory")
  /\ UNCHANGED <<image, magic, a20, ph, readVars, disk, cpuVars>>

(* What Boot shows of it: the kernel's directory maps the high addresses.   *)
(* check_page_list fills the free pages, that of the boot sector and those  *)
(* of the header with them.                                                 *)
initialize_memory ==
  /\ pc = "initialize_memory"
  /\ space' = "kern_page_directory"
  /\ mem' = [a \in DOMAIN mem |->
               IF \E s \in 1 .. Len(image) - 1 :
                    image[s].pa <= a /\ a < image[s].pa + image[s].filesz
               THEN mem[a] ELSE Used]
  /\ GoOn(Readable("kern_page_directory", High + Text), "wait_input")
  /\ UNCHANGED <<image, magic, a20, ph, readVars, disk, kbc, gdtr, who>>

Kernel == entry \/ relocated \/ init_bss \/ console_init \/ initialize_memory

-----------------------------------------------------------------------------
(* Called at any point where the console works, the functions init leaves   *)
(* out end the machine: the text selector's descriptor is the null one;     *)
(* tasks is still NULL; and clrscr writes to the low address.               *)
Uncalled(name, works) ==
  /\ pc \in {"initialize_memory", "wait_input"}
  /\ who' = name /\ GoOn(works, "wait_input")
  /\ UNCHANGED <<image, magic, a20, mem, ph, readVars, disk, kbc, space>>

proc_init_percpu ==
  /\ gdtr' = "proc"
  /\ Uncalled("proc_init_percpu", Loads("proc", 16, "data") /\ Loads("proc", 8, "code"))
init_procs == Uncalled("init_procs", Writable(space, 0)) /\ UNCHANGED gdtr
clrscr == Uncalled("clrscr", Writable(space, VideoAt)) /\ UNCHANGED gdtr

Code == enableA20_1 \/ enableA20_2 \/ protcseg \/ Loader \/ Kernel
Next == Code \/ KbcTakes \/ Drive \/ proc_init_percpu \/ init_procs \/ clrscr

(* The code goes on, and the two devices answer.                            *)
Spec == Init /\ [][Next]_vars /\ WF_vars(Code) /\ WF_vars(KbcTakes) /\ WF_vars(Drive)

-----------------------------------------------------------------------------
Addressed == {"entry", "relocated", "init_bss", "console_init", "initialize_memory",
              "wait_input"}
TypeOK == /\ LoaderTypeOK
          /\ pc \in Addressed \cup {"enableA20.1", "enableA20.2", "lgdt", "loop", "wait",
                                    "wait_data", "load_error", "fault"}
          /\ gdtr \in {"bios", "boot", "proc"}

(* No fault on the way to the monitor, whatever A20 and the 8042 were like  *)
(* before: every access is to memory that is mapped and writable then, and  *)
(* loading overwrites neither the boot sector, with the code that loads and *)
(* its descriptors, nor the header page, from which the program headers are *)
(* read all the while; they stay until the kernel takes the low memory for  *)
(* its list of pages.  The functions init leaves out do fault, each at its  *)
(* first call.                                                              *)
StartupRuns ==
  /\ TypeOK
  /\ space # "kern_page_directory" => BootIntact /\ HeaderIntact
  /\ pc = "fault" <=> who # "init"

(* When init_bss returns the memory is what the linker describes: the bss,  *)
(* for which readseg has read whatever follows in the file, is clear, and   *)
(* every byte below it is the file's, but for the stack in use, which was   *)
(* not cleared with it.                                                     *)
KernelAsLinked ==
  pc = "console_init" =>
    /\ FileBytesBut({Stack})
    /\ \A a \in Bss : mem[a] = Zero
    /\ mem[Stack] = Used

(* The monitor is reached, or a disk without a kernel refused, once the     *)
(* devices have answered, unless an uncalled function was called.           *)
LoadEnds == <>(IF magic THEN pc = "wait_input" \/ who # "init" ELSE pc = "load_error")
=============================================================================
