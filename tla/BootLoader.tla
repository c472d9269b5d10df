----------------------------- MODULE BootLoader -----------------------------
(***************************************************************************)
(* kload, readseg, waitdisk and readsect of src/bootloader/main.c: the     *)
(* boot sector reads the header of the kernel's ELF file and its segments  *)
(* from the disk, a sector at a time, and jumps to the entry point.  A     *)
(* byte of the disk is named by its offset in the kernel's file, which     *)
(* starts at sector 1: the boot sector's are -SECTSIZE .. -1.  The disk    *)
(* works while the loader polls it.  Startup has what runs before and      *)
(* after.                                                                  *)
(***************************************************************************)
EXTENDS Integers, Sequences

CONSTANTS
  SECTSIZE,   \* bytes of a sector                       (main.c:5)
  HeaderAt,   \* 0x10000, where the ELF header is read   (main.c:8)
  HeaderSize, \* bytes read there, SECTSIZE * 8          (main.c:28)
  BootAt,     \* 0x7c00, where the boot sector is
  A20Bit,     \* 1 << 20, the address bit that is low until A20 is on
  Images,     \* kernels: sequences of program headers
              \*   [pa, memsz, filesz, off], as the linker lays them out
  Old         \* what a byte of memory holds before

ASSUME LoaderAssumption ==
  /\ SECTSIZE \in Nat \ {0} /\ HeaderSize \in Nat \ {0}
  /\ {HeaderAt, BootAt, A20Bit} \subseteq Nat /\ HeaderAt % SECTSIZE = 0
  /\ BootAt + SECTSIZE <= HeaderAt
  /\ A20Bit > HeaderAt + HeaderSize /\ A20Bit % SECTSIZE = 0

VARIABLES
  image,   \* the kernel on the disk, and whether its magic number is right
  magic,
  a20,     \* whether address line 20 is on
  mem,     \* physical memory: address -> offset in the file, where written
  pc,
  ph,      \* program headers done, 0 while the ELF header is read
  pa, end_pa, offset, \* the locals of readseg
  disk     \* [busy, ready, sector]: its status bits and the sector it holds

readVars == <<pa, end_pa, offset>>
loaderVars == <<image, magic, a20, mem, pc, ph, pa, end_pa, offset, disk>>

(* ~(SECTSIZE - 1) rounds down.                                             *)
SectorStart(a) == a - (a % SECTSIZE)

(* What ld makes of kernel.ld: segments at 1 MB and above in ascending      *)
(* order, each at the same place in a page of memory and of the file; two   *)
(* that share a sector of memory follow each other in the file too.         *)
ASSUME ImagesAssumption ==
  \A im \in Images :
    /\ im \in Seq([pa : Nat, memsz : Nat, filesz : Nat, off : Nat]) /\ im # <<>>
    /\ \A s \in DOMAIN im : /\ A20Bit <= im[s].pa /\ im[s].filesz <= im[s].memsz
                            /\ im[s].pa % SECTSIZE = im[s].off % SECTSIZE
    /\ \A t \in DOMAIN im : \A s \in 1 .. t - 1 :
         /\ im[s].pa + im[s].filesz <= im[t].pa
         /\ \/ im[s].pa + im[s].filesz <= SectorStart(im[t].pa)
            \/ im[s].pa - im[s].off = im[t].pa - im[t].off

(* An address as it leaves the processor.                                   *)
Phys(a) == IF a20 THEN a ELSE a - A20Bit * ((a \div A20Bit) % 2)

(* The boot sector as the BIOS puts it into memory.                         *)
BootSector == [a \in BootAt .. BootAt + SECTSIZE - 1 |-> a - BootAt - SECTSIZE]

LoaderInit == /\ image \in Images /\ magic \in BOOLEAN
              /\ mem = BootSector
              /\ ph = 0
              /\ pa = SectorStart(HeaderAt) /\ end_pa = HeaderAt + HeaderSize
              /\ offset = 1
              /\ \E b \in BOOLEAN : disk = [busy |-> b, ready |-> ~b, sector |-> -1]

(* readseg starts on segment k; the kernel's file starts at sector 1.       *)
Readseg(k) == /\ pa' = SectorStart(image[k].pa)
              /\ end_pa' = image[k].pa + image[k].memsz
              /\ offset' = (image[k].off \div SECTSIZE) + 1
              /\ ph' = k

(* readsect, to the command and from the second wait on.                    *)
SectorWanted == /\ pc = "loop" /\ pa < end_pa
                /\ pc' = "wait"
                /\ UNCHANGED <<image, magic, mem, ph, readVars, disk>>

(* A slip: both status bits are compared with 0xC0 instead of 0x40.         *)
DiskIdle_BothBits == disk.busy /\ disk.ready

DiskIdle == ~disk.busy /\ disk.ready

Command == /\ pc = "wait" /\ DiskIdle
           /\ disk' = [busy |-> TRUE, ready |-> FALSE, sector |-> offset]
           /\ pc' = "wait_data"
           /\ UNCHANGED <<image, magic, mem, ph, readVars>>

(* insl: bytes of a sector still being read are not the file's.             *)
SectorByte(k) == IF disk.busy THEN Old ELSE (disk.sector - 1) * SECTSIZE + k
Stored == LET here == Phys(pa)
              sector == here .. here + SECTSIZE - 1
          IN [a \in DOMAIN mem \cup sector |->
                IF a \in sector THEN SectorByte(a - here) ELSE mem[a]]

(* A slip: the second waitdisk is left out.                                 *)
Insl_Early == /\ pc = "wait_data"
              /\ mem' = Stored
              /\ pa' = pa + SECTSIZE /\ offset' = offset + 1
              /\ pc' = "loop"
              /\ UNCHANGED <<image, magic, ph, end_pa, disk>>

Insl == /\ pc = "wait_data" /\ DiskIdle
        /\ mem' = Stored
        /\ pa' = pa + SECTSIZE /\ offset' = offset + 1
        /\ pc' = "loop"
        /\ UNCHANGED <<image, magic, ph, end_pa, disk>>

(* readseg is done: check the header, go on to the next segment, or enter.  *)
NextSegment == /\ pc = "loop" /\ pa >= end_pa
               /\ ph = 0 => magic
               /\ ph < Len(image)
               /\ Readseg(ph + 1)
               /\ UNCHANGED <<image, magic, mem, pc, disk>>

Enter == /\ pc = "loop" /\ pa >= end_pa
         /\ ph = 0 => magic
         /\ ph = Len(image)
         /\ pc' = "entry"
         /\ UNCHANGED <<image, magic, mem, ph, readVars, disk>>

load_error == /\ pc = "loop" /\ pa >= end_pa
              /\ ph = 0 /\ ~magic
              /\ pc' = "load_error"
              /\ UNCHANGED <<image, magic, mem, ph, readVars, disk>>

kload == /\ SectorWanted \/ Command \/ Insl \/ NextSegment \/ Enter \/ load_error
         /\ UNCHANGED a20

(* The drive: it finishes what it does, and reports ready after busy.       *)
DiskDone == /\ disk.busy \/ ~disk.ready
            /\ \/ disk.busy /\ disk' = [disk EXCEPT !.busy = FALSE]
               \/ ~disk.busy /\ disk' = [disk EXCEPT !.ready = TRUE]
            /\ UNCHANGED <<image, magic, a20, mem, pc, ph, readVars>>

-----------------------------------------------------------------------------
LoaderTypeOK == /\ ph \in 0 .. Len(image)
                /\ pa \in Nat /\ end_pa \in Nat /\ offset \in Nat /\ DOMAIN mem \subseteq Nat
                /\ disk.busy \in BOOLEAN /\ disk.ready \in BOOLEAN /\ a20 \in BOOLEAN

(* The bytes of the file that belong at an address are there, but for some. *)
FileBytesBut(spent) ==
  \A s \in DOMAIN image : \A k \in 0 .. image[s].filesz - 1 :
    image[s].pa + k \notin spent =>
      image[s].pa + k \in DOMAIN mem /\ mem[image[s].pa + k] = image[s].off + k

(* When kload jumps to the entry point every byte of every segment is in    *)
(* its place, although readseg reads whole sectors around it ("might copy   *)
(* more than asked"), a later segment may share a sector with it, and       *)
(* address line 20 may have been off when the machine started.              *)
SegmentsInPlace == pc = "entry" => FileBytesBut({})

(* The header page and the boot sector are as they should be.               *)
HeaderIntact == ph > 0 => \A a \in HeaderAt .. HeaderAt + HeaderSize - 1 :
                            a \in DOMAIN mem /\ mem[a] = a - HeaderAt
BootIntact == \A a \in DOMAIN BootSector : mem[a] = BootSector[a]
=============================================================================
