---------------------------- MODULE StartupProofs ----------------------------
(***************************************************************************)
(* Proofs about Startup for sectors and kernels of any size: no access     *)
(* faults on the way to the monitor, and every byte of every segment ends  *)
(* up where the linker wants it.  A whole sector is read at a time, so the *)
(* bytes around a segment are overwritten; the invariant says which bytes  *)
(* of memory are final while readseg is under way (Loaded), where in the   *)
(* file it is (ReadInv), why address line 20 is on before the first byte   *)
(* above 1 MB is stored (A20Inv, DiskInv) and what cr3 holds (CpuInv).     *)
(***************************************************************************)
EXTENDS Startup, TLAPS

Header == [pa : Nat, memsz : Nat, filesz : Nat, off : Nat]

Types == /\ image \in Images /\ magic \in BOOLEAN /\ a20 \in BOOLEAN
         /\ DOMAIN mem \subseteq Nat
         /\ ph \in 0 .. Len(image)
         /\ pa \in Nat /\ end_pa \in Nat /\ offset \in Nat
         /\ disk \in [busy : BOOLEAN, ready : BOOLEAN, sector : Int]
         /\ kbc \in [input : {"none", "other", "0xd1", "0xdf"}, output_port : BOOLEAN]
         /\ pc \in Addressed \cup {"enableA20.1", "enableA20.2", "lgdt", "loop", "wait",
                                   "wait_data", "load_error", "fault"}
         /\ gdtr \in {"bios", "boot", "proc"}

(* The last byte for the 8042 is on its way or has been taken.              *)
A20Sent == \/ kbc.input = "0xdf" /\ kbc.output_port
           \/ kbc.input = "none" /\ a20
A20Inv ==
  /\ pc = "enableA20.2" => \/ kbc.input = "0xd1"
                           \/ kbc.input = "none" /\ kbc.output_port
  /\ pc \notin {"enableA20.1", "enableA20.2"} => A20Sent

(* The drive has read the sector asked for, and for a segment not before    *)
(* the 8042 took its last byte.                                             *)
DiskInv ==
  pc = "wait_data" => /\ disk.sector = offset
                      /\ ph > 0 /\ ~disk.busy => kbc.input = "none"

(* Where readseg is, in memory and in the file.                             *)
ReadInv ==
  /\ pa % SECTSIZE = 0
  /\ ph = 0 => /\ end_pa = HeaderAt + HeaderSize
               /\ pa >= HeaderAt
               /\ (offset - 1) * SECTSIZE = pa - HeaderAt
  /\ ph > 0 => /\ end_pa = image[ph].pa + image[ph].memsz
               /\ pa >= SectorStart(image[ph].pa)
               /\ (offset - 1) * SECTSIZE = pa + image[ph].off - image[ph].pa
  /\ pc \in {"wait", "wait_data"} => pa < end_pa
  /\ pc \in Addressed => ph = Len(image) /\ pa >= end_pa

(* The bytes of segment s below an address are final.                       *)
InPlace(s, top) ==
  \A k \in 0 .. image[s].filesz - 1 :
    image[s].pa + k < top => /\ image[s].pa + k \in DOMAIN mem
                             /\ mem[image[s].pa + k] = image[s].off + k

(* What is final: the header up to pa, then it and the segments done, with  *)
(* the current one up to pa.                                                *)
HeaderUpTo(top) == \A a \in HeaderAt .. top - 1 : a \in DOMAIN mem /\ mem[a] = a - HeaderAt
LoadedUpTo ==
  /\ ph = 0 => HeaderUpTo(pa)
  /\ ph > 0 => /\ HeaderUpTo(HeaderAt + HeaderSize)
               /\ \A s \in 1 .. ph - 1 : InPlace(s, image[s].pa + image[s].filesz)
               /\ InPlace(ph, pa)
               /\ SectorStart(image[ph].pa) .. pa - 1 \subseteq DOMAIN mem
Loaded == space = "physical" => LoadedUpTo

(* What the loader needs is there until the kernel takes the low memory.    *)
LowKept ==
  /\ space # "kern_page_directory" => DOMAIN BootSector \subseteq DOMAIN mem /\ BootIntact
  /\ space = "entry_pgdir" => HeaderUpTo(HeaderAt + HeaderSize)

(* The kernel, until it uses its variables: only the stack is, after the    *)
(* first call, and the bss is clear once init_bss has run.                  *)
Linked == FileBytesBut({Stack}) /\ Bss \subseteq DOMAIN mem /\ Stack \in DOMAIN mem
KernelInv ==
  /\ pc \in {"relocated", "init_bss", "console_init"} => Linked
  /\ pc \in {"init_bss", "console_init"} => mem[Stack] = Used
  /\ pc = "console_init" => \A a \in Bss : mem[a] = Zero

CpuInv ==
  /\ pc = "fault" <=> who # "init"
  /\ space \in {"physical", "entry_pgdir", "kern_page_directory"}
  /\ pc \in {"enableA20.1", "enableA20.2", "lgdt", "loop", "wait", "wait_data", "entry"}
       => space = "physical"
  /\ pc \in {"relocated", "init_bss", "console_init", "initialize_memory"}
       => space = "entry_pgdir"
  /\ pc = "wait_input" => space = "kern_page_directory"

StartupInv == /\ Types /\ A20Inv /\ DiskInv /\ ReadInv /\ Loaded /\ LowKept
              /\ KernelInv /\ CpuInv

-----------------------------------------------------------------------------
(* Arithmetic of sectors.                                                   *)
LEMMA Division ==
  ASSUME NEW a \in Nat
  PROVE  /\ a = SECTSIZE * (a \div SECTSIZE) + (a % SECTSIZE)
         /\ a % SECTSIZE \in 0 .. SECTSIZE - 1 /\ a \div SECTSIZE \in Nat
  BY LoaderAssumption

(* A sector starts at a multiple of SECTSIZE, at most a sector below.       *)
LEMMA StartOfSector ==
  ASSUME NEW a \in Nat
  PROVE  /\ SectorStart(a) = SECTSIZE * (a \div SECTSIZE) /\ SectorStart(a) \in Nat
         /\ SectorStart(a) <= a /\ a < SectorStart(a) + SECTSIZE
         /\ SectorStart(a) % SECTSIZE = 0
<1>1. SectorStart(a) = SECTSIZE * (a \div SECTSIZE)
  BY LoaderAssumption, Division DEF SectorStart
<1>2. SectorStart(a) \in Nat /\ SectorStart(a) <= a /\ a < SectorStart(a) + SECTSIZE
  BY LoaderAssumption, Division DEF SectorStart
<1>3. \A q \in Nat : (SECTSIZE * q) % SECTSIZE = 0
  BY LoaderAssumption
<1>4. QED  BY <1>1, <1>2, <1>3, Division

(* Nothing above a multiple of SECTSIZE is in a sector that starts below.   *)
LEMMA StartAbove ==
  ASSUME NEW a \in Nat, NEW b \in Nat, b <= a, b % SECTSIZE = 0
  PROVE  b <= SectorStart(a)
<1>1. b = SECTSIZE * (b \div SECTSIZE)
  BY LoaderAssumption, Division
<1> DEFINE x == b \div SECTSIZE  y == a \div SECTSIZE
<1>2. x \in Nat /\ y \in Nat
  BY Division
<1>3. SECTSIZE * x <= SECTSIZE * y + (a % SECTSIZE)
  BY <1>1, Division
<1>4. SUFFICES SECTSIZE * x <= SECTSIZE * y
  BY <1>1, StartOfSector
<1>5. CASE x <= y
  BY <1>2, <1>5, LoaderAssumption
<1>6. CASE y + 1 <= x
  <2>1. SECTSIZE * (y + 1) <= SECTSIZE * x
    BY <1>2, <1>6, LoaderAssumption
  <2>2. SECTSIZE * (y + 1) = SECTSIZE * y + SECTSIZE
    BY <1>2, LoaderAssumption
  <2>3. SECTSIZE * x \in Int /\ SECTSIZE * y \in Int
    BY <1>2, LoaderAssumption
  <2>4. a % SECTSIZE \in 0 .. SECTSIZE - 1
    BY Division
  <2> HIDE DEF x, y
  <2>5. QED  BY <1>3, <2>1, <2>2, <2>3, <2>4, LoaderAssumption
<1>7. QED  BY <1>2, <1>5, <1>6

(* The next sector starts at a multiple, too.                               *)
LEMMA NextSector ==
  ASSUME NEW a \in Nat, a % SECTSIZE = 0
  PROVE  (a + SECTSIZE) % SECTSIZE = 0
<1>1. \A q \in Nat : (SECTSIZE * q) % SECTSIZE = 0
  BY LoaderAssumption
<1>2. \A q \in Nat : SECTSIZE * (q + 1) = SECTSIZE * q + SECTSIZE
  BY LoaderAssumption
<1>3. PICK q \in Nat : a = SECTSIZE * q
  <2>1. a = SECTSIZE * (a \div SECTSIZE) + 0 /\ a \div SECTSIZE \in Nat
    BY Division
  <2>2. \A q \in Nat : SECTSIZE * q + 0 = SECTSIZE * q
    BY LoaderAssumption
  <2>3. QED  BY <2>1, <2>2
<1>4. a + SECTSIZE = SECTSIZE * (q + 1) /\ q + 1 \in Nat
  BY <1>2, <1>3
<1>5. QED  BY <1>1, <1>4

(* The offset readseg computes is that of the sector in the file.           *)
LEMMA OffsetOfSector ==
  ASSUME NEW a \in Nat, NEW o \in Nat, a % SECTSIZE = o % SECTSIZE
  PROVE  (((o \div SECTSIZE) + 1) - 1) * SECTSIZE = SectorStart(a) + o - a
<1>1. o = SECTSIZE * (o \div SECTSIZE) + (o % SECTSIZE)
  BY Division
<1>2. (o \div SECTSIZE) + 1 - 1 = o \div SECTSIZE
  BY LoaderAssumption
<1>3. QED  BY <1>1, <1>2, LoaderAssumption DEF SectorStart

(* What the assumption on the linker says of one segment, and of two.       *)
LEMMA SegmentFacts ==
  ASSUME NEW im \in Images, NEW s \in 1 .. Len(im)
  PROVE  /\ im[s] \in Header
         /\ A20Bit <= im[s].pa /\ im[s].filesz <= im[s].memsz
         /\ im[s].pa % SECTSIZE = im[s].off % SECTSIZE
         /\ im[s].pa < EntrySize /\ im[s].pa + im[s].memsz <= EntrySize
<1>1. DOMAIN im = 1 .. Len(im) /\ im \in Seq(Header)
  BY ImagesAssumption DEF Header
<1>2. im[s] \in Header
  BY <1>1
<1>3. QED  BY <1>1, <1>2, ImagesAssumption, StartupAssumption

LEMMA SegmentOrder ==
  ASSUME NEW im \in Images, NEW t \in 1 .. Len(im), NEW s \in 1 .. t - 1
  PROVE  /\ im[s].pa + im[s].filesz <= im[t].pa
         /\ \/ im[s].pa + im[s].filesz <= SectorStart(im[t].pa)
            \/ im[s].pa - im[s].off = im[t].pa - im[t].off
<1>1. DOMAIN im = 1 .. Len(im)
  BY ImagesAssumption
<1>2. QED  BY <1>1, ImagesAssumption

LEMMA SomeSegment ==
  ASSUME NEW im \in Images
  PROVE  Len(im) \in Nat /\ Len(im) > 0 /\ DOMAIN im = 1 .. Len(im)
<1>1. im \in Seq(Header) /\ im # <<>>
  BY ImagesAssumption DEF Header
<1>2. QED  BY <1>1

(* A segment is above the boot sector and the header page.                  *)
LEMMA SegmentsAreHigh ==
  ASSUME NEW im \in Images, NEW s \in 1 .. Len(im)
  PROVE  A20Bit <= SectorStart(im[s].pa)
  BY StartAbove, SegmentFacts, LoaderAssumption DEF Header

-----------------------------------------------------------------------------
LEMMA InitInv == Init => StartupInv
<1> SUFFICES ASSUME Init PROVE StartupInv
  OBVIOUS
<1> USE DEF Init, LoaderInit
<1>1. SectorStart(HeaderAt) = HeaderAt
  BY LoaderAssumption DEF SectorStart
<1>2. Types
  <2>1. DOMAIN mem \subseteq Nat
    BY LoaderAssumption DEF BootSector
  <2>2. ph \in 0 .. Len(image)
    BY SomeSegment
  <2>3. disk \in [busy : BOOLEAN, ready : BOOLEAN, sector : Int]
    <3>1. PICK b \in BOOLEAN : disk = [busy |-> b, ready |-> ~b, sector |-> -1]
      OBVIOUS
    <3>2. b \in BOOLEAN /\ (~b) \in BOOLEAN
      BY Zenon
    <3>3. -1 \in Int
      OBVIOUS
    <3>4. QED  BY <3>1, <3>2, <3>3
  <2>4. kbc \in [input : {"none", "other", "0xd1", "0xdf"}, output_port : BOOLEAN]
    <3>1. PICK i \in {"none", "other"} : kbc = [input |-> i, output_port |-> FALSE]
      OBVIOUS
    <3>2. QED  BY <3>1
  <2>5. QED  BY <1>1, <2>1, <2>2, <2>3, <2>4, LoaderAssumption DEF Types
<1>3. A20Inv /\ DiskInv
  BY DEF A20Inv, DiskInv
<1>4. ReadInv
  BY <1>1, LoaderAssumption DEF ReadInv, Addressed
<1>5. Loaded
  BY <1>1, LoaderAssumption DEF Loaded, LoadedUpTo, HeaderUpTo
<1>6. LowKept
  BY DEF LowKept, BootIntact
<1>7. KernelInv /\ CpuInv
  BY DEF KernelInv, CpuInv
<1>8. QED  BY <1>2, <1>3, <1>4, <1>5, <1>6, <1>7 DEF StartupInv

(* Steps that store nothing.                                                *)
LEMMA MemoryKept ==
  ASSUME StartupInv, UNCHANGED <<image, mem, ph, readVars, space>>
  PROVE  Loaded' /\ LowKept'
  BY DEF StartupInv, readVars, Loaded, LoadedUpTo, HeaderUpTo, InPlace, LowKept, BootIntact

(* Before the kernel runs there is nothing to show for it.                  *)
LEMMA KernelKept ==
  ASSUME StartupInv, UNCHANGED <<image, mem>>,
         \/ UNCHANGED pc
         \/ pc' \notin {"relocated", "init_bss", "console_init"}
  PROVE  KernelInv'
<1>1. CASE UNCHANGED pc
  <2>1. UNCHANGED <<Stack, Bss>>
    BY DEF Stack, Bss, Data
  <2>2. UNCHANGED FileBytesBut({Stack})
    BY <2>1 DEF FileBytesBut
  <2>3. QED  BY <1>1, <2>1, <2>2 DEF StartupInv, KernelInv, Linked
<1>2. CASE pc' \notin {"relocated", "init_bss", "console_init"}
  BY <1>2 DEF KernelInv
<1>3. QED  BY <1>1, <1>2

(* The 8042 and what the boot sector does with it.                          *)
LEMMA KeyboardSteps ==
  ASSUME StartupInv, enableA20_1 \/ enableA20_2 \/ KbcTakes
  PROVE  StartupInv'
<1> USE DEF StartupInv
<1>1. Loaded' /\ LowKept'
  BY MemoryKept DEF enableA20_1, enableA20_2, KbcTakes, readVars
<1>0. KernelInv'
  BY KernelKept DEF enableA20_1, enableA20_2, KbcTakes
<1>2. CASE enableA20_1
  <2>1. kbc' = [kbc EXCEPT !.input = "0xd1"]
    BY <1>2 DEF enableA20_1, Written
  <2>2. Types'
    BY <1>2, <2>1 DEF enableA20_1, Types, readVars, Addressed
  <2>3. A20Inv' /\ DiskInv' /\ CpuInv'
    BY <1>2, <2>1 DEF enableA20_1, Types, A20Inv, DiskInv, CpuInv
  <2>4. ReadInv'
    BY <1>2 DEF enableA20_1, ReadInv, readVars, Addressed
  <2>5. QED  BY <1>0, <1>1, <2>2, <2>3, <2>4
<1>3. CASE enableA20_2
  <2>1. kbc' = [kbc EXCEPT !.input = "0xdf"]
    BY <1>3 DEF enableA20_2, Written
  <2>2. Types'
    BY <1>3, <2>1 DEF enableA20_2, Types, readVars, Addressed
  <2>3. A20Inv' /\ DiskInv' /\ CpuInv'
    BY <1>3, <2>1 DEF enableA20_2, Types, A20Inv, A20Sent, DiskInv, CpuInv
  <2>4. ReadInv'
    BY <1>3 DEF enableA20_2, ReadInv, readVars, Addressed
  <2>5. QED  BY <1>0, <1>1, <2>2, <2>3, <2>4
<1>4. CASE KbcTakes
  <2>1. Types'
    BY <1>4 DEF KbcTakes, Types, readVars
  <2>2. A20Inv'
    BY <1>4 DEF KbcTakes, Types, A20Inv, A20Sent
  <2>3. DiskInv' /\ CpuInv'
    BY <1>4 DEF KbcTakes, DiskInv, CpuInv, readVars
  <2>4. ReadInv'
    BY <1>4 DEF KbcTakes, ReadInv, readVars
  <2>5. QED  BY <1>0, <1>1, <2>1, <2>2, <2>3, <2>4
<1>5. QED  BY <1>2, <1>3, <1>4

(* A descriptor of the boot sector is loaded while paging is off.           *)
LEMMA ProtcsegStep ==
  ASSUME StartupInv, protcseg
  PROVE  StartupInv'
<1> USE DEF StartupInv
<1>1. Loaded' /\ LowKept'
  BY MemoryKept DEF protcseg, readVars
<1>2. \A i \in 0 .. 2 : /\ Readable(space, GdtAt + i)
                       /\ mem[GdtAt + i] = BootSector[GdtAt + i]
  <2>1. \A i \in 0 .. 2 : GdtAt + i \in DOMAIN BootSector
    BY LoaderAssumption, StartupAssumption DEF BootSector
  <2>2. QED  BY <2>1 DEF protcseg, CpuInv, Readable, LowKept, BootIntact
<1>3. 8 \div 8 = 1 /\ 16 \div 8 = 2
  OBVIOUS
<1>4. BootGdt[1] = "code" /\ BootGdt[2] = "data" /\ DOMAIN BootGdt = 0 .. 2
  BY DEF BootGdt
<1>5. Loads("boot", 8, "code")
  <2>1. 1 \in 0 .. 2
    OBVIOUS
  <2>2. QED  BY <1>2, <1>3, <1>4, <2>1 DEF Loads
<1>6. Loads("boot", 16, "data")
  <2>1. 2 \in 0 .. 2
    OBVIOUS
  <2>2. QED  BY <1>2, <1>3, <1>4, <2>1 DEF Loads
<1>7. pc' = "loop"
  BY <1>5, <1>6 DEF protcseg, GoOn
<1>8. Types' /\ ReadInv'
  BY <1>7 DEF protcseg, Types, ReadInv, readVars, Addressed
<1>9. A20Inv' /\ DiskInv' /\ CpuInv'
  BY <1>7 DEF protcseg, A20Inv, A20Sent, DiskInv, CpuInv
<1>10. KernelInv'
  BY <1>7, KernelKept DEF protcseg
<1>11. QED  BY <1>1, <1>8, <1>9, <1>10

-----------------------------------------------------------------------------
(* The steps of the loader that store nothing, and the drive.               *)
LEMMA PollSteps ==
  ASSUME StartupInv, UNCHANGED cpuVars,
         \/ (SectorWanted \/ Command \/ Enter \/ load_error) /\ UNCHANGED a20
         \/ Drive
  PROVE  StartupInv'
<1> USE DEF StartupInv, cpuVars
<1>1. UNCHANGED <<image, magic, a20, mem, ph, readVars>>
  BY DEF SectorWanted, Command, Enter, load_error, Drive, DiskDone
<1>2. Loaded' /\ LowKept'
  BY <1>1, MemoryKept
<1>3. Types'
  <2>1. disk' \in [busy : BOOLEAN, ready : BOOLEAN, sector : Int]
    <3>1. CASE Command
      BY <3>1 DEF Command, Types
    <3>2. CASE Drive
      <4>1. \/ disk' = [disk EXCEPT !.busy = FALSE]
            \/ disk' = [disk EXCEPT !.ready = TRUE]
        BY <3>2 DEF Drive, DiskDone
      <4>2. QED  BY <4>1 DEF Types
    <3>3. CASE UNCHANGED disk
      BY <3>3 DEF Types
    <3>4. QED  BY <3>1, <3>2, <3>3 DEF SectorWanted, Enter, load_error
  <2>2. QED  BY <1>1, <2>1 DEF SectorWanted, Command, Enter, load_error, Drive, DiskDone,
                           Types, readVars, Addressed
<1>4. A20Inv'
  BY <1>1 DEF SectorWanted, Command, Enter, load_error, Drive, DiskDone, A20Inv, A20Sent
<1>5. DiskInv'
  BY <1>1 DEF SectorWanted, Command, Enter, load_error, Drive, DiskDone, DiskInv, Types, readVars
<1>6. ReadInv'
  <2>1. pc' = "entry" => ph = Len(image) /\ pa >= end_pa
    BY DEF SectorWanted, Command, Enter, load_error, Drive, DiskDone, ReadInv, Addressed
  <2>2. QED  BY <1>1, <2>1 DEF SectorWanted, Command, Enter, load_error, Drive, DiskDone,
                           ReadInv, readVars, Addressed
<1>7. CpuInv'
  BY <1>1 DEF SectorWanted, Command, Enter, load_error, Drive, DiskDone, CpuInv
<1>8. KernelInv'
  BY <1>1, KernelKept DEF SectorWanted, Command, Enter, load_error, Drive, DiskDone
<1>9. QED  BY <1>2, <1>3, <1>4, <1>5, <1>6, <1>7, <1>8

(* The header is complete, or segment ph is.                                *)
LEMMA NextSegmentStep ==
  ASSUME StartupInv, NextSegment, UNCHANGED a20, UNCHANGED cpuVars
  PROVE  StartupInv'
<1> USE DEF StartupInv, cpuVars
<1> DEFINE k == ph + 1
<1>1. ph \in Nat /\ k \in 1 .. Len(image) /\ ph' = k /\ image \in Images
  BY SomeSegment DEF NextSegment, Readseg, Types
<1>2. image[k] \in Header /\ image[k].pa % SECTSIZE = image[k].off % SECTSIZE
  BY <1>1, SegmentFacts
<1>3. SectorStart(image[k].pa) \in Nat /\ SectorStart(image[k].pa) % SECTSIZE = 0
  BY <1>2, StartOfSector DEF Header
<1>4. /\ pa' = SectorStart(image[k].pa) /\ end_pa' = image[k].pa + image[k].memsz
      /\ offset' = (image[k].off \div SECTSIZE) + 1
      /\ UNCHANGED <<image, magic, a20, mem, pc, disk, kbc, gdtr, space, who>> /\ pc = "loop"
  BY DEF NextSegment, Readseg
<1>5. offset' \in Nat
  BY <1>2, <1>4, Division DEF Header
<1>6. Types'
  <2>1. (image[k].pa + image[k].memsz) \in Nat
    BY <1>2 DEF Header
  <2>2. k \in 0 .. Len(image)
    BY <1>1, SomeSegment
  <2>3. QED  BY <1>1, <1>3, <1>4, <1>5, <2>1, <2>2 DEF Types
<1>7. A20Inv' /\ DiskInv' /\ CpuInv' /\ KernelInv'
  BY <1>4, KernelKept DEF A20Inv, A20Sent, DiskInv, CpuInv
<1>0. LoadedUpTo
  BY <1>4 DEF Loaded, CpuInv
<1>8. ReadInv'
  <2>1. (offset' - 1) * SECTSIZE = SectorStart(image[k].pa) + image[k].off - image[k].pa
    BY <1>2, <1>4, OffsetOfSector DEF Header
  <2>2. k # 0 /\ k > 0
    BY <1>1
  <2> HIDE DEF k
  <2>3. QED  BY <1>1, <1>3, <1>4, <2>1, <2>2 DEF ReadInv, Addressed
<1>9. HeaderUpTo(HeaderAt + HeaderSize)
  <2>1. CASE ph = 0
    <3>1. pa >= HeaderAt + HeaderSize /\ HeaderUpTo(pa)
      BY <1>0, <2>1 DEF NextSegment, ReadInv, LoadedUpTo
    <3>2. SUFFICES ASSUME NEW a \in HeaderAt .. HeaderAt + HeaderSize - 1
                   PROVE  a \in DOMAIN mem /\ mem[a] = a - HeaderAt
      BY LoaderAssumption DEF HeaderUpTo
    <3>3. a \in HeaderAt .. pa - 1
      BY <3>1, LoaderAssumption DEF Types
    <3>4. QED  BY <3>1, <3>3 DEF HeaderUpTo
  <2>2. CASE ph > 0
    BY <1>0, <2>2 DEF LoadedUpTo
  <2>3. QED  BY <1>1, <2>1, <2>2
<1>10. ASSUME NEW s \in 1 .. ph
       PROVE  InPlace(s, image[s].pa + image[s].filesz)
  <2>1. CASE s = ph
    <3>1. image[ph] \in Header /\ image[ph].filesz <= image[ph].memsz
      BY <1>1, SegmentFacts
    <3>2. pa >= image[ph].pa + image[ph].filesz
      BY <1>1, <3>1, <2>1 DEF NextSegment, ReadInv, Types, Header
    <3>3. InPlace(ph, pa) /\ pa \in Nat
      BY <1>0, <1>1, <2>1 DEF LoadedUpTo, Types
    <3>4. \A j \in 0 .. image[ph].filesz - 1 :
            image[ph].pa + j < image[ph].pa + image[ph].filesz => image[ph].pa + j < pa
      BY <3>1, <3>2, <3>3 DEF Header
    <3>5. QED  BY <2>1, <3>3, <3>4 DEF InPlace
  <2>2. CASE s # ph
    BY <1>0, <1>1, <2>2 DEF LoadedUpTo
  <2>3. QED  BY <2>1, <2>2
<1>11. InPlace(k, SectorStart(image[k].pa))
  BY <1>2, <1>3, StartOfSector DEF InPlace, Header
<1>12. Loaded'
  <2>1. k > 0 /\ k - 1 = ph
    BY <1>1
  <2>2. SectorStart(image[k].pa) .. SectorStart(image[k].pa) - 1 = {}
    BY <1>3
  <2> HIDE DEF k
  <2>3. HeaderUpTo(HeaderAt + HeaderSize)'
    BY <1>4, <1>9 DEF HeaderUpTo
  <2>4. \A s \in 1 .. ph' - 1 : InPlace(s, image[s].pa + image[s].filesz)'
    BY <1>1, <1>4, <1>10, <2>1 DEF InPlace
  <2>5. InPlace(ph, pa)'
    BY <1>1, <1>4, <1>11 DEF InPlace
  <2>6. (SectorStart(image[ph].pa) .. pa - 1 \subseteq DOMAIN mem)'
    BY <1>1, <1>4, <2>2
  <2>7. ph' > 0
    BY <1>1, <2>1
  <2>8. QED  BY <2>3, <2>4, <2>5, <2>6, <2>7 DEF Loaded, LoadedUpTo
<1>13. LowKept'
  BY <1>4 DEF LowKept, BootIntact, CpuInv
<1>14. QED  BY <1>6, <1>7, <1>8, <1>12, <1>13

(* A sector is stored at the address readseg computed: below 1 MB line 20   *)
(* does not matter, and above it is on.                                     *)
LEMMA StoredAt ==
  ASSUME StartupInv, Insl
  PROVE  Phys(pa) = pa
<1> USE DEF StartupInv
<1>1. pc = "wait_data" /\ ~disk.busy /\ ph \in Nat /\ pa \in Nat /\ pa < end_pa
  BY SomeSegment DEF Insl, DiskIdle, Types, ReadInv
<1>2. CASE ph = 0
  <2>1. pa < A20Bit /\ A20Bit \in Nat
    BY <1>1, <1>2, LoaderAssumption DEF ReadInv
  <2>2. pa \div A20Bit = 0
    BY <1>1, <2>1
  <2>3. 0 % 2 = 0 /\ A20Bit * 0 = 0
    BY <2>1
  <2>4. QED  BY <1>1, <2>1, <2>2, <2>3 DEF Phys
<1>3. CASE ph > 0
  <2>1. a20
    BY <1>1, <1>3 DEF DiskInv, A20Inv, A20Sent
  <2>2. QED  BY <2>1 DEF Phys
<1>4. QED  BY <1>1, <1>2, <1>3

(* What the sector changes, with base its offset in the file.               *)
LEMMA SectorStored ==
  ASSUME StartupInv, Insl
  PROVE  \E base \in Int :
           /\ base = (offset - 1) * SECTSIZE
           /\ (offset' - 1) * SECTSIZE = base + SECTSIZE
           /\ DOMAIN mem' = DOMAIN mem \cup pa .. pa + SECTSIZE - 1
           /\ \A a \in pa .. pa + SECTSIZE - 1 : mem'[a] = base + (a - pa)
           /\ \A a \in DOMAIN mem : a \notin pa .. pa + SECTSIZE - 1 => mem'[a] = mem[a]
<1> USE DEF StartupInv
<1> DEFINE base == (offset - 1) * SECTSIZE
           sector == pa .. pa + SECTSIZE - 1
<1>1. base \in Int
  BY LoaderAssumption DEF Types
<1>2. (offset' - 1) * SECTSIZE = base + SECTSIZE
  <2>1. offset' - 1 = (offset - 1) + 1 /\ offset - 1 \in Int
    BY DEF Insl, Types
  <2>2. \A x \in Int : (x + 1) * SECTSIZE = x * SECTSIZE + SECTSIZE
    BY LoaderAssumption
  <2>3. QED  BY <2>1, <2>2
<1>3. mem' = [a \in DOMAIN mem \cup sector |-> IF a \in sector THEN base + (a - pa) ELSE mem[a]]
  BY StoredAt DEF Insl, DiskIdle, Stored, SectorByte, DiskInv
<1> HIDE DEF base, sector
<1>4. /\ DOMAIN mem' = DOMAIN mem \cup sector
      /\ \A a \in sector : mem'[a] = base + (a - pa)
      /\ \A a \in DOMAIN mem : a \notin sector => mem'[a] = mem[a]
  BY <1>3
<1>5. QED  BY <1>1, <1>2, <1>4 DEF base, sector

(* While a segment is read.                                                 *)
LEMMA CurrentSegment ==
  ASSUME StartupInv, ph > 0
  PROVE  /\ ph \in 1 .. Len(image) /\ image[ph] \in Header
         /\ SectorStart(image[ph].pa) \in Nat /\ SectorStart(image[ph].pa) <= pa
         /\ A20Bit <= SectorStart(image[ph].pa)
<1>1. ph \in 1 .. Len(image) /\ image \in Images
  BY SomeSegment DEF StartupInv, Types
<1>2. image[ph] \in Header
  BY <1>1, SegmentFacts
<1>3. SectorStart(image[ph].pa) \in Nat
  BY <1>2, StartOfSector DEF Header
<1>4. A20Bit <= SectorStart(image[ph].pa)
  BY <1>1, SegmentsAreHigh
<1>5. SectorStart(image[ph].pa) <= pa
  BY <1>3 DEF StartupInv, ReadInv, Types
<1>6. QED  BY <1>1, <1>2, <1>3, <1>4, <1>5

(* Neither the boot sector nor a byte that is final already is changed.     *)
LEMMA InslStep ==
  ASSUME StartupInv, Insl, UNCHANGED a20, UNCHANGED cpuVars
  PROVE  StartupInv'
<1> USE DEF StartupInv, cpuVars
<1> DEFINE sector == pa .. pa + SECTSIZE - 1
<1>1. PICK base \in Int :
        /\ base = (offset - 1) * SECTSIZE
        /\ (offset' - 1) * SECTSIZE = base + SECTSIZE
        /\ DOMAIN mem' = DOMAIN mem \cup sector
        /\ \A a \in sector : mem'[a] = base + (a - pa)
        /\ \A a \in DOMAIN mem : a \notin sector => mem'[a] = mem[a]
  BY SectorStored
<1>2. /\ pa \in Nat /\ SECTSIZE \in Nat /\ SECTSIZE > 0 /\ ph \in Nat /\ offset \in Nat
      /\ ph = 0 \/ (ph > 0 /\ ph \in 1 .. Len(image))
      /\ image \in Images
  BY SomeSegment, LoaderAssumption DEF Types
<1>3. /\ UNCHANGED <<image, magic, a20, ph, end_pa, disk, kbc, gdtr, space, who>>
      /\ pa' = pa + SECTSIZE /\ offset' = offset + 1 /\ pc = "wait_data" /\ pc' = "loop"
  BY DEF Insl
<1>4. sector \subseteq Nat
  BY <1>2
<1> HIDE DEF sector
<1>5. Types'
  <2>1. pa' \in Nat /\ offset' \in Nat
    BY <1>2, <1>3
  <2>2. DOMAIN mem' \subseteq Nat
    BY <1>1, <1>4 DEF Types
  <2>3. QED  BY <1>3, <2>1, <2>2 DEF Types
<1>6. A20Inv' /\ DiskInv' /\ CpuInv' /\ KernelInv'
  BY <1>3 DEF A20Inv, A20Sent, DiskInv, CpuInv, KernelInv
<1>0. LoadedUpTo /\ space = "physical"
  BY <1>3 DEF Loaded, CpuInv
<1>7. ReadInv'
  <2>1. pa' % SECTSIZE = 0
    BY <1>2, <1>3, NextSector DEF ReadInv
  <2>2. CASE ph = 0
    <3>1. base = pa - HeaderAt /\ pa >= HeaderAt /\ end_pa = HeaderAt + HeaderSize
      BY <1>1, <2>2 DEF ReadInv
    <3>2. base + SECTSIZE = (pa + SECTSIZE) - HeaderAt /\ pa + SECTSIZE >= HeaderAt
      BY <1>2, <3>1, LoaderAssumption
    <3>3. QED  BY <1>1, <1>3, <2>1, <2>2, <3>1, <3>2 DEF ReadInv, Addressed
  <2>3. CASE ph > 0
    <3>1. image[ph] \in Header /\ SectorStart(image[ph].pa) \in Nat
      BY <2>3, CurrentSegment
    <3>2. PICK p \in Nat, o \in Nat, st \in Nat :
            image[ph].pa = p /\ image[ph].off = o /\ SectorStart(image[ph].pa) = st
      BY <3>1 DEF Header
    <3>3. base = pa + o - p /\ pa >= st /\ end_pa = image[ph].pa + image[ph].memsz
      BY <1>1, <2>3, <3>2 DEF ReadInv
    <3>4. base + SECTSIZE = pa + SECTSIZE + o - p /\ pa + SECTSIZE >= st
      BY <1>2, <3>3
    <3>5. SectorStart(image[ph].pa)' = st
      BY <1>3, <3>2 DEF SectorStart
    <3>6. QED  BY <1>1, <1>3, <2>1, <2>3, <3>2, <3>3, <3>4, <3>5 DEF ReadInv, Addressed
  <2>4. QED  BY <1>2, <2>2, <2>3
<1>8. ph = 0 => HeaderUpTo(pa)'
  <2>1. SUFFICES ASSUME ph = 0, NEW a \in HeaderAt .. (pa + SECTSIZE) - 1
                 PROVE  a \in DOMAIN mem' /\ mem'[a] = a - HeaderAt
    BY <1>3 DEF HeaderUpTo
  <2>2. HeaderAt \in Nat /\ base = pa - HeaderAt
    BY <1>1, <2>1, LoaderAssumption DEF ReadInv
  <2>3. CASE a \in sector
    BY <1>1, <1>2, <2>2, <2>3
  <2>4. CASE a \notin sector
    <3>1. a \in HeaderAt .. pa - 1
      BY <1>2, <2>2, <2>4 DEF sector
    <3>2. QED  BY <1>0, <1>1, <2>1, <2>4, <3>1 DEF LoadedUpTo, HeaderUpTo
  <2>5. QED  BY <2>3, <2>4
<1>9. ASSUME ph > 0
      PROVE  HeaderUpTo(HeaderAt + HeaderSize)'
  <2>1. A20Bit <= SectorStart(image[ph].pa) /\ SectorStart(image[ph].pa) \in Nat
    BY <1>9, CurrentSegment
  <2>2. SUFFICES ASSUME NEW a \in HeaderAt .. (HeaderAt + HeaderSize) - 1
                 PROVE  a \in DOMAIN mem' /\ mem'[a] = a - HeaderAt
    BY DEF HeaderUpTo
  <2>3. a < pa
    BY <1>2, <1>9, <2>1, LoaderAssumption DEF ReadInv
  <2>4. a \notin sector
    BY <1>2, <2>3, LoaderAssumption DEF sector
  <2>5. QED  BY <1>0, <1>1, <1>9, <2>4 DEF LoadedUpTo, HeaderUpTo
<1>10. ASSUME ph > 0, NEW s \in 1 .. ph - 1
       PROVE  InPlace(s, image[s].pa + image[s].filesz)'
  <2>1. s \in 1 .. Len(image) /\ ph \in 1 .. Len(image)
    BY <1>2, <1>10, SomeSegment
  <2>2. image[s] \in Header /\ image[ph] \in Header
    BY <1>2, <2>1, SegmentFacts
  <2>3. SUFFICES ASSUME NEW k \in 0 .. image[s].filesz - 1
                 PROVE  /\ image[s].pa + k \in DOMAIN mem'
                        /\ mem'[image[s].pa + k] = image[s].off + k
    BY <1>3 DEF InPlace
  <2> DEFINE b == image[s].pa + k
  <2>4. b \in DOMAIN mem /\ mem[b] = image[s].off + k
    <3>1. image[s].pa + k < image[s].pa + image[s].filesz
      BY <2>2 DEF Header
    <3>2. QED  BY <1>0, <1>10, <3>1 DEF LoadedUpTo, InPlace
  <2>5. CASE b \in sector
    <3>1. /\ SectorStart(image[ph].pa) \in Nat /\ SectorStart(image[ph].pa) <= pa
          /\ base = pa + image[ph].off - image[ph].pa
      BY <1>1, <1>10, CurrentSegment DEF ReadInv
    <3>2. pa <= b
      BY <1>2, <2>2, <2>5 DEF sector, Header
    <3>3. ~(image[s].pa + image[s].filesz <= SectorStart(image[ph].pa))
      BY <1>2, <2>2, <3>1, <3>2 DEF Header
    <3>4. image[s].pa - image[s].off = image[ph].pa - image[ph].off
      BY <1>2, <1>10, <2>1, <3>3, SegmentOrder
    <3>5. mem'[b] = base + (b - pa)
      BY <1>1, <2>5
    <3>6. base + (b - pa) = image[s].off + k
      <4>1. PICK p \in Nat, o \in Nat, q \in Nat, r \in Nat :
              /\ image[s].pa = p /\ image[s].off = o
              /\ image[ph].pa = q /\ image[ph].off = r
        BY <2>2 DEF Header
      <4>2. base = pa + r - q /\ p - o = q - r /\ k \in Int /\ pa \in Int
        BY <1>2, <2>2, <3>1, <3>4, <4>1 DEF Header
      <4>3. base + ((p + k) - pa) = o + k
        BY <4>2
      <4>4. QED  BY <4>1, <4>3
    <3>7. QED  BY <1>1, <2>5, <3>5, <3>6
  <2>6. CASE b \notin sector
    BY <1>1, <2>4, <2>6
  <2>7. QED  BY <2>5, <2>6
<1>11. ASSUME ph > 0
       PROVE  InPlace(ph, pa)'
  <2>1. image[ph] \in Header
    BY <1>11, CurrentSegment
  <2>2. SUFFICES ASSUME NEW k \in 0 .. image[ph].filesz - 1,
                        image[ph].pa + k < pa + SECTSIZE
                 PROVE  /\ image[ph].pa + k \in DOMAIN mem'
                        /\ mem'[image[ph].pa + k] = image[ph].off + k
    BY <1>3 DEF InPlace
  <2> DEFINE b == image[ph].pa + k
  <2>3. CASE b \in sector
    <3>1. base = pa + image[ph].off - image[ph].pa
      BY <1>1, <1>11 DEF ReadInv
    <3>2. base + (b - pa) = image[ph].off + k
      BY <1>2, <2>1, <3>1 DEF Header
    <3>3. QED  BY <1>1, <2>3, <3>2
  <2>4. CASE b \notin sector
    <3>1. b < pa
      BY <1>2, <2>1, <2>2, <2>4 DEF sector, Header
    <3>2. b \in DOMAIN mem /\ mem[b] = image[ph].off + k
      BY <1>0, <1>11, <3>1 DEF LoadedUpTo, InPlace
    <3>3. QED  BY <1>1, <2>4, <3>2
  <2>5. QED  BY <2>3, <2>4
<1>12. ASSUME ph > 0
       PROVE  (SectorStart(image[ph].pa) .. pa - 1 \subseteq DOMAIN mem)'
  <2>1. image[ph] \in Header /\ SectorStart(image[ph].pa) \in Nat
    BY <1>12, CurrentSegment
  <2>2. SUFFICES ASSUME NEW a \in SectorStart(image[ph].pa) .. (pa + SECTSIZE) - 1
                 PROVE  a \in DOMAIN mem \cup sector
    BY <1>1, <1>3 DEF SectorStart
  <2>3. CASE a < pa
    <3>1. a \in SectorStart(image[ph].pa) .. pa - 1
      BY <1>2, <2>1, <2>3
    <3>2. QED  BY <1>0, <1>12, <3>1 DEF LoadedUpTo
  <2>4. CASE a >= pa
    BY <1>2, <2>1, <2>4 DEF sector
  <2>5. QED  BY <1>2, <2>1, <2>3, <2>4
<1>13. Loaded'
  BY <1>2, <1>3, <1>8, <1>9, <1>10, <1>11, <1>12 DEF Loaded, LoadedUpTo
<1>14. LowKept'
  <2>1. SUFFICES ASSUME NEW a \in DOMAIN BootSector
                 PROVE  a \notin sector
    BY <1>0, <1>1, <1>3 DEF LowKept, BootIntact, BootSector
  <2>2. a \in Int /\ a < HeaderAt
    BY LoaderAssumption DEF BootSector
  <2>3. HeaderAt <= pa
    <3>1. CASE ph = 0
      BY <3>1 DEF ReadInv
    <3>2. CASE ph > 0
      <4>1. A20Bit <= SectorStart(image[ph].pa) /\ SectorStart(image[ph].pa) \in Nat
        BY <3>2, CurrentSegment
      <4>2. QED  BY <1>2, <3>2, <4>1, LoaderAssumption DEF ReadInv
    <3>3. QED  BY <1>2, <3>1, <3>2
  <2>4. QED  BY <1>2, <2>2, <2>3, LoaderAssumption DEF sector
<1>15. QED  BY <1>5, <1>6, <1>7, <1>13, <1>14

-----------------------------------------------------------------------------
(* A linked address and the low one are in the 4 MB entry_pgdir maps.       *)
LEMMA MappedAtEntry ==
  ASSUME NEW a \in Nat, a < EntrySize
  PROVE  /\ Readable("entry_pgdir", a) /\ Readable("entry_pgdir", High + a)
         /\ Writable("entry_pgdir", High + a)
         /\ Readable("kern_page_directory", High + a)
<1>1. High \in Nat /\ High > 0 /\ a < High /\ EntrySize \in Nat
  BY StartupAssumption
<1>2. a % High = a
  BY <1>1
<1>3. (High + a) % High = a
  BY <1>1
<1>4. High + a >= High
  BY <1>1
<1>5. QED  BY <1>2, <1>3, <1>4 DEF Readable, Writable

(* At the entry point the whole kernel is loaded.                           *)
LEMMA KernelLoaded ==
  ASSUME StartupInv, pc = "entry"
  PROVE  FileBytesBut({}) /\ Linked /\ HeaderUpTo(HeaderAt + HeaderSize)
<1> USE DEF StartupInv
<1>1. ph = Len(image) /\ ph > 0 /\ pa >= end_pa /\ pa \in Nat
  BY SomeSegment DEF ReadInv, Types, Addressed
<1>0. LoadedUpTo
  BY DEF Loaded, CpuInv
<1>2. image[ph] \in Header /\ image[ph].filesz <= image[ph].memsz
  BY <1>1, CurrentSegment, SegmentFacts DEF Types
<1>3. pa >= image[ph].pa + image[ph].memsz
  BY <1>1 DEF ReadInv
<1>4. ASSUME NEW s \in DOMAIN image, NEW k \in 0 .. image[s].filesz - 1
      PROVE  image[s].pa + k \in DOMAIN mem /\ mem[image[s].pa + k] = image[s].off + k
  <2>1. s \in 1 .. Len(image)
    BY SomeSegment DEF Types
  <2>2. image[s] \in Header
    BY <2>1, SegmentFacts DEF Types
  <2>3. image[s].pa + k < image[s].pa + image[s].filesz
    BY <2>2 DEF Header
  <2>4. CASE s = ph
    <3>1. image[ph].pa + k < pa
      BY <1>1, <1>2, <1>3, <2>3, <2>4 DEF Header
    <3>2. QED  BY <1>0, <1>1, <2>4, <3>1 DEF LoadedUpTo, InPlace
  <2>5. CASE s # ph
    <3>1. s \in 1 .. ph - 1
      BY <1>1, <2>1, <2>5 DEF Types
    <3>2. QED  BY <1>0, <1>1, <2>3, <3>1 DEF LoadedUpTo, InPlace
  <2>6. QED  BY <2>4, <2>5
<1>5. ASSUME NEW a \in Bss
      PROVE  a \in DOMAIN mem
  <2>1. a \in Nat /\ image[ph].pa <= a /\ a < pa
    BY <1>1, <1>2, <1>3 DEF Bss, Data, Header
  <2>2. SectorStart(image[ph].pa) \in Nat /\ SectorStart(image[ph].pa) <= image[ph].pa
    BY <1>2, StartOfSector DEF Header
  <2>3. a \in SectorStart(image[ph].pa) .. pa - 1
    BY <1>1, <1>2, <2>1, <2>2 DEF Header
  <2>4. QED  BY <1>0, <1>1, <2>3 DEF LoadedUpTo
<1>6. Stack \in DOMAIN mem
  <2>1. ph \in DOMAIN image /\ image[ph].filesz > 0
    BY <1>1, SomeSegment, StartupAssumption DEF Types
  <2>2. 0 \in 0 .. image[ph].filesz - 1 /\ image[ph].pa + 0 = Stack
    BY <1>1, <1>2, <2>1 DEF Stack, Data, Header
  <2>3. QED  BY <1>4, <2>1, <2>2
<1>7. FileBytesBut({}) /\ FileBytesBut({Stack})
  BY <1>4 DEF FileBytesBut
<1>8. HeaderUpTo(HeaderAt + HeaderSize)
  BY <1>0, <1>1 DEF LoadedUpTo
<1>9. QED  BY <1>5, <1>6, <1>7, <1>8 DEF Linked

(* Where the kernel is: above the boot sector and the header page, and in   *)
(* the 4 MB entry_pgdir maps.                                               *)
LEMMA KernelPlace ==
  ASSUME StartupInv
  PROVE  /\ Text \in Nat /\ Text < EntrySize
         /\ Stack \in Nat /\ Stack < EntrySize /\ A20Bit <= Stack /\ Stack \notin Bss
         /\ \A a \in Bss : a \in Nat /\ a < EntrySize /\ A20Bit <= a
<1>1. image \in Images
  BY DEF StartupInv, Types
<1>2. /\ Len(image) \in 1 .. Len(image) /\ 1 \in 1 .. Len(image) /\ Data \in Header
      /\ Data.filesz <= Data.memsz /\ A20Bit <= Data.pa
      /\ Data.pa < EntrySize /\ Data.pa + Data.memsz <= EntrySize /\ Data.filesz > 0
  BY <1>1, SomeSegment, SegmentFacts, StartupAssumption DEF Data
<1>3. Text \in Nat /\ Text < EntrySize
  BY <1>1, <1>2, SegmentFacts DEF Text, Header
<1>4. PICK p \in Nat, f \in Nat, m \in Nat :
        /\ Data.pa = p /\ Data.filesz = f /\ Data.memsz = m
        /\ f <= m /\ f > 0 /\ A20Bit <= p /\ p + m <= EntrySize
  BY <1>2 DEF Header
<1>5. Stack = p /\ Bss = p + f .. (p + m) - 1
  BY <1>4 DEF Stack, Bss
<1>6. Stack \in Nat /\ Stack < EntrySize /\ A20Bit <= Stack /\ Stack \notin Bss
  BY <1>2, <1>4, <1>5
<1>7. \A a \in Bss : a \in Nat /\ a < EntrySize /\ A20Bit <= a
  <2>1. A20Bit \in Nat /\ EntrySize \in Nat
    BY LoaderAssumption, StartupAssumption
  <2>2. QED  BY <1>4, <1>5, <2>1
<1>8. QED  BY <1>3, <1>6, <1>7

(* Storing above line 20's bit leaves what the loader needs.                *)
LEMMA LowStays ==
  ASSUME StartupInv, UNCHANGED <<image, space>>, space = "entry_pgdir",
         DOMAIN mem' = DOMAIN mem,
         \A a \in DOMAIN mem : a < A20Bit => mem'[a] = mem[a]
  PROVE  LowKept'
<1>1. \A a \in HeaderAt .. (HeaderAt + HeaderSize) - 1 : a \in Int /\ a < A20Bit
  BY LoaderAssumption
<1>2. \A a \in DOMAIN BootSector : a \in Int /\ a < A20Bit
  BY LoaderAssumption DEF BootSector
<1>3. HeaderUpTo(HeaderAt + HeaderSize)'
  BY <1>1 DEF StartupInv, LowKept, HeaderUpTo
<1>4. (DOMAIN BootSector \subseteq DOMAIN mem /\ BootIntact)'
  BY <1>2 DEF StartupInv, LowKept, BootIntact, BootSector
<1>5. QED  BY <1>3, <1>4 DEF LowKept

(* Paging is switched on, and the first call made.                          *)
LEMMA EntryStep ==
  ASSUME StartupInv, entry
  PROVE  StartupInv'
<1> USE DEF StartupInv, cpuVars
<1>1. /\ UNCHANGED <<image, magic, a20, mem, ph, readVars, disk, kbc, gdtr, who>>
      /\ pc = "entry" /\ pc' = "relocated" /\ space' = "entry_pgdir"
  BY KernelPlace, MappedAtEntry DEF entry, GoOn
<1>2. FileBytesBut({}) /\ Linked /\ HeaderUpTo(HeaderAt + HeaderSize)
  BY <1>1, KernelLoaded
<1>3. Types' /\ A20Inv' /\ DiskInv' /\ ReadInv' /\ CpuInv'
  BY <1>1 DEF Types, A20Inv, A20Sent, DiskInv, ReadInv, CpuInv, readVars, Addressed
<1>4. Loaded' /\ LowKept'
  BY <1>1, <1>2 DEF Loaded, LowKept, BootIntact, HeaderUpTo, CpuInv
<1>5. KernelInv'
  <2>1. UNCHANGED <<Stack, Bss>>
    BY <1>1 DEF Stack, Bss, Data
  <2>2. UNCHANGED FileBytesBut({Stack})
    BY <1>1, <2>1 DEF FileBytesBut
  <2>3. QED  BY <1>1, <1>2, <2>1, <2>2 DEF KernelInv, Linked
<1>6. QED  BY <1>3, <1>4, <1>5

LEMMA RelocatedStep ==
  ASSUME StartupInv, relocated
  PROVE  StartupInv'
<1> USE DEF StartupInv, cpuVars
<1>1. /\ UNCHANGED <<image, magic, a20, ph, readVars, disk, kbc, gdtr, space, who>>
      /\ pc = "relocated" /\ space = "entry_pgdir" /\ mem' = [mem EXCEPT ![Stack] = Used]
  BY DEF relocated, CpuInv
<1>2. pc' = "init_bss"
  BY <1>1, KernelPlace, MappedAtEntry DEF relocated, GoOn
<1>3. DOMAIN mem' = DOMAIN mem /\ \A a \in DOMAIN mem : a # Stack => mem'[a] = mem[a]
  BY <1>1
<1>4. Types' /\ A20Inv' /\ DiskInv' /\ ReadInv' /\ CpuInv' /\ Loaded'
  BY <1>1, <1>2, <1>3 DEF Types, A20Inv, A20Sent, DiskInv, ReadInv, CpuInv, Loaded, readVars,
                          Addressed
<1>5. LowKept'
  <2>1. \A a \in DOMAIN mem : a < A20Bit => a # Stack
    BY KernelPlace, LoaderAssumption DEF Types
  <2>2. QED  BY <1>1, <1>3, <2>1, LowStays
<1>6. KernelInv'
  <2>1. UNCHANGED <<Stack, Bss>>
    BY <1>1 DEF Stack, Bss, Data
  <2>2. Linked
    BY <1>1 DEF KernelInv
  <2>3. FileBytesBut({Stack})'
    BY <1>1, <1>3, <2>1, <2>2 DEF Linked, FileBytesBut
  <2>4. mem'[Stack] = Used
    BY <1>1, <2>2 DEF Linked
  <2>5. QED  BY <1>2, <1>3, <2>1, <2>2, <2>3, <2>4 DEF KernelInv, Linked
<1>7. QED  BY <1>4, <1>5, <1>6

(* The bss is above the last byte of the file and every other segment.      *)
LEMMA InitBssStep ==
  ASSUME StartupInv, init_bss
  PROVE  StartupInv'
<1> USE DEF StartupInv, cpuVars
<1>1. /\ UNCHANGED <<image, magic, a20, ph, readVars, disk, kbc, gdtr, space, who>>
      /\ pc = "init_bss" /\ image \in Images /\ space = "entry_pgdir"
  BY DEF init_bss, Types, CpuInv
<1>2. Linked /\ mem[Stack] = Used
  BY <1>1 DEF KernelInv
<1>3. pc' = "console_init"
  <2>1. \A a \in Bss : Writable(space, High + a)
    BY <1>1, KernelPlace, MappedAtEntry
  <2>2. QED  BY <2>1 DEF init_bss, GoOn
<1>4. /\ DOMAIN mem' = DOMAIN mem
      /\ \A a \in Bss : mem'[a] = Zero
      /\ \A a \in DOMAIN mem \ Bss : mem'[a] = mem[a]
  <2>1. mem' = [a \in DOMAIN mem |-> IF a \in Bss THEN Zero ELSE mem[a]]
    BY DEF init_bss
  <2>2. Bss \subseteq DOMAIN mem
    BY <1>2 DEF Linked
  <2> HIDE DEF Bss
  <2>3. QED  BY <2>1, <2>2
<1>5. Types' /\ A20Inv' /\ DiskInv' /\ ReadInv' /\ CpuInv' /\ Loaded'
  BY <1>1, <1>3, <1>4 DEF Types, A20Inv, A20Sent, DiskInv, ReadInv, CpuInv, Loaded, readVars,
                          Addressed
<1>6. LowKept'
  <2>1. \A a \in DOMAIN mem : a < A20Bit => a \notin Bss
    BY KernelPlace, LoaderAssumption DEF Types
  <2>2. QED  BY <1>1, <1>4, <2>1, LowStays
<1>7. ASSUME NEW s \in DOMAIN image, NEW k \in 0 .. image[s].filesz - 1
      PROVE  image[s].pa + k \notin Bss
  <2> DEFINE last == image[Len(image)]
  <2>1. s \in 1 .. Len(image) /\ Len(image) \in 1 .. Len(image)
    BY <1>1, SomeSegment
  <2>2. image[s] \in Header /\ last \in Header
    BY <1>1, <2>1, SegmentFacts
  <2>3. image[s].pa + image[s].filesz <= last.pa + last.filesz
    <3>1. CASE s = Len(image)
      BY <2>2, <3>1 DEF Header
    <3>2. CASE s # Len(image)
      <4>1. s \in 1 .. Len(image) - 1
        BY <1>1, <2>1, <3>2, SomeSegment
      <4>2. image[s].pa + image[s].filesz <= last.pa
        BY <1>1, <2>1, <4>1, SegmentOrder
      <4>3. QED  BY <2>2, <4>2 DEF Header
    <3>3. QED  BY <3>1, <3>2
  <2>4. Bss = last.pa + last.filesz .. (last.pa + last.memsz) - 1
    BY <2>2 DEF Bss, Data, Header
  <2> HIDE DEF last
  <2>5. QED  BY <2>2, <2>3, <2>4 DEF Header
<1>8. KernelInv'
  <2>1. UNCHANGED <<Stack, Bss>>
    BY <1>1 DEF Stack, Bss, Data
  <2>2. FileBytesBut({Stack})'
    BY <1>1, <1>2, <1>4, <1>7, <2>1 DEF Linked, FileBytesBut
  <2>3. mem'[Stack] = Used
    BY <1>2, <1>4, KernelPlace DEF Linked
  <2>4. QED  BY <1>2, <1>3, <1>4, <2>1, <2>2, <2>3 DEF KernelInv, Linked
<1>9. QED  BY <1>5, <1>6, <1>8

(* The kernel goes on, with its variables and then with all the memory.     *)
LEMMA RunningSteps ==
  ASSUME StartupInv, console_init \/ initialize_memory
  PROVE  StartupInv'
<1> USE DEF StartupInv, cpuVars
<1>1. UNCHANGED <<image, magic, a20, ph, readVars, disk, kbc, gdtr, who>>
  BY DEF console_init, initialize_memory
<1>2. DOMAIN mem' = DOMAIN mem
  BY DEF console_init, initialize_memory
<1>3. VideoAt \in Nat /\ VideoAt < EntrySize
  BY StartupAssumption
<1>4. \/ pc = "console_init" /\ pc' = "initialize_memory" /\ space' = "entry_pgdir"
           /\ UNCHANGED space
      \/ pc = "initialize_memory" /\ pc' = "wait_input" /\ space' = "kern_page_directory"
  <2>1. CASE console_init
    <3>1. space = "entry_pgdir"
      BY <2>1 DEF console_init, CpuInv
    <3>2. QED  BY <1>3, <2>1, <3>1, MappedAtEntry DEF console_init, GoOn
  <2>2. CASE initialize_memory
    BY <2>2, KernelPlace, MappedAtEntry DEF initialize_memory, GoOn
  <2>3. QED  BY <2>1, <2>2
<1>5. Types' /\ A20Inv' /\ DiskInv' /\ ReadInv' /\ CpuInv' /\ Loaded' /\ KernelInv'
  BY <1>1, <1>2, <1>4 DEF Types, A20Inv, A20Sent, DiskInv, ReadInv, CpuInv, Loaded, KernelInv,
                          readVars, Addressed
<1>6. LowKept'
  <2>1. CASE console_init
    <3>1. mem' = [a \in DOMAIN mem |-> IF Data.pa <= a /\ a < Data.pa + Data.memsz
                                       THEN Used ELSE mem[a]]
      BY <2>1 DEF console_init
    <3>2. \A a \in DOMAIN mem : a < A20Bit => ~(Data.pa <= a)
      BY KernelPlace, LoaderAssumption DEF Types, Stack
    <3>3. \A a \in DOMAIN mem : a < A20Bit => mem'[a] = mem[a]
      BY <3>1, <3>2
    <3>4. UNCHANGED space /\ space = "entry_pgdir"
      BY <2>1 DEF console_init, CpuInv
    <3>5. QED  BY <1>1, <1>2, <3>3, <3>4, LowStays
  <2>2. CASE initialize_memory
    BY <2>2 DEF initialize_memory, LowKept
  <2>3. QED  BY <2>1, <2>2
<1>7. QED  BY <1>5, <1>6

(* The functions init leaves out: each faults at once.                      *)
LEMMA UncalledSteps ==
  ASSUME StartupInv, proc_init_percpu \/ init_procs \/ clrscr
  PROVE  StartupInv'
<1> USE DEF StartupInv
<1>1. /\ UNCHANGED <<image, magic, a20, mem, ph, readVars, disk, kbc, space>>
      /\ pc \in {"initialize_memory", "wait_input"}
      /\ who' \in {"proc_init_percpu", "init_procs", "clrscr"}
      /\ gdtr' \in {gdtr, "proc"}
  BY DEF proc_init_percpu, init_procs, clrscr, Uncalled
<1>2. pc' = "fault"
  <2>1. space \in {"entry_pgdir", "kern_page_directory"}
    BY <1>1 DEF CpuInv
  <2>2. CASE proc_init_percpu
    <3>1. 8 \div 8 = 1
      OBVIOUS
    <3>2. ProcGdt[1] = "null"
      BY DEF ProcGdt
    <3>3. ~Loads("proc", 8, "code")
      BY <3>1, <3>2 DEF Loads
    <3>4. QED  BY <2>2, <3>3 DEF proc_init_percpu, Uncalled, GoOn
  <2>3. CASE init_procs
    <3>1. ~Writable(space, 0)
      BY <2>1, StartupAssumption DEF Writable, Readable
    <3>2. QED  BY <2>3, <3>1 DEF init_procs, Uncalled, GoOn
  <2>4. CASE clrscr
    <3>1. ~Writable(space, VideoAt)
      BY <2>1, StartupAssumption DEF Writable, Readable
    <3>2. QED  BY <2>4, <3>1 DEF clrscr, Uncalled, GoOn
  <2>5. QED  BY <2>2, <2>3, <2>4
<1>3. Loaded' /\ LowKept'
  BY <1>1, MemoryKept
<1>4. Types' /\ A20Inv' /\ DiskInv' /\ ReadInv'
  BY <1>1, <1>2 DEF Types, A20Inv, A20Sent, DiskInv, ReadInv, readVars, Addressed
<1>5. KernelInv' /\ CpuInv'
  BY <1>1, <1>2 DEF KernelInv, CpuInv
<1>6. QED  BY <1>3, <1>4, <1>5

LEMMA NextInv == StartupInv /\ [Next]_vars => StartupInv'
<1> SUFFICES ASSUME StartupInv, [Next]_vars PROVE StartupInv'
  OBVIOUS
<1>1. CASE Loader
  BY <1>1, PollSteps, InslStep, NextSegmentStep DEF Loader, kload
<1>2. CASE Drive
  BY <1>2, PollSteps DEF Drive
<1>3. CASE Kernel
  BY <1>3, EntryStep, RelocatedStep, InitBssStep, RunningSteps DEF Kernel
<1>4. CASE UNCHANGED vars
  <2>1. Loaded' /\ LowKept'
    BY <1>4, MemoryKept DEF vars, loaderVars, readVars, cpuVars
  <2>2. KernelInv'
    BY <1>4, KernelKept DEF vars, loaderVars
  <2>3. QED  BY <1>4, <2>1, <2>2 DEF vars, loaderVars, cpuVars, StartupInv, Types, A20Inv, A20Sent,
                           DiskInv, ReadInv, CpuInv
<1>5. QED  BY <1>1, <1>2, <1>3, <1>4, KeyboardSteps, ProtcsegStep, UncalledSteps
           DEF Next, Code

(* The types, and what every phase of the start relies on, for sectors,     *)
(* kernels and memories of any size.                                        *)
THEOREM StartupInvariant == Spec => []StartupInv
  BY InitInv, NextInv, PTL DEF Spec

(* When kload jumps to the entry point every byte of every segment is where *)
(* the linker wants it, although readseg reads whole sectors around it and  *)
(* line 20 may have been off when the machine started.                      *)
THEOREM SegmentsAreInPlace == Spec => []SegmentsInPlace
<1>1. StartupInv => SegmentsInPlace
  BY KernelLoaded DEF SegmentsInPlace
<1>2. QED  BY <1>1, StartupInvariant, PTL

(* No access faults on the way to the monitor, and neither the boot sector  *)
(* nor the header page is overwritten before the kernel takes the low       *)
(* memory; what init leaves out faults when it is called.                   *)
THEOREM StartReachesTheMonitor == Spec => []StartupRuns
<1>1. StartupInv => StartupRuns
  <2> SUFFICES ASSUME StartupInv PROVE StartupRuns
    OBVIOUS
  <2>1. TypeOK
    BY DEF StartupInv, Types, TypeOK, LoaderTypeOK
  <2>2. ASSUME space # "kern_page_directory" PROVE HeaderIntact
    <3>1. space \in {"physical", "entry_pgdir", "kern_page_directory"}
      BY DEF StartupInv, CpuInv
    <3>2. QED  BY <2>2, <3>1, LoaderAssumption
               DEF StartupInv, Loaded, LoadedUpTo, LowKept, HeaderUpTo, HeaderIntact
  <2>3. QED  BY <2>1, <2>2 DEF StartupInv, StartupRuns, LowKept, CpuInv
<1>2. QED  BY <1>1, StartupInvariant, PTL

(* When init_bss returns the bss is clear and every byte below it is what   *)
(* the linker put there, but for the stack in use.                          *)
THEOREM KernelIsAsLinked == Spec => []KernelAsLinked
<1>1. StartupInv => KernelAsLinked
  BY DEF StartupInv, KernelInv, Linked, KernelAsLinked
<1>2. QED  BY <1>1, StartupInvariant, PTL
=============================================================================
