-------------------------------- MODULE Loader --------------------------------
(***************************************************************************)
(* loadElf of src/src/process.js: an executable becomes memory, and a      *)
(* stack to start with.                                                    *)
(*                                                                         *)
(* An executable, as ELFFile reads it, is                                  *)
(*   [type |-> "exec" or "dyn" (others are an Error), entry, phoff,        *)
(*    headers |-> <<[type, offset, vaddr, filesz, memsz, flags], ...>>,    *)
(*    file |-> bytes, interp |-> <<>> or <<its interpreter>>, argv, envp]  *)
(* Arguments are sequences of bytes that are not zero.  Of the auxiliary   *)
(* vector the entries are left out whose value is a constant.              *)
(***************************************************************************)
EXTENDS Words

CONSTANTS
  PageSize,     \* 65536
  Limit,        \* 0x80000000: where the page table ends
  LoadBias,     \* 0x2000000: where "dyn" executables are moved
  InterpBias,   \* 0x10000: where interpreters are moved
  HeapPages, StackPages, ArgPage, VdsoPage,    \* numbers of pages
  StackTop,     \* 0xc000ff0
  ArgBase       \* 0xb000000

(* Pages fill the addresses up to Limit, and the loader's own are apart.   *)
ASSUME LoaderAssumption ==
  /\ PageSize \in Nat \ {0} /\ PageSize % 4 = 0
  /\ Limit \in Nat /\ Limit <= Two[W] /\ Limit % PageSize = 0
  /\ LoadBias \in Nat /\ InterpBias \in Nat
  /\ HeapPages \cup StackPages \cup {ArgPage, VdsoPage} \subseteq 0..(Limit \div PageSize - 1)
  /\ VdsoPage \notin HeapPages \cup StackPages \cup {ArgPage} /\ ArgPage \notin StackPages
  /\ ArgBase = ArgPage * PageSize /\ StackTop \in Word /\ StackTop % 4 = 0

Address == Word
Page == 0..(Limit \div PageSize - 1)
PageOf(a) == a \div PageSize

(* A page has a frame of its own or is the zero page.  Of the vdso page    *)
(* only the zeros are looked at, which are instructions that do nothing.   *)
Blank ==
  [mem |-> [a \in Address |-> 0],
   kind |-> [g \in Page |-> IF g = VdsoPage THEN "own" ELSE "none"],
   flags |-> [g \in Page |-> IF g = VdsoPage THEN {"R", "X"} ELSE {}],
   error |-> FALSE]

-----------------------------------------------------------------------------
(* One byte of a segment.  "elf loader overlap bug": a page that an earlier*)
(* segment made the zero page cannot be written by the loader.  "bad       *)
(* address": nor can what is past the page table, where zeros get no page. *)
FileByte(s, a, byte, prot) ==
  IF s.error \/ PageOf(a) \notin Page \/ s.kind[PageOf(a)] = "zero" THEN [s EXCEPT !.error = TRUE]
  ELSE [s EXCEPT !.mem[a] = byte, !.kind[PageOf(a)] = "own",
                 !.flags[PageOf(a)] = IF s.kind[PageOf(a)] = "none" THEN prot ELSE @]
BssByte(s, a, prot) ==
  IF s.error \/ PageOf(a) \notin Page \/ s.kind[PageOf(a)] # "none" THEN s
  ELSE [s EXCEPT !.kind[PageOf(a)] = "zero", !.flags[PageOf(a)] = prot]

BssSkipped(s, h) == s    \* mutant: no memory after what the file has
Bss(s, h) ==
  LET zeros[b \in 0..h.memsz] ==
        IF b <= h.filesz THEN s ELSE BssByte(zeros[b - 1], h.vaddr + b - 1, h.flags)
  IN zeros[h.memsz]
Copied(s, h, file) ==
  LET bytes[b \in 0..h.filesz] ==
        IF b = 0 THEN s ELSE FileByte(bytes[b - 1], h.vaddr + b - 1, file[h.offset + b], h.flags)
  IN bytes[h.filesz]
LoadSegment(s, h, file) == IF h.type = "load" THEN Bss(Copied(s, h, file), h) ELSE s
Moved(headers, bias) == [i \in DOMAIN headers |-> [headers[i] EXCEPT !.vaddr = @ + bias]]
LoadSegments(s, headers, file) ==
  LET segments[n \in 0..Len(headers)] ==
        IF n = 0 THEN s ELSE LoadSegment(segments[n - 1], headers[n], file)
  IN segments[Len(headers)]

-----------------------------------------------------------------------------
SupportedType(e) == e.type \in {"exec", "dyn"}
Supported(exe) == SupportedType(exe) /\ (exe.interp # <<>> => SupportedType(exe.interp[1]))
Bias(exe) == IF exe.type = "dyn" THEN LoadBias ELSE 0
Headers(exe) == Moved(exe.headers, Bias(exe))
InterpHeaders(exe) == Moved(exe.interp[1].headers, InterpBias)
FirstOf(found) == CHOOSE k \in found : \A l \in found : k <= l
LoadsOf(headers) == {k \in DOMAIN headers : headers[k].type = "load"}
FirstLoad(headers) == headers[FirstOf(LoadsOf(headers))]
BaseOf(h) == h.vaddr - h.offset

(* baseaddr; and interp_baseaddr, which any first header of the            *)
(* interpreter sets, and the next ones while it equals baseaddr: that of   *)
(* the first whose base is another.                                        *)
BaseAddress(exe) == BaseOf(FirstLoad(Headers(exe)))
Rebasing(exe) == {k \in DOMAIN InterpHeaders(exe) : BaseOf(InterpHeaders(exe)[k]) # BaseAddress(exe)}
InterpBase(exe) ==
  IF exe.interp = <<>> \/ Rebasing(exe) = {} THEN BaseAddress(exe)
  ELSE BaseOf(InterpHeaders(exe)[FirstOf(Rebasing(exe))])
EntryPoint(exe) == exe.entry + Bias(exe)
StartAddress(exe) ==
  IF exe.interp = <<>> THEN EntryPoint(exe) ELSE exe.interp[1].entry + InterpBias

Segments(exe) ==
  LET own == LoadSegments(Blank, Headers(exe), exe.file)
  IN IF exe.interp = <<>> THEN own ELSE LoadSegments(own, InterpHeaders(exe), exe.interp[1].file)

(* Heap, stack and arguments get zero pages, whatever was there.           *)
WithZeroPages(s) ==
  LET fresh == HeapPages \cup StackPages \cup {ArgPage}
  IN [s EXCEPT !.mem = [a \in Address |-> IF PageOf(a) \in fresh THEN 0 ELSE @[a]],
               !.kind = [g \in Page |-> IF g \in fresh THEN "zero" ELSE @[g]],
               !.flags = [g \in Page |-> IF g \in fresh THEN {"R", "W"} ELSE @[g]]]

(* Strings are stored one after the other, each with a zero byte.          *)
Strings(exe) == exe.argv \o exe.envp
PointerTo(exe, k) ==
  LET start[n \in 0..Len(Strings(exe))] == IF n = 0 THEN ArgBase ELSE start[n - 1] + Len(Strings(exe)[n]) + 1
  IN start[k - 1]
WithStrings(mem, exe) ==
  LET Holding(a) == {k \in DOMAIN Strings(exe) : PointerTo(exe, k) <= a /\ a <= PointerTo(exe, k) + Len(Strings(exe)[k])}
      ByteAt(a, k) == Append(Strings(exe)[k], 0)[a - PointerTo(exe, k) + 1]
  IN [a \in Address |-> IF Holding(a) = {} THEN mem[a] ELSE ByteAt(a, CHOOSE k \in Holding(a) : TRUE)]

AuxWords(exe) ==    \* AT_PHDR, AT_BASE, AT_ENTRY, AT_NULL
  <<3, BaseAddress(exe) + exe.phoff, 7, InterpBase(exe), 9, EntryPoint(exe), 0, 0>>
FrameSizeBare(exe) == (10 + Len(exe.argv)) * 4       \* mutant: no room for the environment
FrameSize(exe) == (11 + Len(exe.argv) + Len(exe.envp)) * 4
StackPointer(exe) == StackTop - FrameSize(exe)
FrameWords(exe) ==
  <<Len(exe.argv)>> \o [k \in DOMAIN exe.argv |-> PointerTo(exe, k)] \o <<0>>
    \o [k \in DOMAIN exe.envp |-> PointerTo(exe, Len(exe.argv) + k)] \o <<0>> \o AuxWords(exe)

(* What a linker makes: the segments are in the file and, where they are   *)
(* moved to, at addresses of a word.                                       *)
ProgramHeader ==
  [type : STRING, offset : Nat, vaddr : Nat, filesz : Nat, memsz : Nat, flags : SUBSET {"R", "W", "X"}]
WellFormed(e, bias) ==
  /\ e.entry \in Nat /\ e.file \in Seq(Byte) /\ e.headers \in Seq(ProgramHeader)
  /\ LoadsOf(e.headers) # {}
  /\ \A k \in LoadsOf(e.headers) :
       LET h == e.headers[k]
       IN h.filesz <= h.memsz /\ h.offset + h.filesz <= Len(e.file) /\ h.vaddr + bias + h.memsz <= Two[W]
(* Its interpreter, if any, too; what it is started with fits its pages.   *)
Executable(exe) ==
  /\ WellFormed(exe, Bias(exe)) /\ exe.phoff \in Nat
  /\ exe.interp # <<>> => Len(exe.interp) = 1 /\ WellFormed(exe.interp[1], InterpBias)
  /\ exe.argv \in Seq(Seq(Byte \ {0})) /\ exe.envp \in Seq(Seq(Byte \ {0}))
  /\ LET last == Len(Strings(exe))
     IN last > 0 => PointerTo(exe, last) + Len(Strings(exe)[last]) < ArgBase + PageSize
  /\ FrameSize(exe) <= StackTop
  /\ \A a \in StackPointer(exe)..(StackTop - 1) : PageOf(a) \in StackPages

Loaded(exe) ==
  LET s == WithZeroPages(Segments(exe))
  IN [s EXCEPT !.mem = WithWords(WithStrings(@, exe), StackPointer(exe), FrameWords(exe)),
               !.error = @ \/ ~Supported(exe)]
===============================================================================
