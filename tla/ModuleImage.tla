----------------------------- MODULE ModuleImage ----------------------------
(***************************************************************************)
(* What load_object() of src/src/module/loader.rs makes of an object file  *)
(* once its pages are allocated: the sections are placed one after the     *)
(* other, then every relocation patches an instruction or a word, through  *)
(* the kernel's symbol table (module/symbol.rs) for external symbols and   *)
(* through a PLT stub for calls too far away.  Headers come one at a time. *)
(*                                                                         *)
(* Addresses count instructions.  Fields of instructions are scaled down:  *)
(* LO is 2^12 in the code, HI is 2^20, the reach of a call is REACH, that  *)
(* of a conditional branch and of a jump SHORT, that of ADRP PAGES.        *)
(***************************************************************************)
EXTENDS Integers, Sequences, FiniteSets

CONSTANTS
  Base, PltBase,  \* the first page and the page of the PLT
  Sizes, Aligns,  \* of sections
  MaxSections, MaxRelocations,
  MAX_PLT_ENTRIES,
  LO, HI, REACH, SHORT, PAGES,
  KernelSymbols, TestSymbols, \* names
  Address         \* name -> address

ASSUME ImageAssumption ==
  /\ Base \in Nat /\ PltBase \in Nat
  /\ Sizes \subseteq Nat /\ Aligns \subseteq Nat
  /\ MaxSections \in Nat /\ MAX_PLT_ENTRIES \in Nat
  /\ {LO, HI, REACH, SHORT, PAGES} \subseteq Nat \ {0}
  /\ Address \in [KernelSymbols \union TestSymbols -> Nat]

\* The PLT is the last page that load_object() allocates: it is assumed to lie
\* within the reach of a call, 128 MB, of every section.
ASSUME PltInReach ==
  /\ PltBase + MAX_PLT_ENTRIES - Base <= REACH
  /\ \A size \in Sizes, align \in Aligns :
       Base + MaxSections * (size + align) - PltBase <= REACH

VARIABLES
  arch,           \* "aarch64" or "riscv64"
  phase,          \* "sections", "relocations", "failed" or "done"
  sections,       \* the sections so far: alloc, size, align and their address
  current_offset, \* of load_sections()
  total,          \* of section_memory_size()
  plt,            \* the targets of the stubs, in order
  patched,        \* the places patched so far, with what was asked for; unpaired:
                  \* no high part of a pair had been patched at the target
  symbols,        \* SYMBOLS: a set of names, {} when None
  initialized     \* INITIALIZED

imageVars == <<arch, phase, sections, current_offset, total, plt, patched, symbols, initialized>>

ImageInit ==
  /\ arch \in {"aarch64", "riscv64"}
  /\ phase = "sections"
  /\ sections = <<>>
  /\ current_offset = 0 /\ total = 0
  /\ plt = <<>>
  /\ patched = {}
  /\ symbols = {} /\ initialized = FALSE

-----------------------------------------------------------------------------
(* Sections *)

RoundUp(n, align) == IF align = 0 THEN n ELSE ((n + align - 1) \div align) * align

\* section_memory_size(): the size is added, then the sum is aligned.
section_memory_size(sum, sh) == RoundUp(sum + sh.size, sh.align)

load_section_Unaligned(alloc, size, align) ==
  /\ phase = "sections" /\ Len(sections) < MaxSections
  /\ sections' = Append(sections, [alloc |-> alloc, size |-> size, align |-> align,
                                   addr |-> IF alloc THEN Base + current_offset ELSE 0])
  /\ current_offset' = IF alloc THEN current_offset + size ELSE current_offset
  /\ total' = IF alloc THEN section_memory_size(total, [size |-> size, align |-> align])
              ELSE total
  /\ UNCHANGED <<arch, phase, plt, patched, symbols, initialized>>

\* load_sections(): the offset is aligned, then the section is put there; one
\* that is not ALLOC has address 0.
load_section(alloc, size, align) ==
  /\ phase = "sections" /\ Len(sections) < MaxSections
  /\ LET at == RoundUp(current_offset, align)
     IN  /\ sections' = Append(sections, [alloc |-> alloc, size |-> size, align |-> align,
                                          addr |-> IF alloc THEN Base + at ELSE 0])
         /\ current_offset' = IF alloc THEN at + size ELSE current_offset
  /\ total' = IF alloc THEN section_memory_size(total, [size |-> size, align |-> align])
              ELSE total
  /\ UNCHANGED <<arch, phase, plt, patched, symbols, initialized>>

StartRelocations ==
  /\ phase = "sections" /\ phase' = "relocations"
  /\ UNCHANGED <<arch, sections, current_offset, total, plt, patched, symbols, initialized>>

-----------------------------------------------------------------------------
(* The symbol table *)

\* init(), by another thread: the flag is set first, the table after it, and
\* the symbols for the test modules last.
OtherInit ==
  /\ \/ ~initialized /\ initialized' = TRUE /\ UNCHANGED symbols
     \/ /\ initialized
        /\ symbols' = IF symbols = {} THEN KernelSymbols ELSE KernelSymbols \union TestSymbols
        /\ symbols' # symbols
        /\ UNCHANGED initialized
  /\ UNCHANGED <<arch, phase, sections, current_offset, total, plt, patched>>

\* lookup_symbol() runs init() itself if nobody has.
SymbolsSeen == IF initialized THEN symbols ELSE KernelSymbols \union TestSymbols

-----------------------------------------------------------------------------
(* Relocations *)

Signed(field, m) == ((field + m \div 2) % m) - m \div 2
PageOf(a) == a \div LO

\* The PLT stub for a target: an old one, or a new one if there is room.
get_or_create(target) ==
  LET old == {i \in DOMAIN plt : plt[i] = target}
  IN  IF old # {} THEN [ok |-> TRUE, plt |-> plt, at |-> PltBase + (CHOOSE i \in old : TRUE) - 1]
      ELSE IF Len(plt) >= MAX_PLT_ENTRIES THEN [ok |-> FALSE, plt |-> plt, at |-> 0]
      ELSE [ok |-> TRUE, plt |-> Append(plt, target), at |-> PltBase + Len(plt)]

\* The pair of fields of auipc or lui and the instruction after it.
Split(offset) == [hi |-> ((offset + LO \div 2) \div LO) % HI, lo |-> offset % LO]

\* Fields, or one value, or a failure.
Fields(imm) == [ok |-> TRUE, imm |-> imm, plt |-> plt]
Field(value) == Fields([hi |-> value, lo |-> 0])
Failure == [ok |-> FALSE, imm |-> [hi |-> 0, lo |-> 0], plt |-> plt]

apply_relocation_aarch64_NoCheck(type, p, target) ==
  CASE type = "ABS64" -> Field(target)
    [] type = "PREL" -> Field(target - p)
    [] type = "CALL26" -> Field((target - p) % (2 * REACH))
    [] type = "ADRP" -> Field((PageOf(target) - PageOf(p)) % (2 * PAGES))
    [] type = "ADD_LO12" -> Field(target % LO)

apply_relocation_aarch64(type, p, target) ==
  CASE type = "ABS64" -> Field(target)
    [] type = "PREL" -> Field(target - p)
    [] type = "CALL26" ->
         IF target - p \in -REACH .. REACH - 1 THEN Field((target - p) % (2 * REACH))
         ELSE LET stub == get_or_create(target)
              IN  [Field((stub.at - p) % (2 * REACH)) EXCEPT !.ok = stub.ok, !.plt = stub.plt]
    [] type = "ADRP" ->
         LET offset == PageOf(target) - PageOf(p)
         IN  IF offset \in -PAGES .. PAGES - 1 THEN Field(offset % (2 * PAGES)) ELSE Failure
    [] type = "ADD_LO12" -> Field(target % LO)

\* The offsets of RISC-V calls that need no stub.
DirectCall(offset) == offset \in -((HI \div 2) * LO) .. (HI \div 2) * LO - 1

\* The low part of a PC-relative pair takes the offset of its high part, found
\* by its address; the symbol's own value when there is none.
HighPart(p) == {r \in patched : r.type = "PCREL_HI20" /\ r.p = p}

apply_relocation_riscv(type, p, target) ==
  CASE type = "64" -> Field(target)
    [] type = "BRANCH" -> IF target - p \in -SHORT .. SHORT - 1
                          THEN Field((target - p) % (2 * SHORT)) ELSE Failure
    [] type = "PCREL_HI20" -> Fields(Split(target - p))
    [] type = "PCREL_LO12" ->
         Fields([hi |-> 0, lo |-> IF HighPart(target) = {} THEN 0
                                  ELSE (CHOOSE r \in HighPart(target) : TRUE).imm.lo])
    [] type = "CALL" ->
         IF DirectCall(target - p) THEN Fields(Split(target - p))
         ELSE LET stub == get_or_create(target)
              IN  [Fields(Split(stub.at - p)) EXCEPT !.ok = stub.ok, !.plt = stub.plt]

\* One type of each form.  The 32-bit words, JUMP26, LDST64 and JAL are patched
\* as the ones here of their form, and an absolute HI20 and LO12 as a pair at 0.
Types == IF arch = "aarch64" THEN {"ABS64", "PREL", "CALL26", "ADRP", "ADD_LO12"}
         ELSE {"64", "BRANCH", "PCREL_HI20", "PCREL_LO12", "CALL"}

\* One relocation of a loaded section: an external symbol that is not found, a
\* value out of range and a full PLT fail the load.
Patch(type, p, target) ==
  LET result == IF arch = "aarch64" THEN apply_relocation_aarch64(type, p, target)
                ELSE apply_relocation_riscv(type, p, target)
  IN  IF result.ok
      THEN /\ patched' = patched \union {[type |-> type, p |-> p, target |-> target,
                                          imm |-> result.imm,
                                          unpaired |-> HighPart(target) = {}]}
           /\ plt' = result.plt
           /\ UNCHANGED phase
      ELSE phase' = "failed" /\ UNCHANGED <<plt, patched>>

Places == {sections[i].addr + k : i \in {j \in DOMAIN sections : sections[j].alloc},
                                  k \in 0 .. 1}
Unpatched == {p \in Places : /\ \E i \in DOMAIN sections : /\ sections[i].alloc
                                                      /\ p \in sections[i].addr ..
                                                               sections[i].addr + sections[i].size - 1
                        /\ \A r \in patched : r.p # p}

RelocateExternal(type, p, name) ==
  /\ phase = "relocations" /\ type # "PCREL_LO12"
  /\ IF name \in SymbolsSeen THEN Patch(type, p, Address[name])
     ELSE phase' = "failed" /\ UNCHANGED <<plt, patched>>
  /\ initialized' = TRUE
  /\ symbols' = SymbolsSeen
  /\ UNCHANGED <<arch, sections, current_offset, total>>

\* A symbol of the module: a place in a loaded section.
RelocateLocal(type, p, target) ==
  /\ phase = "relocations"
  /\ Patch(type, p, target)
  /\ UNCHANGED <<arch, sections, current_offset, total, symbols, initialized>>

Finish ==
  /\ phase = "relocations" /\ phase' = "done"
  /\ UNCHANGED <<arch, sections, current_offset, total, plt, patched, symbols, initialized>>

ImageNext ==
  \/ \E alloc \in BOOLEAN, size \in Sizes, align \in Aligns : load_section(alloc, size, align)
  \/ StartRelocations
  \/ OtherInit
  \/ /\ Cardinality(patched) < MaxRelocations
     /\ \E type \in Types, p \in Unpatched :
          \/ \E name \in KernelSymbols \union TestSymbols : RelocateExternal(type, p, name)
          \/ \E target \in Places : RelocateLocal(type, p, target)
  \/ Finish

ImageSpec == ImageInit /\ [][ImageNext]_imageVars

-----------------------------------------------------------------------------
(* Properties *)

Loaded == {i \in DOMAIN sections : sections[i].alloc}

\* The loaded sections are aligned and do not overlap, whatever sections stand
\* between them.
SectionsPlaced ==
  \A i \in Loaded :
    /\ sections[i].align > 0 => (sections[i].addr - Base) % sections[i].align = 0
    /\ \A j \in Loaded : i < j => sections[i].addr + sections[i].size <= sections[j].addr

\* Where a patched branch or call goes, or the value that a word or a pair of
\* instructions gives, as the CPU decodes it.
Decoded(r) ==
  CASE r.type \in {"ABS64", "64", "ADD_LO12"} -> r.imm.hi
    [] r.type = "PREL" -> r.p + r.imm.hi
    [] r.type = "CALL26" -> r.p + Signed(r.imm.hi, 2 * REACH)
    [] r.type = "BRANCH" -> r.p + Signed(r.imm.hi, 2 * SHORT)
    [] r.type = "ADRP" -> PageOf(r.p) + Signed(r.imm.hi, 2 * PAGES)
    [] r.type \in {"PCREL_HI20", "CALL"} ->
         r.p + Signed(r.imm.hi, HI) * LO + Signed(r.imm.lo, LO)
    [] r.type = "PCREL_LO12" -> r.imm.lo

Wanted(r) ==
  CASE r.type = "ADRP" -> PageOf(r.target)
    [] r.type = "ADD_LO12" -> r.target % LO
    [] r.type = "PCREL_LO12" /\ ~r.unpaired ->
         ((CHOOSE h \in HighPart(r.target) : TRUE).target - r.target) % LO
    [] OTHER -> r.target

\* An AArch64 stub goes to its target.
ThroughPlt(r, a) ==
  a - PltBase + 1 \in DOMAIN plt /\ plt[a - PltBase + 1] = r.target

\* The offsets that auipc and the instruction after it can express.
PairReach(offset) == offset \in -((HI \div 2) * LO) - LO \div 2 .. (HI \div 2) * LO - LO \div 2 - 1

\* Every instruction that the loader patched reaches what its relocation asks
\* for, directly or through a stub, in every order of the relocations and
\* however many share a stub; what is out of reach fails the load.  (On RISC-V
\* this is for targets that a pair of instructions can express and that need no
\* stub, and for the low part of a pair whose high part came first.)
RelocationsReach ==
  \A r \in patched :
    \/ Decoded(r) = Wanted(r)
    \/ r.type = "CALL26" /\ ThroughPlt(r, Decoded(r))
    \/ r.type \in {"PCREL_HI20", "CALL"} /\ ~PairReach(r.target - r.p)
    \/ r.type = "CALL" /\ ~DirectCall(r.target - r.p)
    \/ r.type = "PCREL_LO12" /\ r.unpaired

\* "전체 메모리 요구량 계산 (섹션 기준, relocatable용)" (module/elf.rs): the
\* memory that load_object() allocates holds all sections.
SizeSuffices == current_offset <= total

\* "초기화 확인" (module/symbol.rs): a relocation against a symbol of the kernel
\* finds it, also when another thread is initialising the table.
KnownSymbolsFound == initialized => KernelSymbols \subseteq symbols
=============================================================================
