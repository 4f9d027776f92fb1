---- MODULE Elf ----
(***************************************************************************)
(* The object file back_end/elf.c and back_end_emit write for the code of  *)
(* CodeGen.  A file is what a sequence of writes into one mapping leaves:  *)
(* a byte has the value of the last write over it.  A byte is a tag that   *)
(* says which byte of which thing it is; every NUL is the same.  Offsets   *)
(* and sizes are parameters, so that small texts reach the limits.         *)
(***************************************************************************)
EXTENDS CodeGen

CONSTANTS ELF_TEXT_OFF,        \* 0x1000, the `off` emit_shdrs starts with
          ELF_SH_OFF,          \* 0x4000
          ELF_SH_SIZE,         \* 0x40
          ELF_INIT_SIZE,       \* 0x8000
          ELF_PHDR_OFF,        \* 0x40, also the size of the file header
          ELF_PHDR_SIZE,       \* 56
          ELF_SYMTAB_ENTSIZE,  \* 24
          SHSTRTAB_SIZE,       \* 40
          NameLen              \* strlen of every function and section name

SectionNames == <<".text", ".strtab", ".shstrtab", ".symtab">>

ASSUME SizesAssumption ==
  /\ {ELF_TEXT_OFF, ELF_SH_OFF, ELF_SH_SIZE, ELF_INIT_SIZE, ELF_PHDR_OFF, ELF_PHDR_SIZE,
      ELF_SYMTAB_ENTSIZE, SHSTRTAB_SIZE} \subseteq Nat
  /\ \A name \in Names \union {"_start", ".text", ".strtab", ".shstrtab", ".symtab"} :
       NameLen[name] \in Nat

ASSUME LayoutAssumption ==
  /\ ELF_PHDR_OFF + ELF_PHDR_SIZE <= ELF_TEXT_OFF
  /\ ELF_TEXT_OFF < ELF_SH_OFF
  /\ ELF_SH_OFF + 5 * ELF_SH_SIZE <= ELF_INIT_SIZE
  /\ 5 + NameLen[".text"] + NameLen[".strtab"] + NameLen[".shstrtab"] + NameLen[".symtab"]
       <= SHSTRTAB_SIZE

Sum(s) == LET f[n \in 0..Len(s)] == IF n = 0 THEN 0 ELSE f[n - 1] + s[n] IN f[Len(s)]

(* VECTOR_GROW: the capacity of a vector after n pushes.                   *)
Capacity(n) ==
  LET c[k \in 0..n] ==
        IF k = 0 THEN 0
        ELSE LET size == c[k - 1]
                 more == size + size \div 2
             IN CASE k - 1 < size -> size
                  [] k - 1 >= size /\ more = 0 -> 2
                  [] OTHER -> more
  IN c[n]

text_count == 4 * Len(text)

calculate_strtab_size == Sum([k \in DOMAIN symtab |-> NameLen[symtab[k].name] + 1])

(* elf_init_section, elf_init_symtab: sizes in the order of SectionNames.  *)
section_sizes ==
  <<text_count, calculate_strtab_size, SHSTRTAB_SIZE, (Len(symtab) + 1) * ELF_SYMTAB_ENTSIZE>>

------------------------------------------------------------------------------
(* emit_shdrs: where sections start, and what their headers say.           *)

section_off(i) == ELF_TEXT_OFF + Sum(SubSeq(section_sizes, 1, i - 1))
shdr_name_ptr(i) == 1 + Sum([k \in 1..(i - 1) |-> NameLen[SectionNames[k]] + 1])

text_off     == section_off(1)
strtab_off   == section_off(2)
shstrtab_off == section_off(3)
symtab_off   == section_off(4)

sym_name(k) == 1 + Sum([j \in 1..(k - 1) |-> NameLen[symtab[j].name] + 1])

------------------------------------------------------------------------------
(* The writes, in the order of elf_init.                                   *)

Write(at, bytes) == [at |-> at, bytes |-> bytes]
Block(what, n, size) == [j \in 1..size |-> <<what, n, j>>]
Nul == <<"nul", 0, 0>>
emit_symbol(name) == Append(Block(name, 0, NameLen[name]), Nul)
Strings(names) ==
  LET f[n \in 0..Len(names)] == IF n = 0 THEN <<Nul>> ELSE f[n - 1] \o emit_symbol(names[n])
  IN f[Len(names)]

emit_shdrs ==
  [i \in 1..5 |-> Write(ELF_SH_OFF + (i - 1) * ELF_SH_SIZE, Block("shdr", i - 1, ELF_SH_SIZE))]

(* The whole capacity of the vector is copied, not only its bytes.         *)
emit_text == <<Write(text_off, Block("text", 0, Capacity(text_count)))>>

emit_shstrtab == <<Write(shstrtab_off, Strings(SectionNames))>>

emit_symtab ==
  <<Write(strtab_off, Strings([k \in DOMAIN symtab |-> symtab[k].name]))>> \o
  [k \in 1..(Len(symtab) + 1) |->
     Write(symtab_off + (k - 1) * ELF_SYMTAB_ENTSIZE, Block("sym", k - 1, ELF_SYMTAB_ENTSIZE))]

emit_phdrs == <<Write(ELF_PHDR_OFF, Block("phdr", 0, ELF_PHDR_SIZE))>>
emit_fhdr == emit_phdrs \o <<Write(0, Block("fhdr", 0, ELF_PHDR_OFF))>>

(* Mutant: the text is copied last, over the tables behind it.             *)
elf_init_TextLast == emit_shdrs \o emit_shstrtab \o emit_symtab \o emit_fhdr \o emit_text
elf_init == emit_shdrs \o emit_text \o emit_shstrtab \o emit_symtab \o emit_fhdr

Byte(writes, a) ==
  LET over == {w \in DOMAIN writes : a \in writes[w].at..(writes[w].at + Len(writes[w].bytes) - 1)}
      lst  == CHOOSE w \in over : \A v \in over : v <= w
  IN IF over = {} THEN Nul ELSE writes[lst].bytes[a - writes[lst].at + 1]

------------------------------------------------------------------------------
(* Properties.                                                             *)

Reads(writes, at, bytes) == \A j \in DOMAIN bytes : Byte(writes, at + j - 1) = bytes[j]

(* What must end before the section headers: the copied text and all the   *)
(* sections.  Nothing in the code tests it.                                *)
Fits == /\ text_off + Capacity(text_count) <= ELF_SH_OFF
        /\ symtab_off + section_sizes[4] <= ELF_SH_OFF

(* If it fits, a reader that follows the headers finds what was generated: *)
(* the headers themselves, the text, the names of sections, and every      *)
(* symbol with its name, although writes overlap at their edges.           *)
ImageReadable ==
  Emitted /\ Fits =>
    LET W == elf_init IN
    /\ Reads(W, 0, Block("fhdr", 0, ELF_PHDR_OFF))
    /\ Reads(W, ELF_PHDR_OFF, Block("phdr", 0, ELF_PHDR_SIZE))
    /\ \A i \in 0..4 : Reads(W, ELF_SH_OFF + i * ELF_SH_SIZE, Block("shdr", i, ELF_SH_SIZE))
    /\ Reads(W, text_off, Block("text", 0, text_count))
    /\ \A i \in 1..4 : Reads(W, shstrtab_off + shdr_name_ptr(i), emit_symbol(SectionNames[i]))
    /\ \A k \in DOMAIN symtab :
         /\ Reads(W, symtab_off + k * ELF_SYMTAB_ENTSIZE, Block("sym", k, ELF_SYMTAB_ENTSIZE))
         /\ Reads(W, strtab_off + sym_name(k), emit_symbol(symtab[k].name))
====
