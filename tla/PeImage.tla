------------------------------- MODULE PeImage -------------------------------
(***************************************************************************)
(* siglus_iat_patcher/src/pe_patch.rs as a function on executables: what   *)
(* the patcher reads from a PE image, and the image add_hook_import makes. *)
(* An image keeps the numbers that place things in the file and in memory. *)
(* Of its bytes only the import tables are kept, by their place in the     *)
(* file, as the names of the DLLs in them.  All numbers are below 2^31:    *)
(* the u32 arithmetic of the code is not carried to its limit.             *)
(*                                                                         *)
(*   sections     [name, address, virtual, rawSize, raw], in table order   *)
(*   tableEnd     where the section table ends in the file                 *)
(*   headers      SizeOfHeaders                                            *)
(*   fileAlign, sectionAlign, pointer (4 or 8)                             *)
(*   directory, directorySize   the import directory: address and size     *)
(*   imageSize    SizeOfImage                                              *)
(*   length       the bytes in the file                                    *)
(*   tables       import tables, [offset, names]                           *)
(***************************************************************************)
EXTENDS Integers, Sequences

HookDll == "siglus_hook.dll"
HookSection == ".sighook"
HookDllLength == 15
HookImportLength == 20
DescriptorSize == 20
SectionHeaderSize == 40

Outside == -1   \* an address outside all sections

Larger(m, n) == IF m > n THEN m ELSE n

\* align_u32, align_usize
Align(value, alignment) ==
    IF value = 0 THEN 0 ELSE ((value + alignment - 1) \div alignment) * alignment

\* What a section takes in memory, as the code counts it.
Span(s) == Larger(s.virtual, s.rawSize)

\* The largest of a set of numbers, or a default when there is none.
LargestOr(S, default) ==
    IF S = {} THEN default ELSE CHOOSE m \in S : \A n \in S : n <= m
SmallestOr(S, default) ==
    IF S = {} THEN default ELSE CHOOSE m \in S : \A n \in S : m <= n

Indices(img) == DOMAIN img.sections

Apart(start, size, start2, size2) == start + size <= start2 \/ start2 + size2 <= start

------------------------------------------------------------------------------

\* rva_to_offset: through the first section that spans the address.
RvaToOffset(img, rva) ==
    LET holding == {i \in Indices(img) :
                      /\ img.sections[i].address <= rva
                      /\ rva < img.sections[i].address + Span(img.sections[i])}
    IN  IF holding # {}
          THEN LET s == img.sections[SmallestOr(holding, 0)]
               IN  rva - s.address + s.raw
        ELSE IF rva < img.headers THEN rva
        ELSE Outside

\* import_descriptors with the names read through it: none when the table
\* does not end in the file and within the size its directory gives.
ImportTables(img) ==
    IF img.directory = 0 THEN {<<>>}
    ELSE LET offset == RvaToOffset(img, img.directory)
         IN  {names \in {t.names : t \in {u \in img.tables : u.offset = offset}} :
                /\ offset + (Len(names) + 1) * DescriptorSize <= img.length
                /\ \/ img.directorySize = 0
                   \/ Len(names) * DescriptorSize <= img.directorySize}

Readable(img) == ImportTables(img) # {}

ImportNames(img) == CHOOSE names \in ImportTables(img) : TRUE

Imports(img, dll) == \E i \in DOMAIN ImportNames(img) : ImportNames(img)[i] = dll

HasSection(img, name) == \E i \in Indices(img) : img.sections[i].name = name

SectionSet == [name : STRING \union {HookSection}, address : Nat, virtual : Nat,
               rawSize : Nat, raw : Nat]
TableSet == [offset : Nat, names : Seq(STRING)]

\* An executable as a linker makes it: sections that are apart in memory and
\* in the file, and no part of it behind its end.
WellFormed(img) ==
    /\ img = [sections |-> img.sections, tableEnd |-> img.tableEnd, headers |-> img.headers,
              fileAlign |-> img.fileAlign, sectionAlign |-> img.sectionAlign,
              pointer |-> img.pointer, directory |-> img.directory,
              directorySize |-> img.directorySize, imageSize |-> img.imageSize,
              length |-> img.length, tables |-> img.tables]
    /\ img.sections \in Seq(SectionSet) /\ img.tables \subseteq TableSet
    /\ {img.tableEnd, img.headers, img.length, img.directory, img.directorySize}
         \subseteq Nat
    /\ {img.fileAlign, img.sectionAlign} \subseteq Nat \ {0}
    /\ img.pointer \in {4, 8} /\ img.sectionAlign % img.pointer = 0
    /\ img.headers <= img.length
    /\ \A t \in img.tables : t.offset < img.length
    /\ img.sections # <<>> /\ ~HasSection(img, HookSection)
    /\ \A i, j \in Indices(img) :
          LET s == img.sections[i]
              t == img.sections[j]
          IN  /\ s.address > 0 /\ s.raw + s.rawSize <= img.length
              /\ i # j => /\ Apart(s.address, Span(s), t.address, Span(t))
                          /\ Apart(s.raw, s.rawSize, t.raw, t.rawSize)

\* MUTANT compares the name as it is spelled in the table.
IsPatchedAsSpelled(img) == Imports(img, "Siglus_Hook.dll")
\* PatchStatus.patched, of an image that can be read
IsPatched(img) == Imports(img, HookDll) \/ HasSection(img, HookSection)

------------------------------------------------------------------------------

\* Where the pieces of the new section lie in it: the old descriptors, the
\* new one and the null one, the two address tables, and the two names.
Pieces(count, pointer) ==
    LET ilt    == Align((count + 2) * DescriptorSize, pointer)
        iat    == ilt + 2 * pointer
        byName == Align(iat + 2 * pointer, 2)
        dll    == byName + 2 + HookImportLength + 1
    IN  [descriptors |-> (count + 2) * DescriptorSize, ilt |-> ilt, iat |-> iat,
         byName |-> byName, dll |-> dll, end |-> dll + HookDllLength + 1]

\* MUTANT takes the end of the memory the sections ask for only.
NextSectionAddressVirtual(img) ==
    Align(LargestOr({img.sections[i].address + img.sections[i].virtual :
                       i \in Indices(img)}, 0),
          img.sectionAlign)
\* next_section_virtual_address
NextSectionAddress(img) ==
    Align(LargestOr({img.sections[i].address + Span(img.sections[i]) :
                       i \in Indices(img)}, 0),
          img.sectionAlign)

\* Where the data of the sections begin in the file.
FirstRaw(img) ==
    SmallestOr({img.sections[i].raw : i \in Indices(img)} \ {0}, img.headers)

\* MUTANT asks for the beginning of the header only.
HasHeaderRoomLess(img) == img.tableEnd < FirstRaw(img)
\* The header of one more section fits in front of the data.
HasHeaderRoom(img) == img.tableEnd + SectionHeaderSize <= FirstRaw(img)

NewSection(img) ==
    LET pieces == Pieces(Len(ImportNames(img)), img.pointer)
    IN  [name    |-> HookSection,
         address |-> NextSectionAddress(img),
         virtual |-> pieces.end,
         rawSize |-> Align(pieces.end, img.fileAlign),
         raw     |-> Align(img.length, img.fileAlign)]

\* add_hook_import, for an image that is not patched and has room
AddHookImport(img) ==
    LET s == NewSection(img)
        names == Append(ImportNames(img), HookDll)
    IN  [img EXCEPT
          !.sections = Append(@, s),
          !.tableEnd = @ + SectionHeaderSize,
          !.length = s.raw + s.rawSize,
          !.imageSize = Align(s.address + s.virtual, img.sectionAlign),
          !.directory = s.address,
          !.directorySize = (Len(names) + 1) * DescriptorSize,
          !.tables = @ \union {[offset |-> s.raw, names |-> names]}]

==============================================================================
