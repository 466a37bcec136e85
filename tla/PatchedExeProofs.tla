--------------------------- MODULE PatchedExeProofs ---------------------------
(***************************************************************************)
(* The executable the user installed survives the patcher, and what the    *)
(* patcher makes of it is well laid out, for any well-formed images and    *)
(* updates and whatever fails.                                             *)
(***************************************************************************)
EXTENDS PatchedExe, FiniteSetTheorems, TLAPS

\* Why GameKept holds.  Without a backup the executable has not been touched;
\* a backup that is not being copied is the installed executable, unless its
\* copy was cut off or the game was updated; and the executable is opened for
\* writing only behind a backup.
KeptInv ==
    /\ unfit => Exists(backup)
    /\ ~Exists(backup) => exe = Whole(installed)
    /\ ~unfit /\ Exists(backup) /\ pc # "copying" => backup = Whole(installed)
    /\ pc = "copying" => Exists(backup) /\ exe = Whole(installed) /\ ~unfit
    /\ pc = "copy" => ~Exists(backup)
    /\ pc \in {"add", "writing", "writingtorn", "restoring"} => Exists(backup)

\* A whole file exists; tearing a file or taking another image keeps it so.
LEMMA Files ==
    /\ \A img : Exists(Whole(img)) /\ Exists(Torn(Whole(img)))
    /\ ~Exists(NoFile)
BY DEF Exists, Whole, Torn, NoFile

\* The tool starts without a backup.
LEMMA InitKept == Init => KeptInv
BY Files DEF Init, KeptInv

\* No step loses the installed executable.
LEMMA NextKept == KeptInv /\ [Next]_vars => KeptInv'
<1> SUFFICES ASSUME KeptInv, [Next]_vars PROVE KeptInv'
  OBVIOUS
<1>1. CASE Patch
  BY <1>1 DEF Patch, Go, BackupStep, KeptInv
<1>2. CASE BeginBackup
  BY <1>2, Files DEF BeginBackup, Go, KeptInv
<1>3. CASE EndBackup
  BY <1>3, Files DEF EndBackup, Go, KeptInv
<1>4. CASE BeginWrite
  BY <1>4 DEF BeginWrite, Go, KeptInv
<1>5. CASE NoRoom
  BY <1>5 DEF NoRoom, Go, KeptInv
<1>6. CASE EndWrite
  BY <1>6 DEF EndWrite, Go, KeptInv
<1>7. CASE Unpatch
  BY <1>7 DEF Unpatch, Go, KeptInv
<1>8. CASE EndRestore
  BY <1>8 DEF EndRestore, Go, KeptInv
<1>9. CASE CopyFails
  <2>1. CASE pc = "copying" /\ backup' \in {backup, NoFile} /\ UNCHANGED exe
    BY <1>9, <2>1, Files DEF CopyFails, Go, KeptInv
  <2>2. CASE pc = "restoring" /\ exe' \in {exe, NoFile} /\ UNCHANGED backup
    BY <1>9, <2>2 DEF CopyFails, Go, KeptInv
  <2>3. CASE pc \in {"copy", "add", "writing", "writingtorn"} /\ UNCHANGED <<exe, backup>>
    BY <1>9, <2>3 DEF CopyFails, Go, KeptInv
  <2> QED
    BY <1>9, <2>1, <2>2, <2>3 DEF CopyFails
<1>10. CASE Crash
  BY <1>10 DEF Crash, Go, KeptInv
<1>11. CASE Update
  BY <1>11 DEF Update, KeptInv
<1>12. CASE ReplaceDll
  BY <1>12 DEF ReplaceDll, KeptInv
<1>13. CASE UNCHANGED vars
  BY <1>13 DEF vars, KeptInv
<1> QED
  BY <1>1, <1>2, <1>3, <1>4, <1>5, <1>6, <1>7, <1>8, <1>9, <1>10, <1>11, <1>12,
     <1>13 DEF Next, Tool

\* Unless the backup's copy was cut off or the game was updated over it, the
\* executable the user installed is in its place or in the backup, at every
\* moment of patch and unpatch and after any failure.
THEOREM GameKeptHolds == Spec => []GameKept
<1>1. KeptInv => GameKept
  BY DEF KeptInv, GameKept
<1> QED
  BY InitKept, NextKept, <1>1, PTL DEF Spec

------------------------------------------------------------------------------

\* Of finitely many numbers there is a least one ...
LEMMA LeastIndex ==
    ASSUME NEW I, IsFiniteSet(I), I # {}, NEW v \in [I -> Int]
    PROVE  \E i \in I : \A j \in I : v[i] <= v[j]
<1> DEFINE Below(i) == {j \in I : v[j] < v[i]}
           T == {Below(i) : i \in I}
           R == StrictSubsetOrdering(I)
<1>1. IsWellFoundedOn(R, SUBSET I)
  BY FS_StrictSubsetOrderingWellFounded, FS_FiniteSubsetsOfFinite
<1>2. T \subseteq SUBSET I /\ T # {}
  OBVIOUS
<1>3. \E x \in T : \A y \in T : ~(<<y, x>> \in R)
  <2> HIDE DEF R, T
  <2> QED
    BY <1>1, <1>2, WFMin, Zenon
<1>4. PICK i \in I : \A j \in I : ~(<<Below(j), Below(i)>> \in R)
  BY <1>3
<1>5. ASSUME NEW j \in I, v[j] < v[i] PROVE FALSE
  <2>1. Below(j) \subseteq Below(i)
    BY <1>5
  <2>2. j \in Below(i) /\ j \notin Below(j)
    BY <1>5
  <2>3. <<Below(j), Below(i)>> \in R
    BY <2>1, <2>2 DEF StrictSubsetOrdering
  <2> QED
    BY <1>4, <2>3
<1> QED
  BY <1>5

\* ... and a greatest one.
LEMMA GreatestIndex ==
    ASSUME NEW I, IsFiniteSet(I), I # {}, NEW v \in [I -> Int]
    PROVE  \E i \in I : \A j \in I : v[j] <= v[i]
<1> DEFINE w == [i \in I |-> 0 - v[i]]
<1>1. w \in [I -> Int]
  OBVIOUS
<1>2. PICK i \in I : \A j \in I : w[i] <= w[j]
  <2> HIDE DEF w
  <2> QED
    BY <1>1, LeastIndex
<1> QED
  BY <1>2

\* An aligned number is not smaller ...
LEMMA AlignUp ==
    ASSUME NEW v \in Nat, NEW a \in Nat \ {0}
    PROVE  Align(v, a) \in Nat /\ v <= Align(v, a)
<1>1. CASE v = 0
  BY <1>1 DEF Align
<1>2. CASE v # 0
  <2> DEFINE q == (v + a - 1) \div a
             r == (v + a - 1) % a
  <2>1. /\ q \in Int /\ r \in 0..(a - 1)
        /\ v + a - 1 = a * q + r
    OBVIOUS
  <2> HIDE DEF q, r
  <2>2. a * q >= v /\ a * q = q * a
    BY <2>1
  <2> QED
    BY <1>2, <2>1, <2>2 DEF Align, q
<1> QED
  BY <1>1, <1>2

\* ... and is a multiple of what the alignment is one of.
LEMMA AlignMultiple ==
    ASSUME NEW v \in Nat, NEW a \in Nat \ {0}, NEW p \in {2, 4, 8}, a % p = 0
    PROVE  Align(v, a) % p = 0
<1>1. CASE v = 0
  BY <1>1 DEF Align
<1>2. CASE v # 0
  <2> DEFINE q == (v + a - 1) \div a
             b == a \div p
  <2>1. q \in Int /\ b \in Int /\ a = b * p
    OBVIOUS
  <2> HIDE DEF q, b
  <2>2. q * a = (q * b) * p /\ q * b \in Int
    BY <2>1
  <2>3. \A x \in Int : (x * p) % p = 0
    OBVIOUS
  <2> QED
    BY <1>2, <2>2, <2>3 DEF Align, q
<1> QED
  BY <1>1, <1>2


\* The tables and the names follow each other, aligned, whatever is imported.
LEMMA PiecesLaid ==
    ASSUME NEW count \in Nat, NEW pointer \in {4, 8}
    PROVE  LET p == Pieces(count, pointer)
           IN  /\ p.descriptors \in Nat /\ p.descriptors <= p.end
               /\ p.dll \in Nat /\ p.end \in Nat /\ p.end > 0
               /\ p.descriptors <= p.ilt /\ p.ilt % pointer = 0 /\ p.iat % pointer = 0
               /\ p.descriptors = (count + 2) * DescriptorSize
               /\ p.ilt \in Nat /\ p.iat \in Nat
               /\ p.ilt + 2 * pointer <= p.iat
               /\ p.iat + 2 * pointer <= p.byName
               /\ p.byName + 2 + HookImportLength < p.dll
               /\ p.dll + HookDllLength < p.end
<1> DEFINE d == (count + 2) * DescriptorSize
           ilt == Align(d, pointer)
           iat == ilt + 2 * pointer
           byName == Align(iat + 2 * pointer, 2)
           lib == byName + 2 + HookImportLength + 1
<1>1. d \in Nat
  BY DEF DescriptorSize
<1>2. ilt \in Nat /\ d <= ilt /\ ilt % pointer = 0
  <2> HIDE DEF d
  <2>1. pointer % pointer = 0 /\ pointer \in Nat \ {0}
    OBVIOUS
  <2> QED
    BY <1>1, <2>1, AlignUp, AlignMultiple
<1>3. iat \in Nat /\ iat % pointer = 0
  <2> HIDE DEF ilt
  <2> QED
    BY <1>2
<1>4. byName \in Nat /\ iat + 2 * pointer <= byName
  <2> HIDE DEF iat
  <2> QED
    BY <1>3, AlignUp
<1>5. Pieces(count, pointer) = [descriptors |-> d, ilt |-> ilt, iat |-> iat, byName |-> byName,
                                dll |-> lib, end |-> lib + HookDllLength + 1]
  BY DEF Pieces
<1> HIDE DEF d, ilt, iat, byName
<1> QED
  BY <1>1, <1>2, <1>3, <1>4, <1>5 DEF HookImportLength, HookDllLength, d, iat

\* The section table is a finite sequence.
LEMMA SectionsFinite ==
    ASSUME NEW img, img.sections \in Seq(SectionSet)
    PROVE  /\ Indices(img) = 1..Len(img.sections) /\ Len(img.sections) \in Nat
           /\ IsFiniteSet(Indices(img))
           /\ \A i \in Indices(img) : img.sections[i] \in SectionSet
<1>1. Indices(img) = 1..Len(img.sections) /\ Len(img.sections) \in Nat
  BY DEF Indices
<1>2. IsFiniteSet(1..Len(img.sections))
  BY <1>1, FS_Interval
<1> QED
  BY <1>1, <1>2 DEF Indices

\* What a section counts are numbers.
LEMMA SectionNumbers ==
    ASSUME NEW s \in SectionSet
    PROVE  /\ s.address \in Nat /\ s.virtual \in Nat /\ s.rawSize \in Nat /\ s.raw \in Nat
           /\ Span(s) \in Nat /\ s.virtual <= Span(s) /\ s.rawSize <= Span(s)
BY DEF SectionSet, Span, Larger

\* The new section begins behind all others in memory.
LEMMA NextBehind ==
    ASSUME NEW img, WellFormed(img)
    PROVE  /\ NextSectionAddress(img) \in Nat
           /\ NextSectionAddress(img) % img.pointer = 0
           /\ \A i \in Indices(img) :
                 img.sections[i].address + Span(img.sections[i]) <= NextSectionAddress(img)
<1> DEFINE End(i) == img.sections[i].address + Span(img.sections[i])
           Ends == {End(i) : i \in Indices(img)}
           top == LargestOr(Ends, 0)
<1>1. /\ img.sectionAlign \in Nat \ {0} /\ img.sectionAlign % img.pointer = 0
      /\ img.pointer \in {2, 4, 8}
  BY DEF WellFormed
<1>2. \A i \in Indices(img) : End(i) \in Nat
  <2>1. \A i \in Indices(img) : img.sections[i] \in SectionSet
    BY SectionsFinite DEF WellFormed
  <2>2. \A i \in Indices(img) : img.sections[i].address \in Nat /\ Span(img.sections[i]) \in Nat
    BY <2>1, SectionNumbers DEF SectionSet
  <2> QED
    BY <2>2
<1>3. top \in Nat /\ \A i \in Indices(img) : End(i) <= top
  <2>1. CASE Indices(img) = {}
    BY <2>1 DEF LargestOr
  <2>2. CASE Indices(img) # {}
    <3> DEFINE v == [i \in Indices(img) |-> End(i)]
    <3>1. v \in [Indices(img) -> Int]
      BY <1>2
    <3>2. IsFiniteSet(Indices(img))
      BY SectionsFinite DEF WellFormed
    <3>3. \E i \in Indices(img) : \A j \in Indices(img) : v[j] <= v[i]
      <4> HIDE DEF v
      <4> QED
        BY <2>2, <3>1, <3>2, GreatestIndex
    <3>4. \E m \in Ends : \A n \in Ends : n <= m
      BY <3>3
    <3>5. top = CHOOSE m \in Ends : \A n \in Ends : n <= m
      BY <2>2 DEF LargestOr
    <3>6. top \in Ends /\ \A n \in Ends : n <= top
      <4> HIDE DEF Ends, top
      <4> QED
        BY <3>4, <3>5
    <3> QED
      BY <1>2, <3>6
  <2> QED
    BY <2>1, <2>2
<1>4. NextSectionAddress(img) = Align(top, img.sectionAlign)
  BY DEF NextSectionAddress
<1> HIDE DEF top
<1>5. NextSectionAddress(img) \in Nat /\ top <= NextSectionAddress(img)
  BY <1>1, <1>3, <1>4, AlignUp
<1>6. NextSectionAddress(img) % img.pointer = 0
  BY <1>1, <1>3, <1>4, AlignMultiple
<1> QED
  BY <1>2, <1>3, <1>5, <1>6

\* Where the data begin there are data, or the headers end.
LEMMA FirstRawIs ==
    ASSUME NEW img, img.sections \in Seq(SectionSet), img.headers \in Nat
    PROVE  /\ FirstRaw(img) \in Nat
           /\ \A i \in Indices(img) :
                 img.sections[i].raw # 0 => FirstRaw(img) <= img.sections[i].raw
           /\ \/ /\ FirstRaw(img) = img.headers
                 /\ \A i \in Indices(img) : img.sections[i].raw = 0
              \/ /\ FirstRaw(img) # 0
                 /\ \E i \in Indices(img) : FirstRaw(img) = img.sections[i].raw
<1> DEFINE Raws == {img.sections[i].raw : i \in Indices(img)} \ {0}
           I == {i \in Indices(img) : img.sections[i].raw # 0}
<1>1. \A i \in Indices(img) : img.sections[i].raw \in Nat
  BY SectionsFinite DEF SectionSet
<1>2. FirstRaw(img) = SmallestOr(Raws, img.headers)
  BY DEF FirstRaw
<1>3. CASE I = {}
  <2>1. Raws = {}
    BY <1>3
  <2> QED
    BY <1>2, <1>3, <2>1 DEF SmallestOr
<1>4. CASE I # {}
  <2> DEFINE v == [i \in I |-> img.sections[i].raw]
  <2>1. v \in [I -> Int]
    BY <1>1
  <2>2. IsFiniteSet(I)
    BY SectionsFinite, FS_Subset
  <2>3. \E i \in I : \A j \in I : v[i] <= v[j]
    <3> HIDE DEF v, I
    <3> QED
      BY <1>4, <2>1, <2>2, LeastIndex
  <2>4. \E m \in Raws : \A n \in Raws : m <= n
    BY <2>3
  <2>5. FirstRaw(img) = CHOOSE m \in Raws : \A n \in Raws : m <= n
    BY <1>2, <2>4 DEF SmallestOr
  <2>6. FirstRaw(img) \in Raws /\ \A n \in Raws : FirstRaw(img) <= n
    <3> HIDE DEF Raws
    <3> QED
      BY <2>4, <2>5
  <2> QED
    BY <1>1, <2>6
<1> QED
  BY <1>3, <1>4

\* The names that an image imports.
LEMMA NamesRead ==
    ASSUME NEW img, WellFormed(img), Readable(img)
    PROVE  ImportNames(img) \in Seq(STRING)
<1>1. ImportNames(img) \in ImportTables(img)
  BY DEF Readable, ImportNames
<1>2. \A u \in img.tables : u.names \in Seq(STRING)
  BY DEF WellFormed, TableSet
<1>3. ImportTables(img) \subseteq Seq(STRING)
  <2>1. CASE img.directory = 0
    BY <2>1 DEF ImportTables
  <2>2. CASE img.directory # 0
    BY <1>2, <2>2 DEF ImportTables
  <2> QED
    BY <2>1, <2>2
<1> QED
  BY <1>1, <1>3

\* What add_hook_import makes of an image.
LEMMA HookAdded ==
    ASSUME NEW img, WellFormed(img), Readable(img)
    PROVE  LET s   == NewSection(img)
               new == AddHookImport(img)
               p   == Pieces(Len(ImportNames(img)), img.pointer)
           IN  /\ s \in SectionSet /\ s.name = HookSection
               /\ s.virtual = p.end /\ s.virtual <= s.rawSize /\ s.virtual > 0
               /\ s.address = NextSectionAddress(img) /\ img.length <= s.raw
               /\ new.sections = Append(img.sections, s)
               /\ new.tableEnd = img.tableEnd + SectionHeaderSize
               /\ new.headers = img.headers /\ new.pointer = img.pointer
               /\ new.length = s.raw + s.rawSize
               /\ new.imageSize \in Nat /\ s.address + s.virtual <= new.imageSize
               /\ new.directory = s.address
               /\ new.directorySize = (Len(ImportNames(img)) + 2) * DescriptorSize
               /\ new.tables = img.tables \union
                    {[offset |-> s.raw, names |-> Append(ImportNames(img), HookDll)]}
<1> DEFINE s == NewSection(img)
           new == AddHookImport(img)
           p == Pieces(Len(ImportNames(img)), img.pointer)
           names == Append(ImportNames(img), HookDll)
<1>1. ImportNames(img) \in Seq(STRING) /\ Len(ImportNames(img)) \in Nat
  BY NamesRead
<1>2. p.end \in Nat /\ p.end > 0
  BY <1>1, PiecesLaid DEF WellFormed
<1>3. /\ img.fileAlign \in Nat \ {0} /\ img.sectionAlign \in Nat \ {0} /\ img.length \in Nat
      /\ img.tableEnd \in Nat
  BY DEF WellFormed
<1>4. s = [name |-> HookSection, address |-> NextSectionAddress(img), virtual |-> p.end,
           rawSize |-> Align(p.end, img.fileAlign), raw |-> Align(img.length, img.fileAlign)]
  BY DEF NewSection
<1>5. /\ Align(p.end, img.fileAlign) \in Nat /\ p.end <= Align(p.end, img.fileAlign)
      /\ Align(img.length, img.fileAlign) \in Nat /\ img.length <= Align(img.length, img.fileAlign)
  <2> HIDE DEF p
  <2> QED
    BY <1>2, <1>3, AlignUp
<1>6. NextSectionAddress(img) \in Nat
  BY NextBehind
<1> HIDE DEF p, s
<1>7. s \in SectionSet /\ s.name = HookSection
  <2>1. HookSection \in (STRING \union {HookSection})
    OBVIOUS
  <2> QED
    BY <1>2, <1>4, <1>5, <1>6, <2>1 DEF SectionSet
<1>8. /\ s.virtual = p.end /\ s.virtual <= s.rawSize /\ s.address = NextSectionAddress(img)
      /\ img.length <= s.raw
  BY <1>4, <1>5
<1>9. new = [sections |-> Append(img.sections, s), tableEnd |-> img.tableEnd + SectionHeaderSize,
             headers |-> img.headers, fileAlign |-> img.fileAlign,
             sectionAlign |-> img.sectionAlign, pointer |-> img.pointer,
             directory |-> s.address, directorySize |-> (Len(names) + 1) * DescriptorSize,
             imageSize |-> Align(s.address + s.virtual, img.sectionAlign),
             length |-> s.raw + s.rawSize,
             tables |-> img.tables \union {[offset |-> s.raw, names |-> names]}]
  <2> DEFINE record == [sections |-> img.sections, tableEnd |-> img.tableEnd,
              headers |-> img.headers,
              fileAlign |-> img.fileAlign, sectionAlign |-> img.sectionAlign,
              pointer |-> img.pointer, directory |-> img.directory,
              directorySize |-> img.directorySize, imageSize |-> img.imageSize,
              length |-> img.length, tables |-> img.tables]
  <2>1. img = record
    BY DEF WellFormed
  <2>2. new = [img EXCEPT
          !.sections = Append(img.sections, s),
          !.tableEnd = img.tableEnd + SectionHeaderSize,
          !.length = s.raw + s.rawSize,
          !.imageSize = Align(s.address + s.virtual, img.sectionAlign),
          !.directory = s.address,
          !.directorySize = (Len(names) + 1) * DescriptorSize,
          !.tables = img.tables \union {[offset |-> s.raw, names |-> names]}]
    BY DEF AddHookImport, s
  <2> HIDE DEF new, names
  <2> QED
    BY <2>1, <2>2
<1>10. /\ Align(s.address + s.virtual, img.sectionAlign) \in Nat
       /\ s.address + s.virtual <= Align(s.address + s.virtual, img.sectionAlign)
  BY <1>2, <1>3, <1>6, <1>8, AlignUp
<1>11. Len(names) + 1 = Len(ImportNames(img)) + 2
  BY <1>1
<1> HIDE DEF new, names
<1>12. /\ s \in SectionSet /\ s.name = HookSection
       /\ s.virtual = p.end /\ s.virtual <= s.rawSize /\ s.virtual > 0
       /\ s.address = NextSectionAddress(img) /\ img.length <= s.raw
  BY <1>2, <1>7, <1>8
<1>13. /\ new.sections = Append(img.sections, s)
       /\ new.tableEnd = img.tableEnd + SectionHeaderSize
       /\ new.headers = img.headers /\ new.pointer = img.pointer
       /\ new.length = s.raw + s.rawSize
       /\ new.imageSize \in Nat /\ s.address + s.virtual <= new.imageSize
       /\ new.directory = s.address
       /\ new.directorySize = (Len(ImportNames(img)) + 2) * DescriptorSize
       /\ new.tables = img.tables \union {[offset |-> s.raw, names |-> names]}
  BY <1>9, <1>10, <1>11
<1> QED
  BY <1>12, <1>13 DEF s, new, p, names

\* The patched image is well placed when the image was well formed.
LEMMA PlacedWell ==
    ASSUME NEW img, WellFormed(img), Readable(img), HasHeaderRoom(img)
    PROVE  WellPlaced(AddHookImport(img))
<1> DEFINE s == NewSection(img)
           new == AddHookImport(img)
           n == Len(img.sections)
<1> HIDE DEF s, new
<1>1. /\ img.sections \in Seq(SectionSet) /\ n \in Nat /\ Indices(img) = 1..n
      /\ \A i \in 1..n : img.sections[i] \in SectionSet
      /\ img.tableEnd \in Nat /\ img.headers \in Nat /\ img.length \in Nat
      /\ img.headers <= img.length
  BY SectionsFinite DEF WellFormed
<1>2. /\ s \in SectionSet /\ s.virtual <= s.rawSize /\ s.virtual > 0
      /\ s.address = NextSectionAddress(img) /\ img.length <= s.raw
      /\ new.sections = Append(img.sections, s)
      /\ new.tableEnd = img.tableEnd + 40 /\ new.headers = img.headers
      /\ new.length = s.raw + s.rawSize
      /\ new.imageSize \in Nat /\ s.address + s.virtual <= new.imageSize
  BY HookAdded DEF s, new, SectionHeaderSize
<1>3. /\ new.sections \in Seq(SectionSet) /\ Len(new.sections) = n + 1
      /\ Indices(new) = 1..(n + 1)
      /\ \A i \in 1..n : new.sections[i] = img.sections[i]
      /\ new.sections[n + 1] = s
  BY <1>1, <1>2 DEF Indices
<1>4. \A i \in 1..n : /\ img.sections[i].address + Span(img.sections[i]) <= s.address
                      /\ img.sections[i].raw + img.sections[i].rawSize <= s.raw
                      /\ img.sections[i].raw + img.sections[i].rawSize <= img.length
  <2>1. \A i \in 1..n : img.sections[i].address + Span(img.sections[i]) <= s.address
    BY <1>1, <1>2, NextBehind
  <2>2. \A i \in 1..n : img.sections[i].raw + img.sections[i].rawSize <= img.length
    BY <1>1 DEF WellFormed
  <2>3. \A i \in 1..n : img.sections[i].raw \in Nat /\ img.sections[i].rawSize \in Nat
    BY <1>1, SectionNumbers
  <2>4. s.raw \in Nat
    BY <1>2, SectionNumbers
  <2>5. img.length \in Nat /\ img.length <= s.raw
    BY <1>1, <1>2
  <2>6. ASSUME NEW i \in 1..n PROVE img.sections[i].raw + img.sections[i].rawSize <= s.raw
    <3>1. img.sections[i].raw \in Nat /\ img.sections[i].rawSize \in Nat
      BY <2>3
    <3>2. img.sections[i].raw + img.sections[i].rawSize <= img.length
      BY <2>2
    <3> QED
      BY <2>4, <2>5, <3>1, <3>2
  <2> QED
    BY <2>1, <2>2, <2>6
<1>5. new.tableEnd <= FirstRaw(new)
  <2>1. /\ FirstRaw(img) \in Nat /\ img.tableEnd + 40 <= FirstRaw(img)
        /\ \A i \in 1..n : img.sections[i].raw # 0 => FirstRaw(img) <= img.sections[i].raw
        /\ \/ FirstRaw(img) = img.headers
           \/ \E i \in 1..n : FirstRaw(img) = img.sections[i].raw
    BY <1>1, FirstRawIs DEF HasHeaderRoom, SectionHeaderSize
  <2>2. FirstRaw(img) <= s.raw /\ s.raw \in Nat /\ s.raw # 0
    <3>1. s.raw \in Nat /\ \A i \in 1..n : img.sections[i].raw \in Nat
                                           /\ img.sections[i].rawSize \in Nat
      BY <1>1, <1>2, SectionNumbers
    <3>2. CASE FirstRaw(img) = img.headers
      BY <1>1, <1>2, <2>1, <3>1, <3>2
    <3>3. CASE \E i \in 1..n : FirstRaw(img) = img.sections[i].raw
      <4>1. PICK i \in 1..n : FirstRaw(img) = img.sections[i].raw
        BY <3>3
      <4>2. img.sections[i].raw + img.sections[i].rawSize <= s.raw
        BY <1>4
      <4> QED
        BY <1>1, <2>1, <3>1, <4>1, <4>2
    <3> QED
      BY <2>1, <3>2, <3>3
  <2>3. \/ FirstRaw(new) = img.headers /\ \A i \in 1..(n + 1) : new.sections[i].raw = 0
        \/ FirstRaw(new) # 0 /\ \E i \in 1..(n + 1) : FirstRaw(new) = new.sections[i].raw
    BY <1>1, <1>2, <1>3, FirstRawIs
  <2>4. PICK i \in 1..(n + 1) : FirstRaw(new) = new.sections[i].raw
    BY <1>1, <1>3, <2>2, <2>3
  <2>5. FirstRaw(new) # 0
    BY <1>1, <1>3, <2>2, <2>3
  <2>6. FirstRaw(img) <= FirstRaw(new)
    BY <1>1, <1>3, <2>1, <2>2, <2>4, <2>5
  <2>7. FirstRaw(new) \in Nat
    BY <1>1, <1>2, <1>3, FirstRawIs
  <2> QED
    BY <1>1, <1>2, <2>1, <2>6, <2>7
<1>6. \A i \in 1..(n + 1) : /\ new.sections[i].address + new.sections[i].virtual <= new.imageSize
                            /\ new.sections[i].raw + new.sections[i].rawSize <= new.length
  <2>1. ASSUME NEW i \in 1..n
        PROVE  /\ img.sections[i].address + img.sections[i].virtual <= new.imageSize
               /\ img.sections[i].raw + img.sections[i].rawSize <= new.length
    <3> DEFINE q == img.sections[i]
               start == q.address
               virtual == q.virtual
               span == Span(q)
               data == q.raw + q.rawSize
               newStart == s.address
               newVirtual == s.virtual
               newData == s.raw
               newSize == s.rawSize
    <3>1. /\ start \in Nat /\ virtual \in Nat /\ span \in Nat /\ virtual <= span
          /\ data \in Nat
      BY <1>1, SectionNumbers
    <3>2. /\ newStart \in Nat /\ newVirtual \in Nat /\ newData \in Nat /\ newSize \in Nat
      BY <1>2, SectionNumbers
    <3>3. start + span <= newStart /\ data <= newData
      BY <1>4
    <3>4. /\ newStart + newVirtual <= new.imageSize /\ new.imageSize \in Nat
          /\ new.length = newData + newSize
      BY <1>2
    <3>5. start + virtual <= new.imageSize /\ data <= new.length
      <4> HIDE DEF start, virtual, span, data, newStart, newVirtual, newData, newSize
      <4> QED
        BY <3>1, <3>2, <3>3, <3>4
    <3> QED
      BY <3>5
  <2>2. s.address + s.virtual <= new.imageSize /\ s.raw + s.rawSize <= new.length
    BY <1>2, SectionNumbers
  <2> QED
    BY <1>1, <1>3, <2>1, <2>2
<1>7. ASSUME NEW i \in 1..(n + 1), NEW j \in 1..(n + 1), i # j
      PROVE  LET a == new.sections[i]
                 b == new.sections[j]
             IN  /\ Apart(a.address, Span(a), b.address, Span(b))
                 /\ Apart(a.raw, a.rawSize, b.raw, b.rawSize)
  <2>1. CASE i \in 1..n /\ j \in 1..n
    BY <1>1, <1>3, <1>7, <2>1 DEF WellFormed
  <2>2. CASE i = n + 1
    <3>1. j \in 1..n
      BY <1>1, <1>7, <2>2
    <3> QED
      BY <1>3, <1>4, <2>2, <3>1 DEF Apart
  <2>3. CASE j = n + 1
    <3>1. i \in 1..n
      BY <1>1, <1>7, <2>3
    <3> QED
      BY <1>3, <1>4, <2>3, <3>1 DEF Apart
  <2> QED
    BY <1>1, <2>1, <2>2, <2>3
<1>8. WellPlaced(new)
  BY <1>3, <1>5, <1>6, <1>7 DEF WellPlaced
<1> QED
  BY <1>8 DEF new

\* The pieces of the new section are well laid out in memory, too.
LEMMA PiecedWell ==
    ASSUME NEW img, WellFormed(img), Readable(img)
    PROVE  WellPieced(AddHookImport(img))
<1> DEFINE s == NewSection(img)
           new == AddHookImport(img)
           count == Len(ImportNames(img))
           p == Pieces(count, img.pointer)
<1> HIDE DEF s, new, p
<1>1. img.sections \in Seq(SectionSet) /\ img.pointer \in {4, 8}
  BY DEF WellFormed
<1>2. count \in Nat
  BY NamesRead
<1>3. /\ s \in SectionSet /\ s.virtual = p.end /\ s.virtual <= s.rawSize
      /\ s.address = NextSectionAddress(img)
      /\ new.sections = Append(img.sections, s) /\ new.pointer = img.pointer
      /\ new.directorySize = (count + 2) * 20
  BY HookAdded DEF s, new, p, DescriptorSize
<1>4. new.directorySize \div DescriptorSize - 2 = count
  <2> HIDE DEF count
  <2> QED
    BY <1>2, <1>3 DEF DescriptorSize
<1>5. new.sections[Len(new.sections)] = s
  BY <1>1, <1>3
<1>6. /\ p.end \in Nat /\ p.dll \in Nat /\ p.descriptors <= p.ilt
      /\ p.ilt \in Nat /\ p.iat \in Nat
      /\ p.ilt % img.pointer = 0 /\ p.iat % img.pointer = 0
      /\ p.ilt + 2 * img.pointer <= p.iat
      /\ p.iat + 2 * img.pointer <= p.byName
      /\ p.byName + 2 + HookImportLength < p.dll
      /\ p.dll + HookDllLength < p.end
  BY <1>1, <1>2, PiecesLaid DEF p
<1>7. s.address \in Nat /\ s.address % img.pointer = 0
  BY <1>3, NextBehind
<1>8. (s.address + p.ilt) % img.pointer = 0 /\ (s.address + p.iat) % img.pointer = 0
  <2> DEFINE a == s.address
             ilt == p.ilt
             iat == p.iat
             pointer == img.pointer
  <2>1. /\ a \in Nat /\ a % pointer = 0 /\ pointer \in {4, 8}
        /\ ilt \in Nat /\ ilt % pointer = 0 /\ iat \in Nat /\ iat % pointer = 0
    BY <1>1, <1>6, <1>7
  <2> HIDE DEF a, ilt, iat, pointer
  <2>2. (a + ilt) % pointer = 0 /\ (a + iat) % pointer = 0
    BY <2>1
  <2> QED
    BY <2>2 DEF a, ilt, iat, pointer
<1>9. p.dll + HookDllLength < s.rawSize
  <2> DEFINE lib == p.dll
             end == p.end
             size == s.rawSize
  <2>1. /\ lib \in Nat /\ end \in Nat /\ size \in Nat
        /\ lib + HookDllLength < end /\ end <= size
    BY <1>3, <1>6, SectionNumbers
  <2> HIDE DEF lib, end, size
  <2>2. lib + HookDllLength < size
    BY <2>1 DEF HookDllLength
  <2> QED
    BY <2>2 DEF lib, size
<1>10. WellPieced(new)
  BY <1>3, <1>4, <1>5, <1>6, <1>8, <1>9 DEF WellPieced, p
<1> QED
  BY <1>10 DEF new

\* The loader finds the new table through the directory, and no other.
LEMMA HookImported ==
    ASSUME NEW img, WellFormed(img), Readable(img)
    PROVE  ImportTables(AddHookImport(img)) = {Append(ImportNames(img), HookDll)}
<1> DEFINE s == NewSection(img)
           new == AddHookImport(img)
           n == Len(img.sections)
           names == ImportNames(img)
           all == Append(names, HookDll)
           p == Pieces(Len(names), img.pointer)
<1> HIDE DEF s, new, p
<1>1. /\ img.sections \in Seq(SectionSet) /\ n \in Nat /\ n > 0 /\ Indices(img) = 1..n
      /\ \A i \in 1..n : img.sections[i] \in SectionSet /\ img.sections[i].address > 0
      /\ img.length \in Nat /\ img.tables \subseteq TableSet
      /\ \A t \in img.tables : t.offset < img.length
      /\ img.pointer \in {4, 8}
  <2>1. img.sections \in Seq(SectionSet) /\ img.sections # <<>>
    BY DEF WellFormed
  <2>2. \A i \in Indices(img) : img.sections[i].address > 0
    BY DEF WellFormed
  <2>3. n > 0
    BY <2>1
  <2> QED
    BY <2>1, <2>2, <2>3, SectionsFinite DEF WellFormed
<1>2. /\ s \in SectionSet /\ s.virtual = p.end /\ s.virtual <= s.rawSize /\ s.virtual > 0
      /\ s.address = NextSectionAddress(img) /\ img.length <= s.raw
      /\ new.sections = Append(img.sections, s)
      /\ new.length = s.raw + s.rawSize
      /\ new.directory = s.address
      /\ new.directorySize = (Len(names) + 2) * 20
      /\ new.tables = img.tables \union {[offset |-> s.raw, names |-> all]}
  BY HookAdded DEF s, new, p, DescriptorSize
<1>3. /\ Indices(new) = 1..(n + 1)
      /\ \A i \in 1..n : new.sections[i] = img.sections[i]
      /\ new.sections[n + 1] = s
  BY <1>1, <1>2 DEF Indices
<1>4. s.address \in Nat /\ s.rawSize \in Nat /\ s.raw \in Nat /\ Span(s) \in Nat
      /\ s.virtual \in Nat /\ s.rawSize <= Span(s) /\ s.virtual <= Span(s)
  BY <1>2, SectionNumbers
<1>5. \A i \in 1..n : /\ img.sections[i].address \in Nat /\ Span(img.sections[i]) \in Nat
                      /\ img.sections[i].address + Span(img.sections[i]) <= s.address
  BY <1>1, <1>2, SectionNumbers, NextBehind
<1>6. s.address > 0
  <2> DEFINE start == img.sections[1].address
             span == Span(img.sections[1])
             next == s.address
  <2>1. 1 \in 1..n
    BY <1>1
  <2>2. start \in Nat /\ start > 0 /\ span \in Nat /\ start + span <= next /\ next \in Nat
    BY <1>1, <1>4, <1>5, <2>1
  <2> HIDE DEF start, span, next
  <2>3. next > 0
    BY <2>2
  <2> QED
    BY <2>3 DEF next
<1>7. RvaToOffset(new, s.address) = s.raw
  <2> DEFINE Holds(i) == /\ new.sections[i].address <= s.address
                         /\ s.address < new.sections[i].address + Span(new.sections[i])
             holding == {i \in Indices(new) : Holds(i)}
  <2>1. ASSUME NEW i \in 1..n PROVE ~Holds(i)
    <3> DEFINE end == new.sections[i].address + Span(new.sections[i])
               next == s.address
    <3>1. end \in Nat /\ end <= next /\ next \in Nat
      <4>1. /\ img.sections[i].address \in Nat /\ Span(img.sections[i]) \in Nat
            /\ img.sections[i].address + Span(img.sections[i]) <= s.address
        BY <1>5
      <4>2. new.sections[i] = img.sections[i]
        BY <1>3
      <4> QED
        BY <1>4, <4>1, <4>2
    <3> HIDE DEF end, next
    <3>2. ~(next < end)
      BY <3>1
    <3> QED
      BY <3>2 DEF next, end
  <2>2. Holds(n + 1)
    <3> DEFINE next == s.address
               virtual == s.virtual
               span == Span(s)
    <3>1. next \in Nat /\ virtual \in Nat /\ span \in Nat /\ virtual <= span /\ virtual > 0
      BY <1>2, <1>4
    <3> HIDE DEF next, virtual, span
    <3>2. next <= next /\ next < next + span
      BY <3>1
    <3> QED
      BY <1>3, <3>2 DEF next, span
  <2>3. holding = {n + 1}
    BY <1>1, <1>3, <2>1, <2>2
  <2>4. SmallestOr(holding, 0) = n + 1
    BY <1>1, <2>3 DEF SmallestOr
  <2>5. RvaToOffset(new, s.address) = s.address - s.address + s.raw
    BY <1>3, <2>3, <2>4 DEF RvaToOffset
  <2> QED
    BY <1>4, <2>5
<1>8. names \in Seq(STRING) /\ Len(all) = Len(names) + 1 /\ Len(names) \in Nat
  <2>1. names \in Seq(STRING)
    BY NamesRead
  <2> QED
    BY <2>1
<1>9. {t \in new.tables : t.offset = s.raw} = {[offset |-> s.raw, names |-> all]}
  <2>1. ASSUME NEW t \in img.tables PROVE t.offset # s.raw
    <3>1. t.offset \in Nat /\ t.offset < img.length /\ img.length \in Nat /\ img.length <= s.raw
      BY <1>1, <1>2 DEF TableSet
    <3> QED
      BY <1>4, <3>1
  <2> QED
    BY <1>2, <2>1
<1>10. /\ s.raw + (Len(all) + 1) * DescriptorSize <= new.length
       /\ Len(all) * DescriptorSize <= new.directorySize
  <2> DEFINE count == Len(names)
             end == p.end
             size == s.rawSize
             raw == s.raw
  <2>1. /\ count \in Nat /\ end \in Nat /\ size \in Nat /\ raw \in Nat
        /\ p.descriptors <= end /\ p.descriptors = (count + 2) * 20 /\ end <= size
    BY <1>1, <1>2, <1>4, <1>8, PiecesLaid DEF p, DescriptorSize
  <2> HIDE DEF count, end, size, raw
  <2>2. /\ raw + ((count + 1) + 1) * 20 <= raw + size
        /\ (count + 1) * 20 <= (count + 2) * 20
    BY <2>1
  <2> QED
    BY <1>2, <1>8, <2>2 DEF count, size, raw, DescriptorSize
<1>11. ImportTables(new) = {all}
  <2>1. ImportTables(new) =
          {m \in {t.names : t \in {u \in new.tables : u.offset = s.raw}} :
                /\ s.raw + (Len(m) + 1) * DescriptorSize <= new.length
                /\ \/ new.directorySize = 0
                   \/ Len(m) * DescriptorSize <= new.directorySize}
    BY <1>2, <1>4, <1>6, <1>7 DEF ImportTables
  <2> DEFINE table == [offset |-> s.raw, names |-> all]
             found == {u \in new.tables : u.offset = s.raw}
  <2>2. found = {table} /\ table.names = all
    BY <1>9
  <2> HIDE DEF all, table, found
  <2>3. {t.names : t \in found} = {all}
    BY <2>2
  <2> QED
    BY <1>10, <2>1, <2>3 DEF found
<1> QED
  BY <1>11 DEF new

------------------------------------------------------------------------------

\* What patch works on: an executable that it has read and not patched ...
Fresh(img) == img \in Images /\ Readable(img) /\ ~IsPatched(img)

\* ... what it writes ...
Hooked(img) == \E base \in Images : Fresh(base) /\ HasHeaderRoom(base) /\ img = AddHookImport(base)

\* ... and what there may be in the executable.
Known(img) == img \in Images \/ Hooked(img)

\* Why LayoutSound holds: the executable is as installed or patched once, and
\* the backup was not patched, at every moment of patch and unpatch.
LayoutInv ==
    /\ TypeOK
    /\ \A img \in exe.image : Known(img)
    /\ \A img \in backup.image : Fresh(img)
    /\ pc \in {"copy", "copying", "add"} => \A img \in exe.image : Fresh(img)
    /\ pc \in {"writing", "writingtorn"} => \A img \in exe.image : Hooked(img)
    /\ pc \in {"copy", "copying", "add", "writing", "writingtorn"} => Exists(exe)

\* A patched image has the new section, and no other one like it.
LEMMA HookedIs ==
    ASSUME NEW img, Hooked(img)
    PROVE  /\ HasSection(img, HookSection) /\ PatchedOnce(img) /\ Len(img.sections) \in Nat
           /\ WellPlaced(img) /\ WellPieced(img) /\ Readable(img)
<1>1. PICK base \in Images :
         /\ WellFormed(base) /\ Readable(base) /\ HasHeaderRoom(base)
         /\ img = AddHookImport(base)
  BY ImagesAssumption DEF Hooked, Fresh
<1> DEFINE n == Len(base.sections)
           s == NewSection(base)
<1>2. /\ base.sections \in Seq(SectionSet) /\ n \in Nat /\ Indices(base) = 1..n
      /\ ~HasSection(base, HookSection)
  BY <1>1, SectionsFinite DEF WellFormed
<1>3. img.sections = Append(base.sections, s) /\ s \in SectionSet /\ s.name = HookSection
  BY <1>1, HookAdded
<1> HIDE DEF s
<1>4. /\ Indices(img) = 1..(n + 1) /\ Len(img.sections) = n + 1
      /\ \A i \in 1..n : img.sections[i].name # HookSection
      /\ img.sections[n + 1].name = HookSection
  BY <1>2, <1>3 DEF Indices, HasSection
<1>5. HasSection(img, HookSection) /\ PatchedOnce(img)
  BY <1>2, <1>4 DEF HasSection, PatchedOnce
<1>6. Readable(img)
  BY <1>1, HookImported DEF Readable
<1> QED
  BY <1>1, <1>2, <1>4, <1>5, <1>6, PlacedWell, PiecedWell

\* Whatever the executable holds is patched once at most, and is a patched
\* image if it has the hook's section.
LEMMA KnownIs ==
    ASSUME NEW img, Known(img)
    PROVE  /\ Len(img.sections) \in Nat /\ PatchedOnce(img)
           /\ IsPatched(img) \/ img \in Images
           /\ HasSection(img, HookSection) => Hooked(img)
<1>1. CASE img \in Images
  <2>1. WellFormed(img)
    BY <1>1, ImagesAssumption
  <2>2. Len(img.sections) \in Nat /\ ~HasSection(img, HookSection)
    BY <2>1 DEF WellFormed
  <2> QED
    BY <1>1, <2>2 DEF PatchedOnce, HasSection
<1>2. CASE Hooked(img)
  BY <1>2, HookedIs DEF IsPatched
<1> QED
  BY <1>1, <1>2 DEF Known

\* A file that is written completely, or torn, holds what it held.
LEMMA WholeSet ==
    ASSUME NEW f, IsFile(f), NEW b \in BOOLEAN
    PROVE  IsFile([f EXCEPT !.whole = b]) /\ [f EXCEPT !.whole = b].image = f.image
<1> DEFINE g == [image |-> f.image, whole |-> f.whole]
<1>1. f = g
  BY DEF IsFile
<1>2. [f EXCEPT !.whole = b] = [image |-> f.image, whole |-> b]
  BY <1>1
<1> QED
  BY <1>2 DEF IsFile

\* So does one that a copy or a write has torn.
LEMMA FileKept ==
    ASSUME NEW f, IsFile(f)
    PROVE  IsFile(Torn(f)) /\ Torn(f).image = f.image
<1>1. Torn(f) = [f EXCEPT !.whole = FALSE]
  BY DEF Torn
<1> QED
  BY <1>1, WholeSet

\* A file that is not there is one of the files.
LEMMA NoFileIs == IsFile(NoFile) /\ NoFile.image = {}
BY DEF IsFile, NoFile

\* patch takes an executable for unpatched only if it has read it.
LEMMA Unpatched ==
    ASSUME NEW f, {FALSE} \in Inspected(f)
    PROVE  \E img \in f.image : Readable(img) /\ ~IsPatched(img)
<1> DEFINE seen == {IsPatched(img) : img \in {i \in f.image : Readable(i)}}
<1>1. FALSE \in seen
  <2> HIDE DEF seen
  <2>1. {FALSE} = seen \/ {FALSE} = {}
    BY DEF Inspected, seen
  <2>2. FALSE \in {FALSE}
    OBVIOUS
  <2> QED
    BY <2>1, <2>2
<1> QED
  BY <1>1

\* The tool starts with what the user installed.
LEMMA InitLayout == Init => LayoutInv
<1> SUFFICES ASSUME Init PROVE LayoutInv
  OBVIOUS
<1>1. PICK img \in Images : installed = img /\ exe = [image |-> {img}, whole |-> TRUE]
  BY DEF Init, Whole
<1>2. backup = [image |-> {}, whole |-> FALSE] /\ dll \in Dlls /\ pc = "idle" /\ unfit = FALSE
  BY DEF Init, NoFile
<1>3. Known(img)
  BY DEF Known
<1>4. Len(img.sections) \in Nat /\ PatchedOnce(img)
  BY <1>3, KnownIs
<1>5. TypeOK
  BY <1>1, <1>2, <1>4 DEF TypeOK, IsFile
<1> QED
  BY <1>1, <1>2, <1>3, <1>5 DEF LayoutInv

\* No step patches an executable twice.
LEMMA NextLayout == LayoutInv /\ [Next]_vars => LayoutInv'
<1> SUFFICES ASSUME LayoutInv, [Next]_vars PROVE LayoutInv'
  OBVIOUS
<1> USE DEF LayoutInv, TypeOK, Go
<1>1. CASE Patch
  <2>1. PICK img \in exe.image : Readable(img) /\ ~IsPatched(img)
    BY <1>1, Unpatched DEF Patch
  <2>2. Fresh(img) /\ Exists(exe)
    BY <2>1, KnownIs DEF Fresh, Exists
  <2>3. \A i \in exe.image : i = img
    BY <2>1 DEF IsFile
  <2> QED
    BY <1>1, <2>2, <2>3 DEF Patch, BackupStep
<1>2. CASE BeginBackup
  <2>1. IsFile(Torn(exe)) /\ Torn(exe).image = exe.image
    BY FileKept
  <2> QED
    BY <1>2, <2>1 DEF BeginBackup
<1>3. CASE EndBackup
  BY <1>3 DEF EndBackup
<1>4. CASE BeginWrite
  <2> DEFINE made == {AddHookImport(img) : img \in exe.image}
  <2>1. exe' = [image |-> made, whole |-> FALSE]
    <3>1. exe = [image |-> exe.image, whole |-> exe.whole]
      BY DEF IsFile
    <3>2. exe' = Torn([exe EXCEPT !.image = made])
      BY <1>4 DEF BeginWrite
    <3> HIDE DEF made
    <3> QED
      BY <3>1, <3>2 DEF Torn
  <2>2. ASSUME NEW img \in made
        PROVE  Hooked(img) /\ Len(img.sections) \in Nat /\ PatchedOnce(img)
    <3>1. PICK base \in exe.image : img = AddHookImport(base)
      OBVIOUS
    <3>2. Fresh(base) /\ HasHeaderRoom(base)
      BY <1>4, <3>1 DEF BeginWrite
    <3>3. Hooked(img)
      BY <3>1, <3>2 DEF Hooked, Fresh
    <3> QED
      BY <3>3, HookedIs
  <2>3. (\A i, j \in made : i = j) /\ made # {}
    BY <1>4 DEF IsFile, Exists, BeginWrite
  <2>4. IsFile(exe')
    <3> HIDE DEF made
    <3> QED
      BY <2>1, <2>2, <2>3 DEF IsFile
  <2>5. exe'.image = made
    BY <2>1
  <2> HIDE DEF made
  <2>6. (\A img \in exe'.image : Hooked(img) /\ Known(img)) /\ Exists(exe')
    BY <2>2, <2>3, <2>5 DEF Known, Exists
  <2> QED
    BY <1>4, <2>4, <2>6 DEF BeginWrite
<1>5. CASE NoRoom
  BY <1>5 DEF NoRoom
<1>6. CASE EndWrite
  <2>1. (pc = "writing") => IsFile(exe') /\ exe'.image = exe.image
    <3> HAVE pc = "writing"
    <3>1. exe' = [exe EXCEPT !.whole = TRUE]
      BY <1>6 DEF EndWrite
    <3> QED
      BY <3>1, WholeSet
  <2>2. (pc # "writing") => IsFile(exe') /\ exe'.image = exe.image
    <3> HAVE pc # "writing"
    <3>1. exe' = Torn(exe)
      BY <1>6 DEF EndWrite, Torn
    <3> QED
      BY <3>1, FileKept
  <2>3. IsFile(exe') /\ exe'.image = exe.image
    BY <2>1, <2>2
  <2> QED
    BY <1>6, <2>3 DEF EndWrite
<1>7. CASE Unpatch
  <2>1. IsFile(Torn(backup)) /\ Torn(backup).image = backup.image
    BY FileKept
  <2> QED
    BY <1>7, <2>1 DEF Unpatch, Known, Fresh
<1>8. CASE EndRestore
  BY <1>8 DEF EndRestore, Known, Fresh
<1>9. CASE CopyFails
  BY <1>9, NoFileIs DEF CopyFails
<1>10. CASE Crash
  BY <1>10 DEF Crash
<1>11. CASE Update
  <2>1. PICK img \in Updates : installed' = img /\ exe' = [image |-> {img}, whole |-> TRUE]
    BY <1>11 DEF Update, Whole
  <2>2. img \in Images /\ Known(img)
    BY UpdatesAssumption DEF Known
  <2>3. IsFile(exe')
    BY <2>1, <2>2, KnownIs DEF IsFile
  <2>4. unfit' \in BOOLEAN
    BY <1>11 DEF Update, Exists
  <2> QED
    BY <1>11, <2>1, <2>2, <2>3, <2>4 DEF Update
<1>12. CASE ReplaceDll
  BY <1>12 DEF ReplaceDll
<1>13. CASE UNCHANGED vars
  BY <1>13 DEF vars, Exists
<1> QED
  BY <1>1, <1>2, <1>3, <1>4, <1>5, <1>6, <1>7, <1>8, <1>9, <1>10, <1>11, <1>12, <1>13
     DEF Next, Tool

\* The inductive invariant of the patcher's layout holds.
THEOREM LayoutInvHolds == Spec => []LayoutInv
BY InitLayout, NextLayout, PTL DEF Spec

\* In every whole executable that has the hook's section, nothing overlaps in
\* the file or in memory, and the new section's pieces are in their places.
THEOREM LayoutSoundHolds == Spec => []LayoutSound
<1>1. LayoutInv => LayoutSound
  BY KnownIs, HookedIs DEF LayoutInv, LayoutSound
<1> QED
  BY LayoutInvHolds, <1>1, PTL

\* It imports what it did before and the hook DLL, and keeps its sections.
THEOREM ImportsKeptHolds == Spec => []ImportsKept
<1>1. LayoutInv => ImportsKept
  <2> SUFFICES ASSUME LayoutInv, NEW img \in exe.image, HasSection(img, HookSection)
               PROVE  \E base \in Images :
                         /\ base.sections = SubSeq(img.sections, 1, Len(img.sections) - 1)
                         /\ img = AddHookImport(base)
                         /\ ImportTables(img) = {Append(ImportNames(base), HookDll)}
    BY DEF ImportsKept
  <2>1. Hooked(img)
    BY KnownIs DEF LayoutInv
  <2>2. PICK base \in Images :
           WellFormed(base) /\ Readable(base) /\ img = AddHookImport(base)
    BY <2>1, ImagesAssumption DEF Hooked, Fresh
  <2>3. ImportTables(img) = {Append(ImportNames(base), HookDll)}
    BY <2>2, HookImported
  <2>4. base.sections = SubSeq(img.sections, 1, Len(img.sections) - 1)
    <3> DEFINE s == NewSection(base)
               old == base.sections
               new == img.sections
    <3>1. old \in Seq(SectionSet) /\ s \in SectionSet /\ new = Append(old, s)
      BY <2>2, HookAdded DEF WellFormed
    <3> HIDE DEF s, old, new
    <3>2. Len(new) - 1 = Len(old) /\ \A i \in 1..Len(old) : new[i] = old[i]
      BY <3>1
    <3>3. old = SubSeq(new, 1, Len(new) - 1)
      BY <3>1, <3>2
    <3> QED
      BY <3>3 DEF old, new
  <2> QED
    BY <2>2, <2>3, <2>4
<1> QED
  BY LayoutInvHolds, <1>1, PTL

==============================================================================
