----------------------------- MODULE MCPatchedExe -----------------------------
(***************************************************************************)
(* Small executables for PatcherWindow: two sections, with and without     *)
(* data in the file, imports, bytes behind the sections, and room for one  *)
(* more section header or not.                                             *)
(***************************************************************************)
EXTENDS PatcherWindow

Section(address, virtual, rawSize, raw) ==
    [name |-> "game", address |-> address, virtual |-> virtual,
     rawSize |-> rawSize, raw |-> IF rawSize = 0 THEN 0 ELSE raw]

\* A code section with imports in it, and data of some sizes behind it.
Image(code, data, names, directorySize, overlay, room, pointer) ==
    LET first   == Section(4096, code, 1024, 1024)
        second  == Section(4096 + Align(Span(first), 4096), data[1], data[2], 2048)
        end     == Align(second.address + Span(second), 4096)
    IN  [sections     |-> <<first, second>>,
         tableEnd     |-> 1024 - room,
         headers      |-> 1024,
         fileAlign    |-> 512,
         sectionAlign |-> 4096,
         pointer      |-> pointer,
         directory    |-> IF names = <<>> THEN 0 ELSE 4096 + 256,
         directorySize |-> directorySize,
         imageSize    |-> end,
         length       |-> 2048 + data[2] + overlay,
         tables       |-> IF names = <<>> THEN {}
                            ELSE {[offset |-> 1024 + 256, names |-> names]}]

SomeImages ==
    { Image(code, data, names, 60, overlay, room, pointer) :
        code \in {1000, 5000},
        data \in {<<5000, 0>>, <<100, 512>>, <<100, 4608>>},
        names \in {<<>>, <<"kernel32.dll", "user32.dll">>},
        overlay \in {0, 100}, room \in {39, 40}, pointer \in {4, 8} }

\* Two of them with room, and a directory that does not give its size.
SomeUpdates ==
    {img \in SomeImages :
        HasHeaderRoom(img) /\ img.length = 2660 /\ img.pointer = 4 /\ img.directory # 0}

AllImages == SomeImages \union
    {Image(1000, <<100, 512>>, <<"kernel32.dll">>, 0, 0, 80, 4)}

==============================================================================
