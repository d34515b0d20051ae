--------------------------- MODULE MCAddressSpace ---------------------------
(* An instance of AddressSpace with four entries to a table: l2 = 0 has the   *)
(* device and a program's segments, l2 = 1 the user stack, l2 = 2 and 3 the   *)
(* RAM with the firmware, the image in pages and superpages.                  *)
EXTENDS AddressSpace, TLC

FirmwareAt == <<<<2, 0>>>>
ImageAt    == <<<<36, "RX">>, <<37, "RW">>, <<38, "RW">>, <<39, "RW">>>>
GuardsAt   == <<37>>
RamAt      == <<<<2, 2>>, <<2, 3>>, <<3, 0>>, <<3, 1>>, <<3, 2>>, <<3, 3>>>>
StackAt    == <<30, 31>>

ProcPerms == Permutations(Proc)

Header(vaddr, memsz, filesz, offset, flags) ==
    [vaddr |-> vaddr, memsz |-> memsz, filesz |-> filesz, offset |-> offset, flags |-> flags]

\* Code, data with a zeroed tail and an empty segment, listed out of order and
\* with as many argument bytes as fit; segments over the device's page,
\* over the stack and in the kernel's region; overlapping ones; one argument
\* byte too many; not an ELF file.
SomeFiles == {
    [elf |-> TRUE, len |-> 64, args |-> <<7, 7>>,
     heads |-> <<Header(104, 30, 10, 8, {"W"}), Header(168, 0, 0, 8, {}),
                 Header(36, 20, 20, 4, {"X"})>>],
    [elf |-> TRUE, len |-> 64, args |-> <<>>, heads |-> <<Header(16, 40, 8, 16, {"W"})>>],
    [elf |-> TRUE, len |-> 64, args |-> <<9>>, heads |-> <<Header(960, 8, 8, 0, {})>>],
    [elf |-> TRUE, len |-> 64, args |-> <<9>>, heads |-> <<Header(1280, 8, 8, 0, {})>>],
    [elf |-> TRUE, len |-> 64, args |-> <<9>>,
     heads |-> <<Header(64, 32, 8, 0, {}), Header(40, 33, 8, 8, {})>>],
    [elf |-> TRUE, len |-> 64, args |-> <<7, 8>>, heads |-> <<Header(192, 8, 8, 0, {})>>],
    [elf |-> FALSE, len |-> 64, args |-> <<>>, heads |-> <<>>]}
=============================================================================
