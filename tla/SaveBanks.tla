------------------------------ MODULE SaveBanks ------------------------------
(***************************************************************************)
(* The save-memory geometry the save tool works with: four 32-KiB banks    *)
(* behind the selectors 0x0900, 0x0910, 0x0920 and 0x0930, the number of   *)
(* banks each kind of save occupies, the command lines the option parser   *)
(* accepts and the range of banks each of them names.                      *)
(*                                                                         *)
(* Bank b stands for selector 0x0900 + 0x10 * b, and a size is a number of *)
(* banks.  A selector above 0x0930 is a bank number above 3.               *)
(***************************************************************************)
EXTENDS Integers, FiniteSets, Sequences

CONSTANT NoBank     \* --save-bank was not given

ASSUME NoBankAssumption == NoBank \notin Int

SaveBankSelectors == 0..3

\* Every selector first_bank + i * 0x10 the tool can be led to compute.
Selectors == 0..6

\* Kinds of save marker, with every text the source treats alike as one.
Markers == {"SRAM_V111", "SRAM", "EEPROM", "FLASH512", "FLASH_V", "FLASH1M", ""}

\* Mutant: FLASH512 reserves one bank.
SaveBankCountHalved(marker) ==
    CASE marker = "FLASH1M" -> 4
      [] marker \in {"FLASH512", "FLASH_V"} -> 1
      [] marker \in {"SRAM_V111", "SRAM", "EEPROM"} -> 1
      [] OTHER -> 0

\* Banks a save with this marker occupies; 0 when the capacity is unknown.
SaveBankCount(marker) ==
    CASE marker = "FLASH1M" -> 4
      [] marker \in {"FLASH512", "FLASH_V"} -> 2
      [] marker \in {"SRAM_V111", "SRAM", "EEPROM"} -> 1
      [] OTHER -> 0

\* Banks the tool can extract and restore; 0 when it refuses the format.
SupportedSaveSize(marker) ==
    CASE marker = "SRAM_V111" -> 1
      [] marker = "FLASH512" -> 2
      [] OTHER -> 0

\* Mutant: the range may end one bank beyond the last.
AccommodatesOneMore(first, size) == size > 0 /\ first + (size - 1) <= 4

Accommodates(first, size) == size > 0 /\ first + (size - 1) <= 3

-----------------------------------------------------------------------------
(* Command lines.  0 stands for an option that was not given; an input of  *)
(* 0 is a file that is missing or is not 1 to 4 complete banks.            *)

Requests == [op : {"inspect", "dump", "write", "erase"},
             rom : 0..3, bank : SaveBankSelectors \cup {NoBank}, count : 0..4,
             backup : {"none", "file", "input"},
             output : BOOLEAN, authorized : BOOLEAN, input : 0..4]

\* Command lines that can be written: no argument at all is the inspection,
\* only --write has an input file.
WellFormed(r) ==
    /\ r.op = "inspect" => /\ r.rom = 0 /\ r.bank = NoBank /\ r.count = 0
                           /\ r.backup = "none" /\ ~r.output /\ ~r.authorized
    /\ r.op # "write" => r.input = 0 /\ r.backup # "input"

\* Mutant: the consecutive range is not checked.
AcceptsAnyCount(r) ==
    /\ ~(r.op = "write" /\ r.output)
    /\ r.op = "erase" => ~r.output /\ r.rom = 0 /\ ~r.authorized
    /\ r.count # 0 => r.bank # NoBank /\ r.rom = 0
    /\ r.backup # "none" \/ r.authorized => r.op \in {"write", "erase"}
    /\ r.op = "write" => r.authorized /\ r.backup # "input"

Accepts(r) ==
    /\ ~(r.op = "write" /\ r.output)
    /\ r.op = "erase" => ~r.output /\ r.rom = 0 /\ ~r.authorized
    /\ r.count # 0 => /\ r.bank # NoBank /\ r.rom = 0
                      /\ Accommodates(r.bank, r.count)
    /\ r.backup # "none" \/ r.authorized => r.op \in {"write", "erase"}
    /\ r.op = "write" => r.authorized /\ r.backup # "input"

InputFits(r) ==
    r.op = "write" => r.input # 0 /\ (r.count # 0 => r.input = r.count)

Path(r) ==
    IF r.op = "erase" THEN "erase"
    ELSE IF r.bank # NoBank /\ r.rom = 0 THEN "direct"
    ELSE "catalog"

Given(count, default) == IF count # 0 THEN count ELSE default

\* The range of an erase or of a direct access.
FirstBank(r) == IF r.bank = NoBank THEN 0 ELSE r.bank

RangeLength(r) ==
    IF r.op = "erase"
    THEN IF r.bank = NoBank THEN 4 ELSE Given(r.count, 1)
    ELSE Given(r.count, IF r.op = "write" THEN r.input ELSE 1)
=============================================================================
