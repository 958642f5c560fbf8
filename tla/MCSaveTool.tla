----------------------------- MODULE MCSaveTool ------------------------------
(***************************************************************************)
(* SaveTool over every command line up to three ROMs, four banks and four  *)
(* input banks, and over cards that reach every branch of the catalog      *)
(* plan: each marker alone, pairs, and layouts that fill or exceed the     *)
(* four banks.                                                             *)
(***************************************************************************)
EXTENDS SaveTool

EZ3(markers) == [kind |-> "ez3", catalog |-> TRUE, markers |-> markers]
Other(k0) == [kind |-> k0, catalog |-> FALSE, markers |-> <<>>]

MCCards ==
    {EZ3(<<m>>) : m \in {"SRAM_V111", "FLASH512", "SRAM"}}
        \cup {EZ3(<<"FLASH512", "SRAM_V111", "SRAM_V111">>),
              EZ3(<<"SRAM_V111", "FLASH_V", "FLASH512">>),
              EZ3(<<"FLASH1M", "SRAM_V111">>),
              EZ3(<<"", "FLASH512">>),
              EZ3(<<"FLASH1M", "FLASH512", "FLASH512">>)}
        \cup {Other("ez3"), Other("official"), Other("unknown")}

MCCommands == {r \in Requests : WellFormed(r)}
=============================================================================
