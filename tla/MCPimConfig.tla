----------------------------- MODULE MCPimConfig -----------------------------
(***************************************************************************)
(* One address unit is 1 GiB.  x86 hosts map their memory from 0 (2 GiB), *)
(* the ARM VExpress_GEM5_V1 host from 0x80000000 (2 GiB); "riscv" stands *)
(* for an ISA connect_to_host_system refuses.                             *)
(***************************************************************************)
EXTENDS PimConfig

MCHostMem == [i \in {"arm", "x86", "riscv"} |->
                IF i = "arm" THEN {AddrRange(2, 2)} ELSE {AddrRange(0, 2)}]
=============================================================================
