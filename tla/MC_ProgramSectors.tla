-------------------------- MODULE MC_ProgramSectors --------------------------
(* Small instance of ProgramSectors: three distinct sectors, lists of up   *)
(* to three roots to start from (two with a duplicate root) and programs   *)
(* of up to five instructions, enough to append a root twice and drop it  *)
(* again, and to swap past a duplicate.                                    *)
EXTENDS ProgramSectorsRefinement

CONSTANTS r1, r2, r3, sd

MCBaseLists == {<<>>, <<r1>>, <<r1, r1>>, <<r1, r2>>, <<r1, r2, r1>>}

=============================================================================
