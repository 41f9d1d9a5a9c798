----------------------------- MODULE MCRomImage -----------------------------
(* Directory entries for RomImage: two simple programs, whose names are not in the order     *)
(* of the table, a second file with the normalized name of the first, two        *)
(* files for the complex slot and one file the table does not list.          *)
EXTENDS RomImage

MCEntries ==
  { [name |-> 3, order |-> 1, tier |-> TIER_SIMPLE],
    [name |-> 2, order |-> 2, tier |-> TIER_SIMPLE],
    [name |-> 4, order |-> 1, tier |-> TIER_SIMPLE],
    [name |-> 1, order |-> 1, tier |-> TIER_COMPLEX],
    [name |-> 5, order |-> 1, tier |-> TIER_COMPLEX],
    [name |-> 6, order |-> 0, tier |-> Unknown] }

=============================================================================
