--------------------------- MODULE MCSiteDatabase ---------------------------
(* Small instances of SiteDatabase. *)
EXTENDS SiteDatabase, TLC

CONSTANTS r1, r2, r3, r4

\* r2 refers to r1; the others refer to no row.
SomeRefers == r1 :> NoRow @@ r2 :> r1 @@ r3 :> NoRow @@ r4 :> NoRow
=============================================================================
