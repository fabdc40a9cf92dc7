-------------------------- MODULE MCArtistCatalog --------------------------
(* ArtistCatalog for TLC: two processes, which are interchangeable, and more  *)
(* releases than a page or a window of details holds.                         *)
EXTENDS ArtistCatalog, TLC

=============================================================================
