--------------------------- MODULE MCTheaterFeed ----------------------------
(***************************************************************************)
(* TheaterFeed on small instances.                                         *)
(***************************************************************************)
EXTENDS TheaterFeed, TLC

CONSTANTS h1, h2, page1, page2

\* Handlers are alike, and so are pages.
Symmetries == Permutations(Handlers) \cup Permutations(Pages)
=============================================================================
