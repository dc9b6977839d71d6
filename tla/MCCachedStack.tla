--------------------------- MODULE MCCachedStack ---------------------------
(* Instances of CachedStack for TLC, with the real page size and argument  *)
(* block; only size_t is narrower.                                         *)
EXTENDS CachedStack

KiB == 1024

(* Two stretches of free memory, of 13 and of 12 pages.                    *)
MCMemory == (1 .. 26) \ {14}

(* Clients that ask for less, more and for objects of more than a page.    *)
MixedRequests == {<<0, 0>>, <<0, 1500>>, <<4 * KiB + 1, 1000>>, <<0, 5000>>}
=============================================================================
