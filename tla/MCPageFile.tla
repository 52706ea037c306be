----------------------------- MODULE MCPageFile -----------------------------
(* Model-checking instance of PageFile: pages of two bytes, a one-page    *)
(* clean LRU (the minimum (cache_size / PAGE_SIZE).max(1) gives), two     *)
(* pages of file.                                                          *)
EXTENDS PageFile
====
