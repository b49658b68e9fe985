--------------------------- MODULE MCVirtualMemory ---------------------------
(***************************************************************************)
(* Model values for VirtualMemory: short reference strings, one or more of *)
(* every size, that make pages be hit, faulted, replaced and asked for     *)
(* again after their replacement.                                          *)
(***************************************************************************)
EXTENDS VirtualMemory

\* Tables of at most two pages.
StringsTwo == {<<0, 0>>, <<0, 1, 0, 1>>, <<1, 1, 0, 0>>}

\* Tables of one page, for the runs in which everybody runs at once.
StringsOne == {<<0, 0>>}

\* Tables of up to three pages: the last ones tell LRU from first-in first-out.
StringsThree == {<<0, 0>>, <<1, 0, 1, 0>>, <<0, 1, 0, 2, 1, 0>>, <<2, 0, 2, 1, 0, 2>>}
=============================================================================
