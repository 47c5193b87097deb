-------------------------- MODULE MCHiddenChannel --------------------------
(***************************************************************************)
(* HiddenChannel on small fields.  The patterns of the two keys overlap, so*)
(* that a window of one key's frame can match the other key's pattern.     *)
(***************************************************************************)
EXTENDS HiddenChannel

MCKey == {1, 2}
MCStartBit3 == [k \in MCKey |-> IF k = 1 THEN <<0, 1, 0>> ELSE <<1, 0, 1>>]

\* One key, for the runs in which it does not matter.
MCOneKey == {1}
MCStartBit1 == [k \in MCOneKey |-> <<0, 1>>]

FilesOf(exts, msgs) == [ext : exts, msg : msgs]

\* No extension, one that is shorter than the message size field, a longer one;
\* up to two characters of contents.
MCFile == FilesOf({<< >>, << 2 >>, << 3, 1 >>}, {<< >>, << 3 >>, << 1, 2 >>})

\* One file for the runs about unmarked, full and empty videos.
MCOneFile == FilesOf({<< >>}, {<< 1 >>})
MCEmptyFile == FilesOf({<< >>}, {<< >>})
=============================================================================
