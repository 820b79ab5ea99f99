-------------------------------- MODULE MCExec --------------------------------
(***************************************************************************)
(* Exec on images of two files and up to two entries, with names of one    *)
(* or two characters, one of them the beginning of the other or the same;  *)
(* all commands of up to four characters, a space one of them.  A file has *)
(* up to two blocks of three bytes, in any order, one perhaps not a block  *)
(* of the image; block 0 begins with the header of a program.              *)
(***************************************************************************)
EXTENDS Exec

Name(s) == [k \in 1 .. 2 |-> IF k <= Len(s) THEN s[k] ELSE NUL]
Entries(names) == [k \in DOMAIN names |-> [file_name |-> Name(names[k]), inode_idx |-> k - 1]]

MCDirectories == {<<<<1, 2>>, <<1>>>>, <<<<1>>, <<1, 2>>>>, <<<<1>>, <<1>>>>, <<<<2, 2>>>>}
MCFiles == {f \in [length : {0, 1, 2, 3, 4, 6}, block_idx : {<<0, 2>>, <<2, 0>>, <<0, 3>>, <<-1>>}] :
              f.length <= 3 * Len(f.block_idx)}
MCOther == [length |-> 5, block_idx |-> <<0, 1>>]
MCImages == [dentries : {Entries(d) : d \in MCDirectories},
             inodes : {<<f, MCOther>> : f \in MCFiles}]

MCCommands == {Append(s, NUL) : s \in UNION {[1 .. k -> {1, 2, SPACE}] : k \in 0 .. 4}}
MCRequests == {0, 1, 3, 4, 7} \X {0, 1, 2, 3, 5, 7}
MCNumbers  == -1 .. 11
MCLengths  == -1 .. 3
===============================================================================
