------------------------------ MODULE MCFileDesc ------------------------------
(***************************************************************************)
(* FileDesc on a directory with the RTC, the directory itself, the shell   *)
(* and another file whose last block is invalid, and a name it does not    *)
(* hold.  As in the images the RTC and the directory have inode 0.         *)
(***************************************************************************)
EXTENDS FileDesc

MCDentries == {"rtc", "dot", "shell", "b"}
MCNames    == MCDentries \union {"missing"}
MCFileType == [d \in MCDentries |-> CASE d = "rtc" -> "rtc" [] d = "dot" -> "dir" [] OTHER -> "reg"]
MCInodeIdx == [d \in MCDentries |-> CASE d = "shell" -> 1 [] d = "b" -> 2 [] OTHER -> 0]
MCLength   == [i \in 0 .. 2 |-> IF i = 0 THEN 0 ELSE i + 1]
MCBad      == [i \in 0 .. 2 |-> IF i = 2 THEN {2} ELSE {}]
===============================================================================
