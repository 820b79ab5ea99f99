------------------------------- MODULE DirLookup -------------------------------
(***************************************************************************)
(* The directory of the file system (file_system.c): read_dentry_by_name,  *)
(* one entry per round, and the reads of an open directory, which list it  *)
(* (read_dir).                                                             *)
(*                                                                         *)
(* A directory entry keeps its name in MAX_FILE_NAME_LENGTH bytes, filled  *)
(* up with NUL, and without a NUL when the name takes them all.            *)
(***************************************************************************)
EXTENDS Lib

CONSTANT MAX_FILE_NAME_LENGTH

ASSUME NameAssumption == MAX_FILE_NAME_LENGTH \in Nat \ {0}

VARIABLES
    dentries,            \* entries of the image: a file_name and an inode_idx
    fname,               \* what the caller of read_dentry_by_name looks for
    index,               \* its loop counter, from 1
    result,              \* the entry found, -1 when there is none, 0 while it searches
    position,            \* file_position of the open directory
    listed               \* history: how many names reading the directory has returned

lookup  == <<fname, index, result>>
listing == <<position, listed>>

\* The file_name of an entry made for a name without its NUL.
Padded(name) == [k \in 1 .. MAX_FILE_NAME_LENGTH |-> IF k <= Len(name) THEN name[k] ELSE NUL]

\* read_dentry_by_name is called.
LookUp(name) == fname' = name /\ index' = 1 /\ result' = 0

\* The locals of a call that has returned.
NoLookup == fname' = <<NUL>> /\ index' = 1 /\ result' = 0

\* Seeded fault: an entry whose name goes on is taken as well.
MatchesPrefix == StrnEqual(fname, dentries[index].file_name, strlen(fname))

\* The name ends where fname does.
Matches ==
    /\ StrnEqual(fname, dentries[index].file_name, strlen(fname))
    /\ strlen(fname) < MAX_FILE_NAME_LENGTH =>
          dentries[index].file_name[strlen(fname) + 1] = NUL

\* A name too long to compare, the round that finds the entry, the round that does not,
\* the end of the loop.
TooLong ==
    /\ result = 0 /\ strlen(fname) > MAX_FILE_NAME_LENGTH
    /\ result' = -1
    /\ UNCHANGED <<fname, index>>

Searching == result = 0 /\ strlen(fname) <= MAX_FILE_NAME_LENGTH

Found ==
    /\ Searching /\ index <= Len(dentries) /\ Matches
    /\ result' = index
    /\ UNCHANGED <<fname, index>>

\* Seeded fault: the search begins again at the end.
NextDentryWraps ==
    /\ Searching /\ index <= Len(dentries) /\ ~Matches
    /\ index' = IF index = Len(dentries) THEN 1 ELSE index + 1
    /\ UNCHANGED <<fname, result>>

NextDentry ==
    /\ Searching /\ index <= Len(dentries) /\ ~Matches
    /\ index' = index + 1
    /\ UNCHANGED <<fname, result>>

NotFound ==
    /\ Searching /\ index > Len(dentries)
    /\ result' = -1
    /\ UNCHANGED <<fname, index>>

read_dentry_by_name == TooLong \/ Found \/ NextDentry \/ NotFound

\* read_dir counts the characters before the first NUL.
FileNameLength(d) == Cardinality({k \in 1 .. MAX_FILE_NAME_LENGTH : NoNul(d.file_name, k)})

\* read_dir of n bytes at the position: a name cut to n, or nothing at the end.
read_dir(n) ==
    IF position >= Len(dentries) THEN <<>>
    ELSE LET d == dentries[position + 1]
         IN  SubSeq(d.file_name, 1, min(FileNameLength(d), n))

\* Seeded fault: the position moves by the bytes read, as it does in a file.
MoveByBytes(name) == position' = position + Len(name)

\* read_dir_wrapper moves the position by one entry when something was read.
Move(name) == position' = IF Len(name) > 0 THEN position + 1 ELSE position

read_dir_wrapper(n) ==
    /\ Move(read_dir(n))
    /\ listed' = IF Len(read_dir(n)) > 0 THEN listed + 1 ELSE listed
===============================================================================
