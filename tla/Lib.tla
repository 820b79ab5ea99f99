---------------------------------- MODULE Lib ----------------------------------
(***************************************************************************)
(* The string functions of lib.c.  A string is an array of characters,     *)
(* counted from 1, which ends at its first NUL (0); an array that a caller *)
(* reads by length only need not have one.                                 *)
(***************************************************************************)
EXTENDS Integers, Sequences, FiniteSets

NUL == 0

\* No NUL among the first n characters.
NoNul(s, n) == \A j \in 1 .. n : s[j] # NUL

strlen(s) == CHOOSE n \in 0 .. Len(s) - 1 : NoNul(s, n) /\ s[n + 1] = NUL

\* The index is C's, from 0; -1 when c is not in the string.
index_of_char(s, c) ==
    IF \E i \in 1 .. strlen(s) : s[i] = c
    THEN CHOOSE n \in 0 .. strlen(s) - 1 : s[n + 1] = c /\ \A j \in 1 .. n : s[j] # c
    ELSE -1

\* strncmp(s1, s2, n) = 0
StrnEqual(s1, s2, n) == \A k \in 1 .. n : NoNul(s1, k - 1) => s1[k] = s2[k]

\* Both leave the rest of dest as it was.
strcpy(dest, src) ==
    [k \in DOMAIN dest |-> IF k <= strlen(src) + 1 THEN src[k] ELSE dest[k]]

strncpy(dest, src, n) ==
    [k \in DOMAIN dest |-> IF k > n THEN dest[k] ELSE IF NoNul(src, k) THEN src[k] ELSE NUL]

min(a, b) == IF a < b THEN a ELSE b
===============================================================================
