------------------------------- MODULE Keyboard -------------------------------
(***************************************************************************)
(* What a scan code means: the modifier counters of keyboard_handler, its  *)
(* order of tests, and the two tables of characters (keyboard.c).          *)
(*                                                                         *)
(* A key is one of a few kinds, enough to tell the branches apart: the     *)
(* modifiers, a letter that is not L, L itself, a key with two marks on    *)
(* it, Enter, Backspace, the function keys of the terminals, and "arrow",  *)
(* any make code the tables do not have (they end at 0x3A; F1 to F3 are    *)
(* beyond them too).  A keyboard repeats the make code of a key held down; *)
(* Repeats says whether the environment holds one that long.               *)
(***************************************************************************)
EXTENDS Naturals, FiniteSets

CONSTANTS
    FKeys,       \* the function keys of the terminals, some of F1 to F3
    MaxHeld,     \* modifiers held at one time
    Repeats      \* BOOLEAN: a modifier held down repeats its make code

ASSUME FKeysAssumption == FKeys \subseteq {"F1", "F2", "F3"}

MaxCount == 3    \* bound on a counter, for the repeats

VARIABLES
    alt_press, shift_press, ctrl_press,   \* counters of keys that are down
    caps_on,
    held,        \* the modifiers the user holds down
    caps_locked  \* what the user knows: CAPS LOCK was pressed an odd number of times

keyVars == <<alt_press, shift_press, ctrl_press, caps_on, held, caps_locked>>

Shifts    == {"lshift", "rshift"}
Modifiers == Shifts \union {"alt", "ctrl"}
Letters   == {"letter", "L"}
TableKeys == Letters \union {"mark", "return"}
PlainKeys == TableKeys \union {"backspace", "arrow"}
Keys      == Modifiers \union {"caps"} \union PlainKeys \union FKeys

KeyInit ==
    /\ alt_press = 0 /\ shift_press = 0 /\ ctrl_press = 0
    /\ caps_on = FALSE
    /\ held = {}
    /\ caps_locked = FALSE

\* What a make code has the handler do; for a character, which table it is from.
Do(op)          == [op |-> op, key |-> "none", shifted |-> FALSE]
Character(k, s) == IF k = "return" THEN Do("newline")
                   ELSE IF k \in TableKeys THEN [op |-> "put", key |-> k, shifted |-> s]
                   ELSE Do("beyond")

\* The two tables at keycode - 1: Enter is a newline in both, and past their end
\* lies whatever the linker put there.
keys(k)       == Character(k, FALSE)
shift_keys(k) == Character(k, TRUE)

letter_check(k) == k \in Letters

\* Seeded fault: CAPS LOCK turns SHIFT round for every key.
caps_on_handler_all(k) == IF shift_press > 0 THEN keys(k) ELSE shift_keys(k)

caps_on_handler(k) ==
    IF shift_press > 0
    THEN IF letter_check(k) THEN keys(k) ELSE shift_keys(k)
    ELSE IF letter_check(k) THEN shift_keys(k) ELSE keys(k)

\* The branch of keyboard_handler that a make code takes.
Meaning(k) ==
    IF k \in Modifiers \union {"caps"} THEN Do("modifier")
    ELSE IF k = "L" /\ ctrl_press > 0 THEN Do("clear")
    ELSE IF k = "backspace" THEN Do("erase")
    ELSE IF k \in FKeys /\ alt_press > 0 THEN Do(k)
    ELSE IF caps_on THEN caps_on_handler(k)
    ELSE IF shift_press > 0 THEN shift_keys(k)
    ELSE keys(k)

\* The make code of k as far as the modifiers go.
Make(k) ==
    /\ IF k \in Modifiers
       THEN /\ k \in held => Repeats
            /\ held' = held \union {k}
            /\ Cardinality(held') <= MaxHeld
       ELSE UNCHANGED held
    /\ alt_press'   = IF k = "alt" THEN alt_press + 1 ELSE alt_press
    /\ shift_press' = IF k \in Shifts THEN shift_press + 1 ELSE shift_press
    /\ ctrl_press'  = IF k = "ctrl" THEN ctrl_press + 1 ELSE ctrl_press
    /\ caps_on'     = IF k = "caps" THEN ~caps_on ELSE caps_on
    /\ caps_locked' = IF k = "caps" THEN ~caps_locked ELSE caps_locked
    /\ alt_press' <= MaxCount /\ shift_press' <= MaxCount /\ ctrl_press' <= MaxCount

\* The break code of k.
Break(k) ==
    /\ k \in held
    /\ held' = held \ {k}
    /\ alt_press'   = IF k = "alt" THEN alt_press - 1 ELSE alt_press
    /\ shift_press' = IF k \in Shifts THEN shift_press - 1 ELSE shift_press
    /\ ctrl_press'  = IF k = "ctrl" THEN ctrl_press - 1 ELSE ctrl_press
    /\ UNCHANGED <<caps_on, caps_locked>>

-------------------------------------------------------------------------------
\* What the user expects of a key, from the keys that are down.
Expected(k) ==
    LET shift == held \intersect Shifts # {} IN
    IF k = "L" /\ "ctrl" \in held THEN Do("clear")
    ELSE Character(k, shift # (caps_locked /\ k \in Letters))

\* Every key of the tables does what the keys held down say, CTRL-L before all,
\* CAPS LOCK turning SHIFT round for letters only, two SHIFT keys counted apart;
\* and the function keys change the terminal with ALT down only.  This is so as long as no
\* modifier repeats: each make code counts, and its key has one break code (keyboard.c:79).
KeysMeanWhatIsHeld ==
    /\ \A k \in TableKeys : Meaning(k) = Expected(k)
    /\ \A k \in FKeys : Meaning(k).op = k <=> "alt" \in held
===============================================================================
