---------------------------- MODULE ConsoleProofs ----------------------------
(***************************************************************************)
(* Proofs about Keyboard and Console, for any size of the screen and any   *)
(* number of terminals: every key means what the keys held down say, the   *)
(* cursor follows, and the pages of text memory implement Screens.         *)
(***************************************************************************)
EXTENDS Console, TLAPS

-------------------------------------------------------------------------------
(* Keyboard: the counters are the keys that are down, as long as the       *)
(* keyboard repeats no make code.                                          *)

Down(k) == IF k \in held THEN 1 ELSE 0

KeyInv ==
    /\ held \subseteq Modifiers
    /\ alt_press = Down("alt")
    /\ shift_press = Down("lshift") + Down("rshift")
    /\ ctrl_press = Down("ctrl")
    /\ caps_on \in BOOLEAN /\ caps_locked = caps_on

LEMMA KeyInvInit == KeyInit => KeyInv
<1> SUFFICES ASSUME KeyInit PROVE KeyInv
  OBVIOUS
<1>1. Down("alt") = 0 /\ Down("ctrl") = 0 /\ Down("lshift") = 0 /\ Down("rshift") = 0
  BY DEF KeyInit, Down
<1>2. caps_on \in BOOLEAN /\ caps_locked = caps_on
  BY Zenon DEF KeyInit
<1>3. QED BY <1>1, <1>2 DEF KeyInit, KeyInv

LEMMA MakeKeeps == ASSUME ~Repeats, KeyInv, NEW k \in Keys, Make(k) PROVE KeyInv'
<1>1. CASE k \in Modifiers
  <2>1. k \notin held /\ held' = held \union {k}
    BY <1>1 DEF Make
  <2>2. k \in {"lshift", "rshift", "alt", "ctrl"}
    BY <1>1 DEF Modifiers, Shifts
  <2>3. alt_press' = Down("alt")' /\ ctrl_press' = Down("ctrl")'
    BY <2>1, <2>2 DEF Make, KeyInv, Down
  <2>4. shift_press' = Down("lshift")' + Down("rshift")'
    BY <2>1, <2>2 DEF Make, KeyInv, Down, Shifts
  <2>5. caps_on' = caps_on /\ caps_locked' = caps_locked
    BY <2>2 DEF Make
  <2>6. QED BY <1>1, <2>1, <2>3, <2>4, <2>5 DEF KeyInv
<1>2. CASE k \notin Modifiers
  <2>1. held' = held /\ k # "alt" /\ k # "ctrl" /\ k \notin Shifts
    BY <1>2 DEF Make, Modifiers
  <2>2. UNCHANGED <<alt_press, shift_press, ctrl_press>>
    BY <2>1 DEF Make
  <2>3. caps_on' \in BOOLEAN /\ caps_locked' = caps_on'
    BY DEF Make, KeyInv
  <2>4. QED BY <2>1, <2>2, <2>3 DEF KeyInv, Down
<1>3. QED BY <1>1, <1>2

LEMMA BreakKeeps == ASSUME KeyInv, NEW k, Break(k) PROVE KeyInv'
<1>1. k \in held /\ held' = held \ {k}
  BY DEF Break
<1>2. k \in {"lshift", "rshift", "alt", "ctrl"}
  BY <1>1 DEF KeyInv, Modifiers, Shifts
<1>3. alt_press' = Down("alt")' /\ ctrl_press' = Down("ctrl")'
  BY <1>1, <1>2 DEF Break, KeyInv, Down
<1>4. shift_press' = Down("lshift")' + Down("rshift")'
  BY <1>1, <1>2 DEF Break, KeyInv, Down, Shifts
<1>5. caps_on' = caps_on /\ caps_locked' = caps_locked
  BY DEF Break
<1>6. QED BY <1>1, <1>3, <1>4, <1>5 DEF KeyInv

\* The tests of keyboard_handler, on counters that tell what is held.
LEMMA TestsMeanHeld ==
    ASSUME KeyInv
    PROVE  /\ alt_press > 0 <=> "alt" \in held
           /\ ctrl_press > 0 <=> "ctrl" \in held
           /\ shift_press > 0 <=> held \intersect Shifts # {}
<1>1. held \intersect Shifts # {} <=> "lshift" \in held \/ "rshift" \in held
  BY DEF Shifts
<1>2. QED BY <1>1 DEF KeyInv, Down

LEMMA KindsOfKeys ==
    /\ \A k \in TableKeys : /\ k \notin Modifiers \union {"caps"} /\ k # "backspace"
                            /\ k \notin FKeys
    /\ \A k \in FKeys : /\ k \notin Modifiers \union {"caps"} /\ k # "backspace"
                        /\ k # "L" /\ k # "return" /\ k \notin TableKeys /\ k # "beyond"
BY FKeysAssumption DEF TableKeys, Letters, Modifiers, Shifts

LEMMA TableKeyMeans == ASSUME KeyInv, NEW k \in TableKeys PROVE Meaning(k) = Expected(k)
<1> DEFINE shift == held \intersect Shifts # {}
           ctrl == "ctrl" \in held
<1>1. (shift_press > 0 <=> shift) /\ (ctrl_press > 0 <=> ctrl)
  BY TestsMeanHeld
<1>2. Meaning(k) = IF k = "L" /\ ctrl THEN Do("clear")
                   ELSE IF caps_on THEN caps_on_handler(k)
                   ELSE IF shift THEN Character(k, TRUE) ELSE Character(k, FALSE)
  BY <1>1, KindsOfKeys, Zenon DEF Meaning, keys, shift_keys
<1>3. caps_on_handler(k) = IF shift
                           THEN IF k \in Letters THEN Character(k, FALSE) ELSE Character(k, TRUE)
                           ELSE IF k \in Letters THEN Character(k, TRUE) ELSE Character(k, FALSE)
  BY <1>1, Zenon DEF caps_on_handler, letter_check, keys, shift_keys
<1>4. Expected(k) = IF k = "L" /\ ctrl THEN Do("clear")
                    ELSE Character(k, shift # (caps_locked /\ k \in Letters))
  BY DEF Expected
<1>5. caps_locked = caps_on /\ caps_on \in BOOLEAN
  BY DEF KeyInv
<1> HIDE DEF shift, ctrl
<1>6. shift \in BOOLEAN
  BY DEF shift
<1>7. CASE caps_on = TRUE
  <2>1. (shift # (caps_locked /\ k \in Letters)) =
        IF k \in Letters THEN ~shift ELSE shift
    <3>1. caps_locked = TRUE
      BY <1>5, <1>7, Zenon
    <3>2. CASE k \in Letters
      <4>1. (caps_locked /\ k \in Letters) = TRUE
        BY <3>1, <3>2, Zenon
      <4>2. QED BY <1>6, <3>2, <4>1
    <3>3. CASE k \notin Letters
      <4>1. (caps_locked /\ k \in Letters) = FALSE
        BY <3>3
      <4>2. QED BY <1>6, <3>3, <4>1
    <3>4. QED BY <3>2, <3>3
  <2>2. QED BY <1>2, <1>3, <1>4, <1>6, <1>7, <2>1
<1>8. CASE caps_on = FALSE
  <2>1. (shift # (caps_locked /\ k \in Letters)) = shift
    <3>1. caps_locked = FALSE
      BY <1>5, <1>8, Zenon
    <3>2. (caps_locked /\ k \in Letters) = FALSE
      BY <3>1, Zenon
    <3>3. QED BY <1>6, <3>2
  <2>2. Expected(k) = IF k = "L" /\ ctrl THEN Do("clear") ELSE Character(k, shift)
    BY <1>4, <2>1, Zenon
  <2>3. ~caps_on
    BY <1>8, Zenon
  <2>4. CASE shift = TRUE
    <3>1. Character(k, shift) = Character(k, TRUE) /\ shift
      BY <2>4, Zenon
    <3>2. QED BY <1>2, <2>2, <2>3, <3>1
  <2>5. CASE shift = FALSE
    <3>1. Character(k, shift) = Character(k, FALSE) /\ ~shift
      BY <2>5, Zenon
    <3>2. QED BY <1>2, <2>2, <2>3, <3>1
  <2>6. QED BY <1>6, <2>4, <2>5
<1>9. QED BY <1>5, <1>7, <1>8

LEMMA FunctionKeyMeans ==
    ASSUME KeyInv, NEW k \in FKeys PROVE Meaning(k).op = k <=> "alt" \in held
<1>1. Meaning(k) = IF alt_press > 0 THEN Do(k)
                   ELSE IF caps_on THEN caps_on_handler(k)
                   ELSE IF shift_press > 0 THEN shift_keys(k) ELSE keys(k)
  BY KindsOfKeys, Zenon DEF Meaning
<1>2. \A s : Character(k, s) = Do("beyond")
  BY KindsOfKeys DEF Character
<1>3. Do("beyond").op = "beyond" /\ Do(k).op = k /\ k # "beyond"
  BY KindsOfKeys DEF Do
<1>4. ~(alt_press > 0) => Meaning(k) = Do("beyond")
  BY <1>1, <1>2 DEF caps_on_handler, keys, shift_keys
<1>5. QED BY <1>1, <1>3, <1>4, TestsMeanHeld

LEMMA KeysMean == KeyInv => KeysMeanWhatIsHeld
BY TableKeyMeans, FunctionKeyMeans DEF KeysMeanWhatIsHeld

LEMMA KeyInvStep == ASSUME ~Repeats, KeyInv, [Next]_vars PROVE KeyInv'
<1>1. ASSUME NEW k \in Keys, KeyPressed(k) PROVE KeyInv'
  BY <1>1, MakeKeeps DEF KeyPressed
<1>2. ASSUME NEW k \in Modifiers, KeyReleased(k) PROVE KeyInv'
  BY <1>2, BreakKeeps DEF KeyReleased
<1>3. CASE UNCHANGED keyVars
  BY <1>3 DEF keyVars, KeyInv, Down
<1>4. QED BY <1>1, <1>2, <1>3 DEF Next, vars, ProgramPuts, ProgramDraws, PitSwitch

\* KeysMeanWhatIsHeld: with no repeated make codes, keyboard_handler's counters, its order
\* of tests and its tables give every key the meaning that the keys held down give it.
THEOREM KeysMeanHolds == ASSUME ~Repeats PROVE Spec => []KeysMeanWhatIsHeld
<1>1. Init => KeyInv
  BY KeyInvInit DEF Init
<1>2. KeyInv /\ [Next]_vars => KeyInv'
  BY KeyInvStep
<1>3. QED BY <1>1, <1>2, KeysMean, PTL DEF Spec

-------------------------------------------------------------------------------
(* Console: which page is whose, and where the next character goes.        *)

\* The page that holds what a user sees of terminal t.
PageFor(t) == IF t = displayed_terminal THEN Screen ELSE t

TextInv ==
    /\ mem \in [{Screen} \union Terminals -> [Cells -> Characters]]
    /\ screen_x \in [Terminals -> 0 .. NUM_COLS - 1]
    /\ screen_y \in [Terminals -> 0 .. NUM_ROWS - 1]
    /\ displayed_terminal \in Terminals

\* Every program's USER_VIDEO, the TLB included, is the page of its terminal.
OwnerInv ==
    /\ live \subseteq Terminals /\ displayed_terminal \in live /\ running \in live
    /\ key_press = 0 /\ video_mem = "USER_VIDEO"
    /\ user_video \in [Terminals -> {Screen, Unmapped} \union Terminals]
    /\ \A t \in live : user_video[t] = PageFor(t)
    /\ tlb \in {Unmapped, PageFor(running)}

FreshInv == \A t \in Terminals \ live : screen_x[t] = 0 /\ screen_y[t] = 0

ConInv == TextInv /\ OwnerInv /\ FreshInv /\ CursorFollows

\* The variables of Screens.
AllScreens   == [t \in Terminals |-> mem[PageFor(t)]]
AllPositions == [t \in Terminals |-> screen_y[t] * NUM_COLS + screen_x[t]]

ScreenStep == [ScreensOf!Next]_ScreensOf!vars

LEMMA Mapping ==
    /\ ScreensOf!vars = <<AllScreens, AllPositions, displayed_terminal>>
    /\ ScreensOf!Size = NUM_COLS * NUM_ROWS /\ ScreensOf!Cells = Cells
BY ScreenAssumption DEF ScreensOf!vars, ScreensOf!Size, ScreensOf!Cells, Cells, AllScreens,
                        AllPositions, PageFor

LEMMA Pages ==
    /\ Screen \notin Terminals /\ Unmapped \notin Terminals /\ Screen # Unmapped
    /\ 0 \in Terminals /\ Terminals \subseteq Nat
    /\ NewLine \notin Characters /\ Blank \in Characters /\ "mark" \in Characters
    /\ \A t, r \in Terminals : PageFor(t) = PageFor(r) => t = r
    /\ \A t \in Terminals : PageFor(t) \in {Screen} \union Terminals
BY ScreenAssumption DEF Terminals, Screen, Unmapped, PageFor, Characters, NewLine, Blank

-------------------------------------------------------------------------------
(* Places on a screen *)

\* Row y and column x, and the place they are.
LEMMA Place ==
    ASSUME NEW x \in 0 .. NUM_COLS - 1, NEW y \in 0 .. NUM_ROWS - 1
    PROVE  /\ y * NUM_COLS + x \in Cells /\ NUM_COLS * y + x = y * NUM_COLS + x
           /\ (y * NUM_COLS + x) \div NUM_COLS = y
BY ScreenAssumption DEF Cells

\* The column and the row after it, before the last column of the last row.
LEMMA NextPlace ==
    ASSUME NEW x \in 0 .. NUM_COLS - 1, NEW y \in 0 .. NUM_ROWS - 1,
           ~(x = NUM_COLS - 1 /\ y = NUM_ROWS - 1)
    PROVE  /\ (x + 1) % NUM_COLS = IF x = NUM_COLS - 1 THEN 0 ELSE x + 1
           /\ (y + x \div (NUM_COLS - 1)) % NUM_ROWS = IF x = NUM_COLS - 1 THEN y + 1 ELSE y
<1>1. CASE x = NUM_COLS - 1
  <2>1. x \div (NUM_COLS - 1) = 1
    BY <1>1, ScreenAssumption
  <2>2. QED BY <1>1, <2>1, ScreenAssumption
<1>2. CASE x # NUM_COLS - 1
  <2>1. x \div (NUM_COLS - 1) = 0
    BY <1>2, ScreenAssumption
  <2>2. QED BY <1>2, <2>1, ScreenAssumption
<1>3. QED BY <1>1, <1>2

\* ScrollUp is the move of everything one row up.
MovedUp(text) ==
    [c \in Cells |-> IF c + NUM_COLS < NUM_COLS * NUM_ROWS THEN text[c + NUM_COLS] ELSE Blank]

LEMMA Scrolls ==
    ASSUME NEW text \in [Cells -> Characters]
    PROVE  ScrollUp(text) \in [Cells -> Characters] /\ ScrollUp(text) = MovedUp(text)
<1>1. \A c \in Cells : /\ c \div NUM_COLS = NUM_ROWS - 1 <=> ~(c + NUM_COLS < NUM_COLS * NUM_ROWS)
                       /\ c + NUM_COLS \in Cells <=> c + NUM_COLS < NUM_COLS * NUM_ROWS
  BY ScreenAssumption DEF Cells
<1> DEFINE up == [c \in Cells |-> IF c + NUM_COLS \in Cells THEN text[c + NUM_COLS] ELSE text[c]]
<1>2. ScrollUp(text) = [c \in Cells |-> IF c \div NUM_COLS = NUM_ROWS - 1 THEN Blank ELSE up[c]]
  BY DEF ScrollUp, clear_row
<1>3. \A c \in Cells : (IF c \div NUM_COLS = NUM_ROWS - 1 THEN Blank ELSE up[c]) =
         IF c + NUM_COLS < NUM_COLS * NUM_ROWS THEN text[c + NUM_COLS] ELSE Blank
  BY <1>1
<1>4. ScrollUp(text) = MovedUp(text)
  BY <1>2, <1>3 DEF MovedUp
<1>5. \A c \in Cells : (IF c + NUM_COLS < NUM_COLS * NUM_ROWS THEN text[c + NUM_COLS]
                        ELSE Blank) \in Characters
  BY <1>1, Pages
<1>6. QED BY <1>4, <1>5 DEF MovedUp

-------------------------------------------------------------------------------
(* One terminal changes *)

\* A new text on the page of terminal t is a new screen of t.
LEMMA OneScreen ==
    ASSUME TextInv, NEW t \in Terminals, NEW text \in [Cells -> Characters],
           mem' = [mem EXCEPT ![PageFor(t)] = text], displayed_terminal' = displayed_terminal
    PROVE  /\ AllScreens' = [AllScreens EXCEPT ![t] = text]
           /\ mem' \in [{Screen} \union Terminals -> [Cells -> Characters]]
<1>1. \A r \in Terminals : PageFor(r)' = PageFor(r)
  BY DEF PageFor
<1>2. \A r \in Terminals : mem'[PageFor(r)] = IF r = t THEN text ELSE mem[PageFor(r)]
  BY Pages DEF TextInv
<1>3. AllScreens' = [AllScreens EXCEPT ![t] = text]
  BY <1>1, <1>2 DEF AllScreens
<1>4. QED BY <1>3, Pages DEF TextInv

\* A new row and column of terminal t is a new position of t.
LEMMA OnePosition ==
    ASSUME TextInv, NEW t \in Terminals, NEW a \in 0 .. NUM_COLS - 1, NEW b \in 0 .. NUM_ROWS - 1,
           screen_x' = [screen_x EXCEPT ![t] = a], screen_y' = [screen_y EXCEPT ![t] = b]
    PROVE  /\ AllPositions' = [AllPositions EXCEPT ![t] = b * NUM_COLS + a]
           /\ screen_x' \in [Terminals -> 0 .. NUM_COLS - 1] /\ screen_x'[t] = a
           /\ screen_y' \in [Terminals -> 0 .. NUM_ROWS - 1] /\ screen_y'[t] = b
           /\ \A r \in Terminals \ {t} : screen_x'[r] = screen_x[r] /\ screen_y'[r] = screen_y[r]
<1>1. /\ screen_x' \in [Terminals -> 0 .. NUM_COLS - 1] /\ screen_x'[t] = a
      /\ screen_y' \in [Terminals -> 0 .. NUM_ROWS - 1] /\ screen_y'[t] = b
      /\ \A r \in Terminals \ {t} : screen_x'[r] = screen_x[r] /\ screen_y'[r] = screen_y[r]
  BY DEF TextInv
<1>2. \A r \in Terminals : screen_y'[r] * NUM_COLS + screen_x'[r] =
         IF r = t THEN b * NUM_COLS + a ELSE screen_y[r] * NUM_COLS + screen_x[r]
  BY <1>1
<1>3. QED BY <1>1, <1>2 DEF AllPositions

-------------------------------------------------------------------------------
(* putc *)

\* A terminal's new page, row and column are the new text and place of a GoTo.
LEMMA GoesTo ==
    ASSUME TextInv, NEW t \in Terminals, displayed_terminal' = displayed_terminal,
           NEW a \in 0 .. NUM_COLS - 1, NEW b \in 0 .. NUM_ROWS - 1,
           NEW new \in [Cells -> Characters],
           screen_x' = [screen_x EXCEPT ![t] = a], screen_y' = [screen_y EXCEPT ![t] = b],
           mem' = [mem EXCEPT ![PageFor(t)] = new],
           NEW p, NEW text,
           \/ p < NUM_COLS * NUM_ROWS /\ b * NUM_COLS + a = p /\ new = text
           \/ /\ ~(p < NUM_COLS * NUM_ROWS) /\ new = MovedUp(text)
              /\ b * NUM_COLS + a = NUM_COLS * NUM_ROWS - NUM_COLS
    PROVE  TextInv' /\ ScreensOf!GoTo(t, p, text)
<1>1. AllScreens' = [AllScreens EXCEPT ![t] = new]
  BY OneScreen
<1>2. AllPositions' = [AllPositions EXCEPT ![t] = b * NUM_COLS + a]
  BY OnePosition
<1>3. TextInv'
  BY OneScreen, OnePosition DEF TextInv
<1>4. ScreensOf!GoTo(t, p, text) =
         (/\ AllScreens' = [AllScreens EXCEPT ![t] =
                               IF p < NUM_COLS * NUM_ROWS THEN text ELSE MovedUp(text)]
          /\ AllPositions' = [AllPositions EXCEPT ![t] =
                 IF p < NUM_COLS * NUM_ROWS THEN p ELSE NUM_COLS * NUM_ROWS - NUM_COLS]
          /\ displayed_terminal' = displayed_terminal)
  BY Mapping, Zenon DEF ScreensOf!GoTo, AllScreens, AllPositions, PageFor, MovedUp
<1>5. ScreensOf!GoTo(t, p, text)
  BY <1>1, <1>2, <1>4
<1>6. QED BY <1>3, <1>5

\* Put goes to the next row or to the next place.
LEMMA PutGoesTo ==
    ASSUME NEW t \in Terminals, NEW ch, NEW at, at = AllPositions[t], NEW old, old = AllScreens[t],
           NEW p, p = IF ch = NewLine THEN (at \div NUM_COLS + 1) * NUM_COLS ELSE at + 1,
           NEW text, text = IF ch = NewLine THEN old ELSE [old EXCEPT ![at] = ch],
           ScreensOf!GoTo(t, p, text)
    PROVE  ScreensOf!Put(t, ch)
<1>1. CASE ch = NewLine
  BY <1>1 DEF ScreensOf!Put, ScreensOf!GoTo, AllScreens, AllPositions, PageFor
<1>2. CASE ch # NewLine
  BY <1>2 DEF ScreensOf!Put, ScreensOf!GoTo, AllScreens, AllPositions, PageFor
<1>3. QED BY <1>1, <1>2

\* The body of putc on the page of its terminal puts one character there.
LEMMA Puts ==
    ASSUME TextInv, NEW t \in Terminals, NEW ch \in Characters \union {NewLine},
           PutcOn(PageFor(t), t, ch), displayed_terminal' = displayed_terminal
    PROVE  TextInv' /\ ScreensOf!Put(t, ch)
<1>1. PICK x, y, page, old, at :
         /\ x = screen_x[t] /\ y = screen_y[t] /\ page = PageFor(t) /\ old = mem[page]
         /\ at = NUM_COLS * y + x
  OBVIOUS
<1>2. x \in 0 .. NUM_COLS - 1 /\ y \in 0 .. NUM_ROWS - 1
  BY <1>1 DEF TextInv
<1>3. at = y * NUM_COLS + x /\ at \in Cells /\ at \div NUM_COLS = y /\ AllPositions[t] = at
  BY <1>1, <1>2, Place DEF AllPositions
<1>4. /\ old \in [Cells -> Characters] /\ AllScreens[t] = old
      /\ mem \in [{Screen} \union Terminals -> [Cells -> Characters]]
      /\ page \in {Screen} \union Terminals
  BY <1>1, Pages DEF TextInv, AllScreens
<1>5. PICK p, text : /\ p = IF ch = NewLine THEN (at \div NUM_COLS + 1) * NUM_COLS ELSE at + 1
                     /\ text = IF ch = NewLine THEN old ELSE [old EXCEPT ![at] = ch]
  OBVIOUS
<1>6. text \in [Cells -> Characters]
  BY <1>3, <1>4, <1>5
<1>7. ScreensOf!GoTo(t, p, text) => ScreensOf!Put(t, ch)
  BY <1>3, <1>4, <1>5, PutGoesTo
<1>8. PICK a, b, new :
         /\ a = IF ch = NewLine \/ x = NUM_COLS - 1 THEN 0 ELSE x + 1
         /\ b = IF (ch = NewLine \/ x = NUM_COLS - 1) /\ y # NUM_ROWS - 1 THEN y + 1 ELSE y
         /\ new = IF (ch = NewLine \/ x = NUM_COLS - 1) /\ y = NUM_ROWS - 1
                  THEN ScrollUp(text) ELSE text
  OBVIOUS
<1>9. a \in 0 .. NUM_COLS - 1 /\ b \in 0 .. NUM_ROWS - 1 /\ new \in [Cells -> Characters]
  <2>1. a \in 0 .. NUM_COLS - 1 /\ b \in 0 .. NUM_ROWS - 1
    BY <1>2, <1>8, ScreenAssumption
  <2>2. new \in [Cells -> Characters]
    BY <1>6, <1>8, Scrolls
  <2>3. QED BY <2>1, <2>2
<1>10. /\ mem' = [mem EXCEPT ![page] = new]
       /\ screen_x' = [screen_x EXCEPT ![t] = a] /\ screen_y' = [screen_y EXCEPT ![t] = b]
  <2>1. CASE ch = NewLine
    <3>1. /\ mem' = IF y # NUM_ROWS - 1 THEN mem ELSE [mem EXCEPT ![page] = ScrollUp(old)]
          /\ screen_y' = [screen_y EXCEPT ![t] = IF y # NUM_ROWS - 1 THEN y + 1 ELSE y]
          /\ screen_x' = [screen_x EXCEPT ![t] = 0]
      BY <1>1, <1>4, <2>1 DEF PutcOn
    <3>2. mem = [mem EXCEPT ![page] = old]
      BY <1>1, <1>4
    <3>3. text = old
      BY <1>5, <2>1
    <3>4. QED BY <1>8, <2>1, <3>1, <3>2, <3>3
  <2>2. CASE ch # NewLine
    <3>1. text = [mem[page] EXCEPT ![at] = ch]
      BY <1>1, <1>5, <2>2
    <3>2. CASE x = NUM_COLS - 1 /\ y = NUM_ROWS - 1
      <4>1. /\ mem' = [mem EXCEPT ![page] = ScrollUp(text)]
            /\ screen_y' = [screen_y EXCEPT ![t] = y] /\ screen_x' = [screen_x EXCEPT ![t] = 0]
        BY <1>1, <2>2, <3>1, <3>2 DEF PutcOn
      <4>2. QED BY <1>8, <3>2, <4>1
    <3>3. CASE ~(x = NUM_COLS - 1 /\ y = NUM_ROWS - 1)
      <4>1. /\ mem' = [mem EXCEPT ![page] = text]
            /\ screen_y' = [screen_y EXCEPT ![t] = (y + x \div (NUM_COLS - 1)) % NUM_ROWS]
            /\ screen_x' = [screen_x EXCEPT ![t] = (x + 1) % NUM_COLS]
        BY <1>1, <2>2, <3>1, <3>3 DEF PutcOn
      <4>2. /\ (x + 1) % NUM_COLS = a
            /\ (y + x \div (NUM_COLS - 1)) % NUM_ROWS = b
            /\ new = text
        BY <1>2, <1>8, <2>2, <3>3, NextPlace
      <4>3. QED BY <4>1, <4>2
    <3>4. QED BY <3>2, <3>3
  <2>3. QED BY <2>1, <2>2
<1>11. \/ p < NUM_COLS * NUM_ROWS /\ b * NUM_COLS + a = p /\ new = text
       \/ /\ ~(p < NUM_COLS * NUM_ROWS) /\ new = MovedUp(text)
          /\ b * NUM_COLS + a = NUM_COLS * NUM_ROWS - NUM_COLS
  <2>1. CASE (ch = NewLine \/ x = NUM_COLS - 1) /\ y = NUM_ROWS - 1
    <3>1. a = 0 /\ b = NUM_ROWS - 1 /\ new = MovedUp(text)
      BY <1>6, <1>8, <2>1, Scrolls
    <3>2. p = NUM_COLS * NUM_ROWS
      BY <1>2, <1>3, <1>5, <2>1, ScreenAssumption
    <3>3. (NUM_ROWS - 1) * NUM_COLS + 0 = NUM_COLS * NUM_ROWS - NUM_COLS
      BY ScreenAssumption
    <3>4. ~(NUM_COLS * NUM_ROWS < NUM_COLS * NUM_ROWS)
      BY ScreenAssumption
    <3>5. QED BY <3>1, <3>2, <3>3, <3>4
  <2>2. CASE ~((ch = NewLine \/ x = NUM_COLS - 1) /\ y = NUM_ROWS - 1)
    <3>1. new = text
      BY <1>8, <2>2
    <3>2. b * NUM_COLS + a = p
      BY <1>2, <1>3, <1>5, <1>8, <2>2, ScreenAssumption
    <3>3. b * NUM_COLS + a < NUM_COLS * NUM_ROWS
      BY <1>9, Place, ScreenAssumption DEF Cells
    <3>4. QED BY <3>1, <3>2, <3>3
  <2>3. QED BY <2>1, <2>2
<1>12. TextInv' /\ ScreensOf!GoTo(t, p, text)
  BY <1>1, <1>9, <1>10, <1>11, GoesTo
<1>13. QED BY <1>7, <1>12

LEMMA OthersStay ==
    ASSUME TextInv, NEW t, NEW ch, NEW page, PutcOn(page, t, ch)
    PROVE  \A r \in Terminals \ {t} : screen_x'[r] = screen_x[r] /\ screen_y'[r] = screen_y[r]
<1>1. \E a, b : screen_x' = [screen_x EXCEPT ![t] = a] /\ screen_y' = [screen_y EXCEPT ![t] = b]
  <2>1. CASE ch = NewLine
    BY <2>1 DEF PutcOn
  <2>2. CASE ch # NewLine
    BY <2>2 DEF PutcOn
  <2>3. QED BY <2>1, <2>2
<1>2. QED BY <1>1 DEF TextInv

LEMMA UserPageIsOwn == ASSUME OwnerInv PROVE UserPage = PageFor(running)
BY DEF OwnerInv, UserPage

LEMMA PutcStep ==
    ASSUME ConInv, NEW pressed \in {0, 1}, NEW ch \in Characters \union {NewLine},
           putc(pressed, ch), key_press' = 0
    PROVE  ConInv' /\ ScreensOf!Next
<1>1. PICK t : t = IF pressed = 0 THEN running ELSE displayed_terminal
  OBVIOUS
<1>2. /\ PutcOn(PageFor(t), t, ch) /\ video_mem' = "USER_VIDEO"
      /\ tlb' \in {Unmapped, PageFor(running)}
      /\ UNCHANGED <<displayed_terminal, user_video, running, live>>
  <2>1. video_mem = "USER_VIDEO" /\ "USER_VIDEO" # "VIDEO" /\ tlb \in {Unmapped, PageFor(running)}
    BY DEF ConInv, OwnerInv
  <2>2. CASE pressed = 0
    <3>1. PutcOn(UserPage, running, ch) /\ tlb' = UserPage /\ video_mem' = video_mem
      BY <2>1, <2>2 DEF putc
    <3>2. t = running /\ UserPage = PageFor(t)
      BY <1>1, <2>2, UserPageIsOwn DEF ConInv
    <3>3. PutcOn(PageFor(t), t, ch)
      BY <3>1, <3>2 DEF PutcOn
    <3>4. QED BY <2>1, <3>1, <3>2, <3>3 DEF putc
  <2>3. CASE pressed = 1
    <3>1. PutcOn(Screen, displayed_terminal, ch) /\ tlb' = tlb /\ video_mem' = "USER_VIDEO"
      BY <2>3 DEF putc
    <3>2. t = displayed_terminal /\ PageFor(t) = Screen
      BY <1>1, <2>3 DEF PageFor
    <3>3. PutcOn(PageFor(t), t, ch)
      BY <3>1, <3>2 DEF PutcOn
    <3>4. QED BY <2>1, <3>1, <3>3 DEF putc
  <2>4. QED BY <2>2, <2>3
<1>3. t \in live /\ t \in Terminals
  BY <1>1 DEF ConInv, OwnerInv
<1>4. TextInv' /\ ScreensOf!Put(t, ch)
  BY <1>2, <1>3, Puts DEF ConInv
<1>5. \A r \in Terminals \ {t} : screen_x'[r] = screen_x[r] /\ screen_y'[r] = screen_y[r]
  BY <1>2, OthersStay DEF ConInv
<1>6. OwnerInv'
  <2>1. \A r : PageFor(r)' = PageFor(r)
    BY <1>2 DEF PageFor
  <2>2. tlb' \in {Unmapped, PageFor(running)'}
    BY <1>2, <2>1 DEF PageFor
  <2>3. QED BY <1>2, <2>1, <2>2 DEF ConInv, OwnerInv
<1>7. FreshInv'
  BY <1>2, <1>3, <1>5 DEF ConInv, FreshInv
<1>8. CursorFollows'
  <2>1. CASE t = displayed_terminal
    <3>1. cursor' = screen_y'[t] * NUM_COLS + screen_x'[t]
      BY <1>2, <2>1 DEF PutcOn, update_cursor
    <3>2. QED BY <1>2, <2>1, <3>1 DEF CursorFollows
  <2>2. CASE t # displayed_terminal
    <3>1. cursor' = cursor
      BY <1>2, <2>2 DEF PutcOn
    <3>2. QED BY <1>2, <1>5, <2>2, <3>1 DEF ConInv, TextInv, CursorFollows
  <2>3. QED BY <2>1, <2>2
<1>9. ScreensOf!Next
  BY <1>3, <1>4 DEF ScreensOf!Next
<1>10. QED BY <1>4, <1>6, <1>7, <1>8, <1>9 DEF ConInv

-------------------------------------------------------------------------------
(* backspace, reset_screen and drawing *)

LEMMA BackspaceStep ==
    ASSUME ConInv, backspace, key_press' = 0 PROVE ConInv' /\ ScreenStep
<1>1. PICK t, x, y : t = displayed_terminal /\ x = screen_x[t] /\ y = screen_y[t]
  OBVIOUS
<1>2. /\ t \in Terminals /\ t \in live /\ PageFor(t) = Screen
      /\ x \in 0 .. NUM_COLS - 1 /\ y \in 0 .. NUM_ROWS - 1
  BY <1>1 DEF ConInv, TextInv, OwnerInv, PageFor
<1>3. /\ video_mem' = "USER_VIDEO"
      /\ UNCHANGED <<displayed_terminal, user_video, tlb, running, live>>
  BY DEF backspace
<1>4. OwnerInv'
  BY <1>3 DEF ConInv, OwnerInv, PageFor
<1>5. CASE x = 0 /\ y = 0
  <2>1. UNCHANGED <<mem, screen_x, screen_y, cursor>>
    BY <1>1, <1>5 DEF backspace
  <2>2. ConInv'
    BY <1>3, <1>4, <2>1 DEF ConInv, TextInv, FreshInv, CursorFollows
  <2>3. ScreenStep
    BY <1>3, <2>1, Mapping DEF ScreenStep, ScreensOf!vars
  <2>4. QED BY <2>2, <2>3
<1>6. CASE ~(x = 0 /\ y = 0)
  <2>1. PICK a, b : /\ a = IF x # 0 THEN x - 1 ELSE NUM_COLS - 1
                    /\ b = IF x # 0 THEN y ELSE y - 1
    OBVIOUS
  <2>2. /\ a \in 0 .. NUM_COLS - 1 /\ b \in 0 .. NUM_ROWS - 1
        /\ b * NUM_COLS + a = y * NUM_COLS + x - 1
    BY <1>2, <1>6, <2>1, ScreenAssumption
  <2>3. /\ screen_x' = [screen_x EXCEPT ![t] = a] /\ screen_y' = [screen_y EXCEPT ![t] = b]
        /\ mem' = [mem EXCEPT ![Screen][NUM_COLS * screen_y'[t] + screen_x'[t]] = Blank]
        /\ cursor' = screen_y'[t] * NUM_COLS + screen_x'[t]
    BY <1>1, <1>6, <2>1 DEF backspace, update_cursor
  <2>4. /\ AllPositions' = [AllPositions EXCEPT ![t] = b * NUM_COLS + a]
        /\ screen_x' \in [Terminals -> 0 .. NUM_COLS - 1] /\ screen_x'[t] = a
        /\ screen_y' \in [Terminals -> 0 .. NUM_ROWS - 1] /\ screen_y'[t] = b
        /\ \A r \in Terminals \ {t} : screen_x'[r] = screen_x[r] /\ screen_y'[r] = screen_y[r]
    BY <1>2, <2>2, <2>3, OnePosition DEF ConInv
  <2>5. PICK p, text : p = b * NUM_COLS + a /\ text = [mem[Screen] EXCEPT ![p] = Blank]
    OBVIOUS
  <2>6. p \in Cells /\ NUM_COLS * b + a = p
    BY <2>2, <2>5, Place
  <2>7. text \in [Cells -> Characters] /\ mem' = [mem EXCEPT ![Screen] = text]
    BY <2>3, <2>4, <2>5, <2>6, Pages DEF ConInv, TextInv
  <2>8. /\ AllScreens' = [AllScreens EXCEPT ![t] = text]
        /\ mem' \in [{Screen} \union Terminals -> [Cells -> Characters]]
    BY <1>2, <1>3, <2>7, OneScreen DEF ConInv
  <2>9. AllScreens[t] = mem[Screen] /\ AllPositions[t] = y * NUM_COLS + x
    BY <1>1, <1>2 DEF AllScreens, AllPositions
  <2>10. TextInv' /\ FreshInv' /\ CursorFollows'
    BY <1>1, <1>2, <1>3, <2>3, <2>4, <2>8 DEF ConInv, TextInv, FreshInv, CursorFollows
  <2>11. ScreensOf!Erase
    <3>1. AllPositions[t] > 0 /\ AllPositions[t] - 1 = p
      <4>1. y * NUM_COLS + x \in Nat /\ p \in Nat
        BY <1>2, <2>6, Place, ScreenAssumption DEF Cells
      <4>2. (y * NUM_COLS + x) - 1 = p
        BY <1>2, <2>2, <2>5, ScreenAssumption
      <4>3. y * NUM_COLS + x > 0
        BY <1>2, <4>1, <4>2, ScreenAssumption
      <4>4. QED BY <2>9, <4>2, <4>3, Zenon
    <3>2. AllPositions' = [AllPositions EXCEPT ![t] = AllPositions[t] - 1] /\ AllPositions'[t] = p
      BY <1>2, <2>4, <2>5, <3>1 DEF AllPositions
    <3>3. AllScreens' = [AllScreens EXCEPT ![t] = [AllScreens[t] EXCEPT ![p] = Blank]]
      BY <2>5, <2>8, <2>9
    <3>4. AllScreens' = [AllScreens EXCEPT ![t][AllPositions'[t]] = Blank]
      BY <3>2, <3>3
    <3>5. QED BY <1>1, <1>3, <3>1, <3>2, <3>4
              DEF ScreensOf!Erase, AllScreens, AllPositions, PageFor
  <2>12. QED BY <1>4, <2>10, <2>11 DEF ConInv, ScreenStep, ScreensOf!Next
<1>7. QED BY <1>5, <1>6

LEMMA ResetStep == ASSUME ConInv, reset_screen, key_press' = 0 PROVE ConInv' /\ ScreensOf!Next
<1>1. PICK t, text : t = displayed_terminal /\ text = [c \in Cells |-> Blank]
  OBVIOUS
<1>2. /\ t \in Terminals /\ t \in live /\ PageFor(t) = Screen /\ text \in [Cells -> Characters]
      /\ 0 \in 0 .. NUM_COLS - 1 /\ 0 \in 0 .. NUM_ROWS - 1 /\ 0 * NUM_COLS + 0 = 0
  BY <1>1, Pages, ScreenAssumption DEF ConInv, TextInv, OwnerInv, PageFor
<1>3. /\ mem' = [mem EXCEPT ![PageFor(t)] = text]
      /\ screen_x' = [screen_x EXCEPT ![t] = 0] /\ screen_y' = [screen_y EXCEPT ![t] = 0]
      /\ cursor' = screen_x'[t] * NUM_COLS + screen_y'[t]
      /\ UNCHANGED <<displayed_terminal, video_mem, user_video, tlb, running, live>>
  BY <1>1, <1>2 DEF reset_screen, update_cursor
<1>4. AllScreens' = [AllScreens EXCEPT ![t] = text] /\ AllPositions' = [AllPositions EXCEPT ![t] = 0]
  BY <1>2, <1>3, OneScreen, OnePosition DEF ConInv
<1>5. TextInv' /\ FreshInv' /\ CursorFollows'
  <2>1. TextInv'
    BY <1>2, <1>3, OneScreen, OnePosition DEF ConInv, TextInv
  <2>2. /\ screen_x'[t] = 0 /\ screen_y'[t] = 0
        /\ \A r \in Terminals \ {t} : screen_x'[r] = screen_x[r] /\ screen_y'[r] = screen_y[r]
    BY <1>2, <1>3, OnePosition DEF ConInv
  <2>3. QED BY <1>1, <1>2, <1>3, <2>1, <2>2 DEF ConInv, FreshInv, CursorFollows
<1>6. OwnerInv'
  BY <1>3 DEF ConInv, OwnerInv, PageFor
<1>7. ScreensOf!Clear
  BY <1>1, <1>3, <1>4, Mapping DEF ScreensOf!Clear, AllScreens, AllPositions, PageFor
<1>8. QED BY <1>5, <1>6, <1>7 DEF ConInv, ScreensOf!Next

LEMMA DrawStep == ASSUME ConInv, ProgramDraws PROVE ConInv' /\ ScreensOf!Next
<1>1. PICK c \in Cells : mem' = [mem EXCEPT ![UserPage][c] = "mark"]
  BY DEF ProgramDraws
<1>2. PICK t, text : t = running /\ text = [mem[PageFor(t)] EXCEPT ![c] = "mark"]
  OBVIOUS
<1>3. /\ t \in Terminals /\ UserPage = PageFor(t) /\ tlb' = PageFor(t)
      /\ UNCHANGED <<screen_x, screen_y, cursor, displayed_terminal, key_press, video_mem,
                     user_video, running, live>>
  BY <1>2, UserPageIsOwn DEF ConInv, OwnerInv, ProgramDraws
<1>4. text \in [Cells -> Characters] /\ mem' = [mem EXCEPT ![PageFor(t)] = text]
  BY <1>1, <1>2, <1>3, Pages DEF ConInv, TextInv
<1>5. /\ AllScreens' = [AllScreens EXCEPT ![t] = text]
      /\ mem' \in [{Screen} \union Terminals -> [Cells -> Characters]]
  BY <1>3, <1>4, OneScreen DEF ConInv
<1>6. TextInv' /\ FreshInv' /\ CursorFollows'
  BY <1>3, <1>5 DEF ConInv, TextInv, FreshInv, CursorFollows
<1>7. OwnerInv'
  BY <1>2, <1>3 DEF ConInv, OwnerInv, PageFor
<1>8. ScreensOf!Draw(t, c, "mark")
  <2>1. AllScreens[t] = mem[PageFor(t)] /\ AllPositions' = AllPositions
    BY <1>3 DEF AllScreens, AllPositions
  <2>2. AllScreens' = [AllScreens EXCEPT ![t][c] = "mark"]
    BY <1>2, <1>5, <2>1
  <2>3. QED BY <1>3, <2>1, <2>2 DEF ScreensOf!Draw, AllScreens, AllPositions, PageFor
<1>9. ScreensOf!Next
  BY <1>3, <1>8, Mapping, Pages DEF ScreensOf!Next
<1>10. QED BY <1>6, <1>7, <1>9 DEF ConInv

-------------------------------------------------------------------------------
(* change_terminal and the PIT *)

LEMMA ChangeStep ==
    ASSUME ConInv, NEW new \in Terminals, change_terminal(new) PROVE ConInv' /\ ScreensOf!Next
<1>1. PICK old : old = displayed_terminal
  OBVIOUS
<1>2. /\ old \in Terminals /\ old \in live /\ new # old /\ live \subseteq Terminals
      /\ displayed_terminal' = new /\ tlb' = Unmapped /\ key_press' = 0
      /\ UNCHANGED <<screen_x, screen_y, video_mem>>
  BY <1>1 DEF ConInv, OwnerInv, TextInv, change_terminal
<1>3. /\ mem' \in [{Screen} \union Terminals -> [Cells -> Characters]]
      /\ mem'[Screen] = mem[new] /\ mem'[old] = mem[Screen]
      /\ \A t \in Terminals \ {old} : mem'[t] = mem[t]
  <2>1. mem' = [[mem EXCEPT ![old] = mem[Screen]] EXCEPT ![Screen] =
                   [mem EXCEPT ![old] = mem[Screen]][new]]
    BY <1>1 DEF change_terminal, Copied
  <2>2. PICK saved : saved = [mem EXCEPT ![old] = mem[Screen]]
    OBVIOUS
  <2>3. /\ saved \in [{Screen} \union Terminals -> [Cells -> Characters]]
        /\ saved[old] = mem[Screen] /\ saved[new] = mem[new]
        /\ \A t \in Terminals \ {old} : saved[t] = mem[t]
    BY <1>2, <2>2 DEF ConInv, TextInv
  <2>4. mem' = [saved EXCEPT ![Screen] = saved[new]]
    BY <2>1, <2>2
  <2>5. QED BY <1>2, <2>3, <2>4, Pages
<1>4. AllScreens' = AllScreens
  <2>1. \A t \in Terminals : mem'[PageFor(t)'] = mem[PageFor(t)]
    BY <1>1, <1>2, <1>3, Pages DEF PageFor
  <2>2. QED BY <2>1 DEF AllScreens
<1>5. ScreensOf!Display(new)
  BY <1>2, <1>4 DEF ScreensOf!Display, AllScreens, PageFor
<1>6. TextInv'
  BY <1>2, <1>3 DEF ConInv, TextInv
<1>7. OwnerInv' /\ FreshInv' /\ CursorFollows'
  <2>1. /\ Remapped(new) \in [Terminals -> {Screen, Unmapped} \union Terminals]
        /\ \A t \in live : Remapped(new)[t] = PageFor(t)'
    BY <1>1, <1>2 DEF ConInv, OwnerInv, Remapped, PageFor
  <2>2. CASE new \in live
    <3>1. /\ user_video' = Remapped(new) /\ cursor' = screen_y[new] * NUM_COLS + screen_x[new]
          /\ live' = live /\ running' = running
      BY <2>2 DEF change_terminal, update_cursor
    <3>2. OwnerInv'
      BY <1>2, <2>1, <2>2, <3>1 DEF ConInv, OwnerInv
    <3>3. QED BY <1>2, <3>1, <3>2 DEF ConInv, FreshInv, CursorFollows
  <2>3. CASE new \notin live
    <3>1. /\ user_video' = [Remapped(new) EXCEPT ![new] = Screen] /\ cursor' = cursor
          /\ live' = live \union {new} /\ running' = new
      BY <2>3 DEF change_terminal
    <3>2. PageFor(new)' = Screen
      BY <1>2 DEF PageFor
    <3>3. user_video' \in [Terminals -> {Screen, Unmapped} \union Terminals]
      BY <2>1, <3>1
    <3>4. \A t \in live' : user_video'[t] = PageFor(t)'
      BY <1>2, <2>1, <3>1, <3>2
    <3>5. OwnerInv'
      BY <1>2, <3>1, <3>3, <3>4 DEF ConInv, OwnerInv
    <3>6. screen_x[new] = 0 /\ screen_y[new] = 0
      BY <2>3 DEF ConInv, FreshInv
    <3>7. QED BY <1>2, <3>1, <3>5, <3>6 DEF ConInv, FreshInv, CursorFollows
  <2>4. QED BY <2>2, <2>3
<1>8. QED BY <1>5, <1>6, <1>7 DEF ConInv, ScreensOf!Next

LEMMA SwitchStep == ASSUME ConInv, PitSwitch PROVE ConInv' /\ ScreenStep
<1>1. /\ running' \in live /\ tlb' = Unmapped
      /\ UNCHANGED <<mem, screen_x, screen_y, cursor, displayed_terminal, key_press,
                     video_mem, user_video, live>>
  BY DEF PitSwitch
<1>2. ConInv'
  BY <1>1 DEF ConInv, TextInv, OwnerInv, FreshInv, CursorFollows, PageFor
<1>3. ScreenStep
  BY <1>1 DEF ScreenStep, ScreensOf!vars
<1>4. QED BY <1>2, <1>3

LEMMA IdleStep == ASSUME ConInv, Idle, key_press' = 0 PROVE ConInv' /\ ScreenStep
<1>1. UNCHANGED <<mem, screen_x, screen_y, cursor, displayed_terminal, video_mem,
                  user_video, tlb, running, live>>
  BY DEF Idle
<1>2. ConInv'
  BY <1>1 DEF ConInv, TextInv, OwnerInv, FreshInv, CursorFollows, PageFor
<1>3. ScreenStep
  BY <1>1 DEF ScreenStep, ScreensOf!vars
<1>4. QED BY <1>2, <1>3

-------------------------------------------------------------------------------
(* Every step *)

LEMMA EchoStep == ASSUME ConInv, NEW todo, Echo(todo), key_press' = 0 PROVE ConInv' /\ ScreenStep
<1>1. CASE Idle
  BY <1>1, IdleStep
<1>2. CASE reset_screen
  BY <1>2, ResetStep DEF ScreenStep
<1>3. CASE backspace
  BY <1>3, BackspaceStep
<1>4. ASSUME NEW ch \in Characters \union {NewLine}, putc(1, ch) PROVE ConInv' /\ ScreenStep
  BY <1>4, PutcStep DEF ScreenStep
<1>5. "mark" \in Characters \union {NewLine} /\ NewLine \in Characters \union {NewLine}
  BY Pages
<1>6. QED BY <1>1, <1>2, <1>3, <1>4, <1>5 DEF Echo

LEMMA ConStep == ConInv /\ [Next]_vars => ConInv' /\ ScreenStep
<1> SUFFICES ASSUME ConInv, [Next]_vars PROVE ConInv' /\ ScreenStep
  OBVIOUS
<1>1. ASSUME NEW k \in Keys, KeyPressed(k) PROVE ConInv' /\ ScreenStep
  <2>1. CASE Echo(Meaning(k)) /\ key_press' = 0
    BY <2>1, EchoStep
  <2>2. CASE Meaning(k).op \in FKeys /\ change_terminal(TerminalOf[Meaning(k).op])
    BY <2>2, TerminalKeysAssumption, ChangeStep DEF ScreenStep
  <2>3. QED BY <1>1, <2>1, <2>2 DEF KeyPressed
<1>2. ASSUME NEW k \in Modifiers, KeyReleased(k) PROVE ConInv' /\ ScreenStep
  BY <1>2, IdleStep DEF KeyReleased
<1>3. CASE ProgramPuts
  <2>1. PICK ch \in {"mark", NewLine} : putc(key_press, ch)
    BY <1>3 DEF ProgramPuts
  <2>2. key_press = 0 /\ key_press' = 0 /\ ch \in Characters \union {NewLine}
    BY <1>3, Pages DEF ProgramPuts, ConInv, OwnerInv
  <2>3. putc(0, ch)
    BY <2>1, <2>2
  <2>4. QED BY <2>2, <2>3, PutcStep DEF ScreenStep
<1>4. CASE ProgramDraws
  BY <1>4, DrawStep DEF ScreenStep
<1>5. CASE PitSwitch
  BY <1>5, SwitchStep
<1>6. CASE UNCHANGED vars
  <2>1. Idle /\ key_press' = key_press
    BY <1>6 DEF vars, conVars, Idle
  <2>2. key_press' = 0
    BY <2>1 DEF ConInv, OwnerInv
  <2>3. QED BY <2>1, <2>2, IdleStep
<1>7. QED BY <1>1, <1>2, <1>3, <1>4, <1>5, <1>6 DEF Next

LEMMA ConInit == Init => ConInv /\ ScreensOf!Init
<1> SUFFICES ASSUME Init PROVE ConInv /\ ScreensOf!Init
  OBVIOUS
<1>1. /\ mem = [p \in {Screen} \union Terminals |->
                  [c \in Cells |-> IF p = Screen /\ c < NUM_COLS THEN "mark" ELSE Blank]]
      /\ screen_x = [t \in Terminals |-> 0]
      /\ screen_y = [t \in Terminals |-> IF t = 0 THEN 1 ELSE 0]
      /\ cursor = NUM_COLS /\ displayed_terminal = 0 /\ key_press = 0
      /\ video_mem = "USER_VIDEO"
      /\ user_video = [t \in Terminals |-> IF t = 0 THEN Screen ELSE Unmapped]
      /\ tlb = Unmapped /\ running = 0 /\ live = {0}
  BY DEF Init
<1>2. TextInv
  BY <1>1, Pages, ScreenAssumption DEF TextInv
<1>3. OwnerInv /\ FreshInv
  BY <1>1, Pages DEF OwnerInv, FreshInv, PageFor
<1>4. CursorFollows
  BY <1>1, Pages, ScreenAssumption DEF CursorFollows
<1>5. /\ AllScreens \in [Terminals -> [Cells -> Characters]]
      /\ AllPositions \in [Terminals -> Cells]
  <2>1. \A t \in Terminals : mem[PageFor(t)] \in [Cells -> Characters]
    BY <1>2, Pages DEF TextInv
  <2>2. \A t \in Terminals : screen_y[t] * NUM_COLS + screen_x[t] \in Cells
    BY <1>2, Place DEF TextInv
  <2>3. QED BY <2>1, <2>2 DEF AllScreens, AllPositions
<1>6. ScreensOf!Init
  BY <1>2, <1>5, Mapping DEF ScreensOf!Init, AllScreens, AllPositions, PageFor, TextInv
<1>7. QED BY <1>2, <1>3, <1>4, <1>6 DEF ConInv

THEOREM ConInvHolds == Spec => []ConInv
<1>1. Init => ConInv
  BY ConInit
<1>2. ConInv /\ [Next]_vars => ConInv'
  BY ConStep
<1>3. QED BY <1>1, <1>2, PTL DEF Spec

\* CursorFollows: the hardware cursor is where the next character of the terminal on
\* display goes, whoever writes and whichever terminal is brought to the front.
THEOREM CursorFollowsHolds == Spec => []CursorFollows
<1>1. ConInv => CursorFollows
  BY DEF ConInv
<1>2. QED BY <1>1, ConInvHolds, PTL

\* ImplementsScreens: for any size of the screen and any number of terminals, putc,
\* backspace, CTRL-L, drawing at USER_VIDEO and change_terminal, TLB and all, act as one
\* screen per terminal.
THEOREM ScreensImplemented == Spec => ImplementsScreens
<1>1. Init => ScreensOf!Init
  BY ConInit
<1>2. ConInv /\ [Next]_vars => [ScreensOf!Next]_ScreensOf!vars
  BY ConStep DEF ScreenStep
<1>3. QED BY <1>1, <1>2, ConInvHolds, PTL DEF Spec, ImplementsScreens, ScreensOf!Spec
===============================================================================
