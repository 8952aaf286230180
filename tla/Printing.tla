------------------------------- MODULE Printing -------------------------------
(***************************************************************************)
(* libtask/print.c: vseprint, which every printing function calls, for a   *)
(* format that is read item by item: characters to copy and conversions    *)
(* with their arguments.  A text is a sequence of one-character strings;   *)
(* the integer types are as wide as the constants say.  A '%' as the last  *)
(* character, after which the code goes on past the end of the format, is  *)
(* left out.                                                               *)
(***************************************************************************)
EXTENDS Integers, SequencesExt

CONSTANTS
  IntRange, LongRange, VlongRange,  \* how many values int, long and vlong have
  Chars,     \* what strings are made of
  Items,     \* what a format is made of
  Rooms,     \* sizes of the buffer: edst - dst
  MaxItems   \* items in a format

Numbers == {"d", "o", "x"}
Verbs == Numbers \cup {"s", "other"}

ASSUME PrintAssumption ==
  /\ \A range \in {IntRange, LongRange, VlongRange} : range \in Nat \ {0} /\ range % 2 = 0
  /\ IntRange <= LongRange /\ LongRange <= VlongRange
  /\ Rooms \subseteq Nat \ {0} /\ MaxItems \in Nat
  /\ \A item \in Items :
       /\ item.verb \in Verbs /\ item.size \in Int /\ item.unsigned \in BOOLEAN
       /\ item.type \in {"int", "long", "vlong"}
       /\ item.verb \in Numbers => item.arg \in Int
       /\ item.verb = "s" => item.arg \in Seq(Chars)

VARIABLES
  edst,   \* the room
  w,      \* what was written: its length is the code's w - dst
  items,  \* history: the items read
  done    \* has the loop ended

printVars == <<edst, w, items, done>>

PrintInit == edst \in Rooms /\ w = << >> /\ items = << >> /\ done = FALSE

\* Copied characters, %s, %c and %r are items of verb "s"; a size below zero
\* is one after '-'.
Least(a, b) == IF a < b THEN a ELSE b
Most(a, b) == IF a < b THEN b ELSE a
Size(item) ==
  IF item.verb = "other" THEN 0 ELSE IF item.size < 0 THEN -item.size ELSE item.size
blank == " "
Blanks(n) == [i \in 1 .. n |-> blank]
Digits == <<"0", "1", "2", "3", "4", "5", "6", "7", "8", "9", "a", "b", "c", "d", "e", "f">>
Base(item) == CASE item.verb = "d" -> 10 [] item.verb = "o" -> 8 [] item.verb = "x" -> 16
Values(item) == CASE item.type = "int" -> IntRange [] item.type = "long" -> LongRange
                  [] item.type = "vlong" -> VlongRange

\* The argument as its conversion reads it.
Value(item) ==
  LET m == Values(item)
      x == item.arg % m
  IN  IF item.unsigned \/ x < m \div 2 THEN x ELSE x - m

\* Fault: the sign is not taken off.
luv_Signed(item) == Value(item) % VlongRange

\* The uvlong whose digits are written.
luv(item) ==
  LET x == Value(item) % VlongRange
      neg == ~item.unsigned /\ x >= VlongRange \div 2
  IN  IF neg THEN (-x) % VlongRange ELSE x

\* The digits of each number, found from the last to the first; 0 has none.
digits(base) ==
  LET d[n \in 0 .. VlongRange - 1] ==
        IF n = 0 THEN << >> ELSE Append(d[n \div base], Digits[(n % base) + 1])
  IN  d

\* The digits after the mark of the base.  The sign, although computed, is not
\* written.
digitsOf(item) ==
  (IF Base(item) = 8 \/ luv(item) = 0 THEN <<"0">> ELSE << >>)
  \o (IF Base(item) = 16 THEN <<"0", "x">> ELSE << >>) \o digits(Base(item))[luv(item)]

\* After a conversion it does not know, vseprint copies its own "*verb*"
\* instead of the rest of the format.
text(item) ==
  CASE item.verb = "s" -> item.arg
    [] item.verb \in Numbers -> digitsOf(item)
    [] item.verb = "other" -> <<"*", "v", "e", "r", "b", "*">>

\* What printstr writes of s with room characters left.
printstr(s, item, room) ==
  LET want == Most(Len(s), Size(item))
      n == IF want >= room THEN room - 1 ELSE want
      l == Least(Len(s), n)
  IN  IF item.size < 0 THEN SubSeq(s, 1, l) \o Blanks(n - l)
                       ELSE Blanks(n - l) \o SubSeq(s, 1, l)

\* One pass of the loop.
vseprint(item) ==
  /\ ~done /\ Len(w) < edst - 1 /\ Len(items) < MaxItems
  /\ items' = Append(items, item)
  /\ w' = w \o printstr(text(item), item, edst - Len(w))
  /\ done' = (item.verb = "other")
  /\ UNCHANGED edst

\* The end of the format or of the room.
vseprintEnds ==
  /\ ~done
  /\ done' = TRUE
  /\ UNCHANGED <<edst, w, items>>

PrintNext == vseprintEnds \/ \E item \in Items : vseprint(item)

-----------------------------------------------------------------------------

Power(base) ==
  LET p[k \in 0 .. VlongRange] == IF k = 0 THEN 1 ELSE base * p[k - 1]
  IN  p

\* The numeral of n, as long as it has to be; none for 0.
Numeral(n, base) ==
  LET k == CHOOSE k \in 0 .. n :
             n < Power(base)[k] /\ (k > 0 => Power(base)[k - 1] <= n)
  IN  [i \in 1 .. k |-> Digits[((n \div Power(base)[k - i]) % base) + 1]]

\* A conversion as C and Plan 9 define it, except that a sign is never printed
\* and that a zero in hexadecimal is 00x.
Converted(item) ==
  LET n == IF Value(item) < 0 THEN -Value(item) ELSE Value(item)
      s == CASE item.verb = "s" -> item.arg
             [] item.verb = "d" -> IF n = 0 THEN <<"0">> ELSE Numeral(n, 10)
             [] item.verb = "o" -> <<"0">> \o Numeral(n, 8)
             [] item.verb = "x" -> IF n = 0 THEN <<"0", "0", "x">>
                                   ELSE <<"0", "x">> \o Numeral(n, 16)
             [] item.verb = "other" -> <<"*", "v", "e", "r", "b", "*">>
      blanks == Blanks(Size(item) - Len(s))
  IN  IF item.size < 0 THEN s \o blanks ELSE blanks \o s

\* What is printed is what the conversions stand for, for every type, value and
\* size; if it does not fit, the buffer is full and holds the beginning, of
\* which one run of blanks may be missing; its end is never passed (the assert
\* and the final 0).
PrintExact ==
  LET all == FlattenSeq([i \in DOMAIN items |-> Converted(items[i])])
  IN  IF Len(all) < edst THEN w = all
      ELSE /\ Len(w) = edst - 1
           /\ \E p \in 0 .. Len(all) : \E g \in 0 .. Len(all) - p :
                /\ SubSeq(all, p + 1, p + g) = Blanks(g)
                /\ IsPrefix(w, SubSeq(all, 1, p) \o SubSeq(all, p + g + 1, Len(all)))

=============================================================================
